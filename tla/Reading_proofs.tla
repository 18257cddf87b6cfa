--------------------------- MODULE Reading_proofs ---------------------------
(***************************************************************************)
(* Proofs about what reads by itself: match (src/lokit/db/operations.py),  *)
(* for any rows, scores, limits, sizes of a page and commits;              *)
(* TranslationMemoryStream, for any number of streams, connections, rows,  *)
(* sizes of a batch, failures and cancellations; the parallel projection   *)
(* (parsers/tmx/parallel.py), for any file, any options and any schedule   *)
(* of its threads; and units and documents out of the memory, for any      *)
(* loads and rows.                                                         *)
(***************************************************************************)
EXTENDS Reading, SequenceTheorems, FiniteSetTheorems, TLAPS

-----------------------------------------------------------------------------
(***************************************************************************)
(* Finite sets in a strict total order R: the sequence that numbers each   *)
(* element by its predecessors, as Sorted of TmMatch does.                 *)
(***************************************************************************)
\* 'R' orders 'S' totally and strictly.
IsOrder(R, S) ==
  /\ \A x \in S : <<x, x>> \notin R
  /\ \A x, y, z \in S : <<x, y>> \in R /\ <<y, z>> \in R => <<x, z>> \in R
  /\ \A x, y \in S : x # y => <<x, y>> \in R \/ <<y, x>> \in R

Preds(R, S, x) == {y \in S : <<y, x>> \in R}

Ranked(R, S) == [n \in 1..Cardinality(S) |-> CHOOSE x \in S : Cardinality(Preds(R, S, x)) = n - 1]

Chain(r, O) == \A i, j \in 1..Len(r) : i < j => <<r[i], r[j]>> \in O

\* An element has fewer predecessors than one it comes before.
LEMMA PredsGrow ==
  ASSUME NEW S, NEW R, IsFiniteSet(S), IsOrder(R, S), NEW x \in S, NEW y \in S, <<x, y>> \in R
  PROVE  /\ Cardinality(Preds(R, S, x)) \in Nat /\ Cardinality(Preds(R, S, y)) \in Nat
         /\ Cardinality(Preds(R, S, x)) < Cardinality(Preds(R, S, y))
<1>1. Preds(R, S, x) \subseteq Preds(R, S, y) /\ Preds(R, S, y) \subseteq S
  BY DEF Preds, IsOrder
<1>2. x \in Preds(R, S, y) /\ x \notin Preds(R, S, x)
  BY DEF Preds, IsOrder
<1>3. IsFiniteSet(Preds(R, S, y))
  BY <1>1, FS_Subset
<1>4. Cardinality(Preds(R, S, x)) <= Cardinality(Preds(R, S, y)) /\ IsFiniteSet(Preds(R, S, x))
      /\ (Cardinality(Preds(R, S, x)) = Cardinality(Preds(R, S, y)) => Preds(R, S, x) = Preds(R, S, y))
  BY <1>1, <1>3, FS_Subset
<1>5. Cardinality(Preds(R, S, x)) \in Nat /\ Cardinality(Preds(R, S, y)) \in Nat
  BY <1>3, <1>4, FS_CardinalityType
<1>6. Cardinality(Preds(R, S, x)) # Cardinality(Preds(R, S, y))
  BY <1>2, <1>4
<1>. QED
  BY <1>4, <1>5, <1>6

\* Two elements have as many predecessors only if they are the same.
LEMMA PredsDiffer ==
  ASSUME NEW S, NEW R, IsFiniteSet(S), IsOrder(R, S), NEW x \in S, NEW y \in S,
         Cardinality(Preds(R, S, x)) = Cardinality(Preds(R, S, y))
  PROVE  x = y
<1>. SUFFICES ASSUME x # y PROVE FALSE
  OBVIOUS
<1>1. <<x, y>> \in R \/ <<y, x>> \in R
  BY DEF IsOrder
<1>2. CASE <<x, y>> \in R
  BY <1>2, PredsGrow
<1>3. CASE <<y, x>> \in R
  BY <1>3, PredsGrow
<1>. QED
  BY <1>1, <1>2, <1>3

\* Every number below that of the elements is the number of predecessors of one.
LEMMA RanksAreAll ==
  ASSUME NEW S, NEW R, IsFiniteSet(S), IsOrder(R, S), NEW n \in 1..Cardinality(S)
  PROVE  \E x \in S : Cardinality(Preds(R, S, x)) = n - 1
<1>. DEFINE N == Cardinality(S)
            T == 0..N - 1
            f == [x \in S |-> Cardinality(Preds(R, S, x))]
<1>1. N \in Nat
  BY FS_CardinalityType
<1>2. \A x \in S : f[x] \in T
  <2>. TAKE x \in S
  <2>1. Preds(R, S, x) \subseteq S /\ Preds(R, S, x) # S
    BY DEF Preds, IsOrder
  <2>2. IsFiniteSet(Preds(R, S, x)) /\ Cardinality(Preds(R, S, x)) <= N
        /\ (Cardinality(Preds(R, S, x)) = N => Preds(R, S, x) = S)
    BY <2>1, FS_Subset
  <2>3. Cardinality(Preds(R, S, x)) \in Nat
    BY <2>2, FS_CardinalityType
  <2>. QED
    BY <1>1, <2>1, <2>2, <2>3
<1>3. IsFiniteSet(T) /\ Cardinality(T) = N
  <2>. HIDE DEF N
  <2>1. N - 1 \in Int /\ 0 \in Int
    BY <1>1
  <2>2. IsFiniteSet(T) /\ Cardinality(T) = IF 0 > N - 1 THEN 0 ELSE N - 1 - 0 + 1
    BY <2>1, FS_Interval
  <2>. QED
    BY <1>1, <2>2
<1>4. f \in Injection(S, T)
  <2>1. \A a, b \in S : f[a] = f[b] => a = b
    BY PredsDiffer
  <2>. QED
    BY <1>2, <2>1 DEF Injection, IsInjective
<1>5. f \in Surjection(S, T)
  BY <1>3, <1>4, FS_Injection, FS_Surjection
<1>6. n - 1 \in T
  BY <1>1
<1>. QED
  BY <1>5, <1>6 DEF Surjection

\* What a set in order is: every member once, each before those behind it.
LEMMA RankedIs ==
  ASSUME NEW S, NEW R, IsFiniteSet(S), IsOrder(R, S)
  PROVE  LET r == Ranked(R, S) IN
         /\ Len(r) = Cardinality(S) /\ r \in Seq(S)
         /\ Chain(r, R)
         /\ \A x \in S : \E n \in 1..Len(r) : r[n] = x
<1>. DEFINE r == Ranked(R, S)
            N == Cardinality(S)
<1>1. N \in Nat
  BY FS_CardinalityType
<1>2. \A n \in 1..N : r[n] \in S /\ Cardinality(Preds(R, S, r[n])) = n - 1
  BY RanksAreAll DEF Ranked
<1>3. DOMAIN r = 1..N /\ r = [n \in 1..N |-> r[n]]
  BY DEF Ranked
<1>. HIDE DEF r, N
<1>4. r \in Seq(S) /\ Len(r) = N
  BY <1>1, <1>2, <1>3
<1>5. Chain(r, R)
  <2>. SUFFICES ASSUME NEW i \in 1..N, NEW j \in 1..N, i < j
                PROVE  <<r[i], r[j]>> \in R
    BY <1>4 DEF Chain
  <2>1. r[i] # r[j]
    BY <1>1, <1>2
  <2>2. CASE <<r[j], r[i]>> \in R
    <3>1. Cardinality(Preds(R, S, r[j])) < Cardinality(Preds(R, S, r[i]))
      BY <1>2, <2>2, PredsGrow
    <3>. QED
      BY <1>1, <1>2, <3>1
  <2>. QED
    BY <1>2, <2>1, <2>2 DEF IsOrder
<1>6. \A x \in S : \E n \in 1..N : r[n] = x
  <2>. TAKE x \in S
  <2>1. Preds(R, S, x) \subseteq S /\ Preds(R, S, x) # S
    BY DEF Preds, IsOrder
  <2>2. IsFiniteSet(Preds(R, S, x)) /\ Cardinality(Preds(R, S, x)) <= N
        /\ (Cardinality(Preds(R, S, x)) = N => Preds(R, S, x) = S)
    BY <2>1, FS_Subset DEF N
  <2>3. Cardinality(Preds(R, S, x)) \in Nat
    BY <2>2, FS_CardinalityType
  <2>4. Cardinality(Preds(R, S, x)) + 1 \in 1..N
    BY <1>1, <2>1, <2>2, <2>3
  <2>5. r[Cardinality(Preds(R, S, x)) + 1] = x
    BY <1>2, <2>3, <2>4, PredsDiffer
  <2>. QED
    BY <2>4, <2>5
<1>. QED
  BY <1>4, <1>5, <1>6 DEF r, N

\* The first members of a set in order are a chain that no other member comes before.
LEMMA FirstRanks ==
  ASSUME NEW S, NEW R, IsFiniteSet(S), IsOrder(R, S),
         NEW r \in Seq(S), Chain(r, R),
         \A x \in S : (\E n \in 1..Len(r) : r[n] = x) \/ (\A n \in 1..Len(r) : <<r[n], x>> \in R)
  PROVE  /\ Len(r) <= Cardinality(S)
         /\ \A n \in 1..Len(r) : Ranked(R, S)[n] = r[n]
<1>. DEFINE N == Cardinality(S)
            K == Len(r)
<1>1. N \in Nat /\ K \in Nat /\ \A n \in 1..K : r[n] \in S
  BY FS_CardinalityType
<1>2. \A n \in 1..K : Cardinality(Preds(R, S, r[n])) = n - 1
  <2>. TAKE n \in 1..K
  <2>. DEFINE P == Preds(R, S, r[n])
              f == [i \in 1..n - 1 |-> r[i]]
  <2>1. P = {r[i] : i \in 1..n - 1}
    <3>1. ASSUME NEW i \in 1..n - 1 PROVE r[i] \in P
      BY <1>1 DEF Chain, Preds
    <3>2. ASSUME NEW x \in P PROVE \E i \in 1..n - 1 : r[i] = x
      <4>1. x \in S /\ <<x, r[n]>> \in R /\ r[n] \in S
        BY <1>1 DEF Preds
      <4>2. <<r[n], x>> \notin R
        BY <4>1 DEF IsOrder
      <4>3. PICK i \in 1..K : r[i] = x
        BY <4>1, <4>2
      <4>4. ~(n <= i)
        <5>1. CASE n = i
          BY <4>1, <4>3, <5>1 DEF IsOrder
        <5>2. CASE n < i
          BY <4>2, <4>3, <5>2 DEF Chain
        <5>. QED
          BY <5>1, <5>2
      <4>. QED
        BY <4>3, <4>4
    <3>. QED
      BY <3>1, <3>2
  <2>2. f \in Bijection(1..n - 1, P)
    <3>1. \A i, j \in 1..n - 1 : r[i] = r[j] => i = j
      <4>. SUFFICES ASSUME NEW i \in 1..n - 1, NEW j \in 1..n - 1, i < j PROVE r[i] # r[j]
        OBVIOUS
      <4>1. <<r[i], r[j]>> \in R /\ r[i] \in S
        BY <1>1, SMTT(30) DEF Chain
      <4>. QED
        BY <4>1 DEF IsOrder
    <3>. QED
      BY <2>1, <3>1 DEF Bijection, Injection, Surjection, IsInjective
  <2>3. IsFiniteSet(1..n - 1) /\ Cardinality(1..n - 1) = n - 1
    <3>1. n - 1 \in Nat /\ 1 \in Int /\ n - 1 \in Int
      BY <1>1
    <3>2. IsFiniteSet(1..n - 1) /\ Cardinality(1..n - 1) = IF 1 > n - 1 THEN 0 ELSE n - 1 - 1 + 1
      BY <3>1, FS_Interval
    <3>. QED
      BY <3>1, <3>2
  <2>4. ExistsBijection(1..n - 1, P)
    BY <2>2 DEF ExistsBijection
  <2>. HIDE DEF P
  <2>. QED
    BY <2>3, <2>4, FS_Bijection DEF P
<1>3. \A n \in 1..K : n <= N
  <2>. TAKE n \in 1..K
  <2>1. Preds(R, S, r[n]) \subseteq S /\ Preds(R, S, r[n]) # S
    BY <1>1 DEF Preds, IsOrder
  <2>2. Cardinality(Preds(R, S, r[n])) <= N /\ Cardinality(Preds(R, S, r[n])) # N
    BY <2>1, FS_Subset
  <2>. QED
    BY <1>1, <1>2, <2>2
<1>4. \A n \in 1..K : Ranked(R, S)[n] = r[n]
  <2>. TAKE n \in 1..K
  <2>1. n \in 1..N
    BY <1>1, <1>3
  <2>2. \A x \in S : Cardinality(Preds(R, S, x)) = n - 1 <=> x = r[n]
    BY <1>1, <1>2, PredsDiffer
  <2>3. (CHOOSE x \in S : Cardinality(Preds(R, S, x)) = n - 1) = r[n]
    BY <1>1, <2>2
  <2>. QED
    BY <2>1, <2>3 DEF Ranked
<1>5. K <= N
  BY <1>1, <1>3
<1>. QED
  BY <1>4, <1>5

-----------------------------------------------------------------------------
(***************************************************************************)
(* The rows, the order in which the scans and their pages come to them, and*)
(* the pages.                                                              *)
(***************************************************************************)
Row == [usage : Nat, updated : Int]

\* The scan that finds a row, 4 when none does.
Phase(context, id) ==
  IF id \in Equal THEN (IF context /\ id \in Context THEN 1 ELSE 2)
  ELSE IF Score[id] >= Threshold THEN 3 ELSE 4

Number(scan) == CASE scan = "ice" -> 1 [] scan = "exact" -> 2 [] scan = "fuzzy" -> 3

\* The order of the scans and of the pages of each
InOrder(context, recs) ==
  {p \in (DOMAIN recs) \X (DOMAIN recs) :
     \/ Phase(context, p[1]) < Phase(context, p[2])
     \/ /\ Phase(context, p[1]) = Phase(context, p[2])
        /\ Below(Rank(recs, p[2]), Rank(recs, p[1]))}

Less == {p \in Int \X Int : p[1] < p[2]}

\* The comparison of cursors, key by key
LEMMA BelowIs ==
  ASSUME NEW a, NEW b
  PROVE  Below(a, b) <=>
           \/ a[1] < b[1]
           \/ a[1] = b[1] /\ a[2] < b[2]
           \/ a[1] = b[1] /\ a[2] = b[2] /\ a[3] < b[3]
           \/ a[1] = b[1] /\ a[2] = b[2] /\ a[3] = b[3] /\ a[4] < b[4]
<1>. USE DEF Below
<1>1. ASSUME Below(a, b)
      PROVE  \/ a[1] < b[1]
             \/ a[1] = b[1] /\ a[2] < b[2]
             \/ a[1] = b[1] /\ a[2] = b[2] /\ a[3] < b[3]
             \/ a[1] = b[1] /\ a[2] = b[2] /\ a[3] = b[3] /\ a[4] < b[4]
  <2>1. PICK n \in 1..4 : a[n] < b[n] /\ \A m \in 1..n - 1 : a[m] = b[m]
    BY <1>1
  <2>. QED
    BY <2>1
<1>2. a[1] < b[1] => Below(a, b)
  OBVIOUS
<1>3. a[1] = b[1] /\ a[2] < b[2] => Below(a, b)
  OBVIOUS
<1>4. a[1] = b[1] /\ a[2] = b[2] /\ a[3] < b[3] => Below(a, b)
  OBVIOUS
<1>5. a[1] = b[1] /\ a[2] = b[2] /\ a[3] = b[3] /\ a[4] < b[4] => Below(a, b)
  OBVIOUS
<1>. QED
  BY <1>1, <1>2, <1>3, <1>4, <1>5

\* Cursors are ordered.
LEMMA BelowBetween ==
  ASSUME NEW a, NEW b, NEW c,
         a[1] \in Int, a[2] \in Int, a[3] \in Int, a[4] \in Int,
         b[1] \in Int, b[2] \in Int, b[3] \in Int, b[4] \in Int,
         c[1] \in Int, c[2] \in Int, c[3] \in Int, c[4] \in Int
  PROVE  /\ ~Below(a, c) /\ Below(b, c) => Below(b, a)
         /\ Below(a, b) /\ Below(b, c) => Below(a, c)
         /\ Below(a, b) => ~Below(b, a)
<1>. DEFINE B(x, y) == \/ x[1] < y[1]
                       \/ x[1] = y[1] /\ x[2] < y[2]
                       \/ x[1] = y[1] /\ x[2] = y[2] /\ x[3] < y[3]
                       \/ x[1] = y[1] /\ x[2] = y[2] /\ x[3] = y[3] /\ x[4] < y[4]
<1>1. /\ Below(a, b) <=> B(a, b)
      /\ Below(b, a) <=> B(b, a)
      /\ Below(a, c) <=> B(a, c)
      /\ Below(b, c) <=> B(b, c)
  BY BelowIs, Zenon
<1>2. ~B(a, c) /\ B(b, c) => B(b, a)
  OBVIOUS
<1>3. B(a, b) /\ B(b, c) => B(a, c)
  OBVIOUS
<1>4. B(a, b) => ~B(b, a)
  OBVIOUS
<1>. HIDE DEF B
<1>. QED
  BY <1>1, <1>2, <1>3, <1>4

\* The cursor of a row
LEMMA RankIs ==
  ASSUME NEW recs, NEW id \in Candidates, recs[id] \in Row
  PROVE  LET r == Rank(recs, id) IN
           /\ r = <<Score[id], recs[id].usage, recs[id].updated, id>>
           /\ r \in Int \X Nat \X Int \X Int
           /\ r[1] = Score[id] /\ r[2] = recs[id].usage /\ r[3] = recs[id].updated /\ r[4] = id
           /\ r[1] \in Int /\ r[2] \in Int /\ r[3] \in Int /\ r[4] \in Int
BY InputsAssumption DEF Row, Rank

\* The scans, and the pages of each, order the rows totally.
LEMMA ScansAreOrdered ==
  ASSUME NEW recs, DOMAIN recs \subseteq Candidates, \A id \in DOMAIN recs : recs[id] \in Row,
         NEW context \in BOOLEAN
  PROVE  IsOrder(InOrder(context, recs), DOMAIN recs)
<1>. DEFINE D == DOMAIN recs
            K(x) == Rank(recs, x)
<1>1. \A x \in D : /\ K(x)[1] \in Int /\ K(x)[2] \in Int /\ K(x)[3] \in Int /\ K(x)[4] = x /\ x \in Int
                   /\ Phase(context, x) \in Int
  <2>1. ASSUME NEW x \in D
        PROVE  K(x)[1] \in Int /\ K(x)[2] \in Int /\ K(x)[3] \in Int /\ K(x)[4] = x
    <3>1. x \in Candidates /\ recs[x] \in Row
      OBVIOUS
    <3>. QED
      BY <3>1, RankIs
  <2>2. \A x \in D : x \in Int
    BY InputsAssumption
  <2>3. \A x \in D : Phase(context, x) \in Int
    BY DEF Phase
  <2>. QED
    BY <2>1, <2>2, <2>3
<1>2. \A x, y \in D : Below(K(y), K(x)) <=>
           \/ K(y)[1] < K(x)[1]
           \/ K(y)[1] = K(x)[1] /\ K(y)[2] < K(x)[2]
           \/ K(y)[1] = K(x)[1] /\ K(y)[2] = K(x)[2] /\ K(y)[3] < K(x)[3]
           \/ K(y)[1] = K(x)[1] /\ K(y)[2] = K(x)[2] /\ K(y)[3] = K(x)[3] /\ K(y)[4] < K(x)[4]
  BY BelowIs
<1>3. \A x, y \in D : <<x, y>> \in InOrder(context, recs) <=>
           \/ Phase(context, x) < Phase(context, y)
           \/ Phase(context, x) = Phase(context, y) /\ Below(K(y), K(x))
  BY DEF InOrder
<1>. HIDE DEF K, D
<1>4. \A x \in D : <<x, x>> \notin InOrder(context, recs)
  BY <1>1, <1>2, <1>3
<1>5. ASSUME NEW x \in D, NEW y \in D, NEW z \in D,
             <<x, y>> \in InOrder(context, recs), <<y, z>> \in InOrder(context, recs)
      PROVE  <<x, z>> \in InOrder(context, recs)
  BY <1>1, <1>2, <1>3, <1>5
<1>6. ASSUME NEW x \in D, NEW y \in D, x # y
      PROVE  <<x, y>> \in InOrder(context, recs) \/ <<y, x>> \in InOrder(context, recs)
  BY <1>1, <1>2, <1>3, <1>6
<1>. QED
  BY <1>4, <1>5, <1>6 DEF D, IsOrder

\* A page has the first rows that are found, and is short only if it has all of them.
LEMMA PageIs ==
  ASSUME NEW scan \in {"ice", "exact", "fuzzy"},
         DOMAIN store \subseteq Candidates, \A id \in DOMAIN store : store[id] \in Row,
         match.require_context \in BOOLEAN, scan = "ice" => match.require_context
  PROVE  LET found == {id \in DOMAIN store : InScan(scan, id) /\ AfterCursor(id)}
             R == InOrder(match.require_context, store)
             full == Ranked(R, found)
         IN Page(scan) = SubSeq(full, 1, Least(PageSize, Len(full)))
<1>. DEFINE found == {id \in DOMAIN store : InScan(scan, id) /\ AfterCursor(id)}
            R == InOrder(match.require_context, store)
            Before(a, b) == Below(Rank(store, b), Rank(store, a))
<1>1. \A id \in found : Phase(match.require_context, id) = Number(scan)
  BY DEF InScan, Phase, Number
<1>2. \A x \in found : {y \in found : Before(y, x)} = Preds(R, found, x)
  <2>. TAKE x \in found
  <2>1. \A y \in found : Before(y, x) <=> <<y, x>> \in R
    <3>. TAKE y \in found
    <3>1. x \in DOMAIN store /\ y \in DOMAIN store /\ Phase(match.require_context, y) = Phase(match.require_context, x)
          /\ ~(Phase(match.require_context, y) < Phase(match.require_context, x))
      BY <1>1 DEF Number
    <3>. HIDE DEF found
    <3>. QED
      BY <3>1 DEF InOrder
  <2>. HIDE DEF found, R, Before
  <2>. QED
    BY <2>1 DEF Preds
<1>3. Page(scan) = SubSeq(Sorted(found, Before), 1, Least(PageSize, Len(Sorted(found, Before))))
  BY DEF Page
<1>. DEFINE L(n) == CHOOSE x \in found : Cardinality({y \in found : Before(y, x)}) = n - 1
            M(n) == CHOOSE x \in found : Cardinality(Preds(R, found, x)) = n - 1
<1>4. \A n : L(n) = M(n)
  <2>. HIDE DEF found, R, Before
  <2>. QED
    BY <1>2, Zenon
<1>5. Sorted(found, Before) = Ranked(R, found)
  <2>1. /\ Sorted(found, Before) = [n \in 1..Cardinality(found) |-> L(n)]
        /\ Ranked(R, found) = [n \in 1..Cardinality(found) |-> M(n)]
    <3>. HIDE DEF found, R, Before
    <3>. QED
      BY Zenon DEF Sorted, Ranked
  <2>2. Cardinality(found) = Cardinality(found)
    OBVIOUS
  <2>. HIDE DEF L, M, found, R, Before
  <2>. QED
    BY <1>4, <2>1, <2>2
<1>. QED
  BY <1>3, <1>5, Zenon

\* Numbers are ordered.
LEMMA LessIsOrder ==
  ASSUME NEW S, S \subseteq Int
  PROVE  IsOrder(Less, S)
BY DEF IsOrder, Less

\* The rows of a page of one class, in its order.
LEMMA PickedIs ==
  ASSUME NEW C, NEW page \in Seq(C), NEW usable \in BOOLEAN, NEW O, Chain(page, O)
  PROVE  LET p == Picked(page, usable) IN
         /\ p \in Seq(C) /\ Chain(p, O)
         /\ \A n \in 1..Len(p) : \E k \in 1..Len(page) : p[n] = page[k] /\ (page[k] \in Applies <=> usable)
         /\ \A k \in 1..Len(page) : (page[k] \in Applies <=> usable) => \E n \in 1..Len(p) : p[n] = page[k]
<1>. DEFINE S == {n \in DOMAIN page : page[n] \in Applies <=> usable}
            Before(i, j) == i < j
            at == Ranked(Less, S)
            p == [n \in DOMAIN at |-> page[at[n]]]
<1>1. S \subseteq 1..Len(page) /\ S \subseteq Int /\ Len(page) \in Nat
  OBVIOUS
<1>2. IsFiniteSet(S)
  <2>1. IsFiniteSet(1..Len(page))
    BY <1>1, FS_Interval
  <2>. QED
    BY <1>1, <2>1, FS_Subset
<1>3. \A x \in S : {y \in S : Before(y, x)} = Preds(Less, S, x)
  BY <1>1 DEF Preds, Less
<1>4. at \in Seq(S) /\ Chain(at, Less) /\ \A x \in S : \E n \in 1..Len(at) : at[n] = x
  BY <1>1, <1>2, RankedIs, LessIsOrder
<1>. DEFINE L(n) == CHOOSE x \in S : Cardinality({y \in S : Before(y, x)}) = n - 1
            M(n) == CHOOSE x \in S : Cardinality(Preds(Less, S, x)) = n - 1
<1>5. \A n : L(n) = M(n)
  <2>. HIDE DEF S, Before
  <2>. QED
    BY <1>3, Zenon
<1>6. Sorted(S, Before) = at
  <2>1. /\ Sorted(S, Before) = [n \in 1..Cardinality(S) |-> L(n)]
        /\ at = [n \in 1..Cardinality(S) |-> M(n)]
    <3>. HIDE DEF S, Before
    <3>. QED
      BY Zenon DEF Sorted, Ranked
  <2>2. Cardinality(S) = Cardinality(S)
    OBVIOUS
  <2>. HIDE DEF L, M, S, Before
  <2>. QED
    BY <1>5, <2>1, <2>2
<1>7. Picked(page, usable) = p
  <2>1. Picked(page, usable) = [n \in DOMAIN Sorted(S, Before) |-> page[Sorted(S, Before)[n]]]
    BY Zenon DEF Picked
  <2>. QED
    BY <1>6, <2>1, Zenon
<1>8. \A n \in 1..Len(at) : at[n] \in 1..Len(page) /\ (page[at[n]] \in Applies <=> usable)
  BY <1>4
<1>. HIDE DEF at, S
<1>9. DOMAIN at = 1..Len(at) /\ Len(at) \in Nat
  BY <1>4
<1>10. p \in Seq(C) /\ Len(p) = Len(at) /\ \A n \in 1..Len(at) : p[n] = page[at[n]]
  BY <1>8, <1>9
<1>. HIDE DEF p
<1>11. Chain(p, O)
  <2>. SUFFICES ASSUME NEW i \in 1..Len(at), NEW j \in 1..Len(at), i < j
                PROVE  <<p[i], p[j]>> \in O
    BY <1>10 DEF Chain
  <2>1. at[i] < at[j]
    BY <1>4 DEF Chain, Less
  <2>. QED
    BY <1>8, <1>10, <2>1 DEF Chain
<1>12. \A k \in 1..Len(page) : (page[k] \in Applies <=> usable) => \E n \in 1..Len(p) : p[n] = page[k]
  <2>. SUFFICES ASSUME NEW k \in 1..Len(page), page[k] \in Applies <=> usable
                PROVE  \E n \in 1..Len(p) : p[n] = page[k]
    OBVIOUS
  <2>1. k \in S
    BY DEF S
  <2>2. PICK n \in 1..Len(at) : at[n] = k
    BY <1>4, <2>1
  <2>. QED
    BY <1>10, <2>2
<1>. QED
  BY <1>7, <1>8, <1>10, <1>11, <1>12

\* 'r' is 'seq' and the rows of the page of one class behind it, up to the bound.
Retains(C, seq, page, usable, bound, O, r) ==
  /\ r \in Seq(C) /\ Len(r) <= bound /\ Chain(r, O)
  /\ \A i \in 1..Len(r) : \/ \E k \in 1..Len(seq) : r[i] = seq[k]
                          \/ \E k \in 1..Len(page) : r[i] = page[k] /\ (page[k] \in Applies <=> usable)
  /\ \A k \in 1..Len(seq) : \E i \in 1..Len(r) : r[i] = seq[k]
  /\ \A k \in 1..Len(page) : (page[k] \in Applies <=> usable) =>
       \/ \E i \in 1..Len(r) : r[i] = page[k]
       \/ Len(r) = bound /\ \A i \in 1..Len(r) : <<r[i], page[k]>> \in O
  /\ Len(seq) = bound => r = seq

\* _BoundedMatchResults.add keeps the order, up to the bound.
LEMMA RetainIs ==
  ASSUME NEW C, NEW seq \in Seq(C), NEW page \in Seq(C), NEW usable \in BOOLEAN, NEW bound \in Nat,
         NEW O, Len(seq) <= bound, Chain(seq, O), Chain(page, O),
         \A i \in 1..Len(seq), k \in 1..Len(page) : <<seq[i], page[k]>> \in O
  PROVE  Retains(C, seq, page, usable, bound, O, Retain(seq, page, usable, bound))
<1>. DEFINE p == Picked(page, usable)
            n == Least(Len(p), Most(0, bound - Len(seq)))
            r == Retain(seq, page, usable, bound)
<1>1. /\ p \in Seq(C) /\ Chain(p, O)
      /\ \A i \in 1..Len(p) : \E k \in 1..Len(page) : p[i] = page[k] /\ (page[k] \in Applies <=> usable)
      /\ \A k \in 1..Len(page) : (page[k] \in Applies <=> usable) => \E i \in 1..Len(p) : p[i] = page[k]
  BY PickedIs
<1>2. r = seq \o SubSeq(p, 1, n)
  BY DEF Retain
<1>. HIDE DEF p, r
<1>3. n \in Nat /\ n <= Len(p) /\ n <= bound - Len(seq) /\ (n = Len(p) \/ n = bound - Len(seq))
  BY <1>1 DEF Least, Most
<1>. HIDE DEF n
<1>4. SubSeq(p, 1, n) \in Seq(C) /\ Len(SubSeq(p, 1, n)) = n /\ \A i \in 1..n : SubSeq(p, 1, n)[i] = p[i]
  BY <1>1, <1>3
<1>5. /\ r \in Seq(C) /\ Len(r) = Len(seq) + n
      /\ \A i \in 1..Len(seq) : r[i] = seq[i]
      /\ \A i \in 1..n : r[Len(seq) + i] = p[i]
      /\ \A i \in 1..Len(r) : i \notin 1..Len(seq) => i - Len(seq) \in 1..n /\ r[i] = p[i - Len(seq)]
  BY <1>2, <1>4
<1>6. Len(seq) \in Nat /\ Len(p) \in Nat /\ \A i \in 1..n : i \in 1..Len(p) /\ i \in Int
  BY <1>1, <1>3
<1>7. \A i \in 1..Len(r) : i \notin 1..Len(seq) => \E k \in 1..Len(page) : r[i] = page[k] /\ (page[k] \in Applies <=> usable)
  <2>. SUFFICES ASSUME NEW i \in 1..Len(r), i \notin 1..Len(seq)
                PROVE  \E k \in 1..Len(page) : r[i] = page[k] /\ (page[k] \in Applies <=> usable)
    OBVIOUS
  <2>1. i - Len(seq) \in 1..Len(p) /\ r[i] = p[i - Len(seq)]
    BY <1>5, <1>6
  <2>2. PICK k \in 1..Len(page) : p[i - Len(seq)] = page[k] /\ (page[k] \in Applies <=> usable)
    BY <1>1, <2>1
  <2>. QED
    BY <2>1, <2>2
<1>8. Chain(r, O)
  <2>. SUFFICES ASSUME NEW i \in 1..Len(r), NEW j \in 1..Len(r), i < j
                PROVE  <<r[i], r[j]>> \in O
    BY DEF Chain
  <2>1. CASE j \in 1..Len(seq)
    <3>1. i \in 1..Len(seq)
      BY <1>6, <2>1
    <3>. QED
      BY <1>5, <2>1, <3>1 DEF Chain
  <2>2. CASE i \in 1..Len(seq) /\ j \notin 1..Len(seq)
    <3>1. PICK k \in 1..Len(page) : r[j] = page[k]
      BY <1>7, <2>2
    <3>. QED
      BY <1>5, <2>2, <3>1
  <2>3. CASE i \notin 1..Len(seq)
    <3>1. j \notin 1..Len(seq) /\ i - Len(seq) < j - Len(seq)
      BY <2>3
    <3>2. i - Len(seq) \in 1..Len(p) /\ j - Len(seq) \in 1..Len(p) /\ r[i] = p[i - Len(seq)] /\ r[j] = p[j - Len(seq)]
      BY <1>3, <1>5, <2>3, <3>1, SMTT(30)
    <3>. QED
      BY <1>1, <3>1, <3>2 DEF Chain
  <2>. QED
    BY <2>1, <2>2, <2>3
<1>9. \A i \in 1..Len(r) : \/ \E k \in 1..Len(seq) : r[i] = seq[k]
                           \/ \E k \in 1..Len(page) : r[i] = page[k] /\ (page[k] \in Applies <=> usable)
  BY <1>5, <1>7
<1>10. ASSUME NEW k \in 1..Len(page), page[k] \in Applies <=> usable
      PROVE  \/ \E i \in 1..Len(r) : r[i] = page[k]
             \/ Len(r) = bound /\ \A i \in 1..Len(r) : <<r[i], page[k]>> \in O
  <2>1. PICK m \in 1..Len(p) : p[m] = page[k]
    BY <1>1, <1>10
  <2>2. CASE m <= n
    <3>1. Len(seq) + m \in 1..Len(r) /\ r[Len(seq) + m] = page[k]
      BY <1>3, <1>5, <2>1, <2>2
    <3>. QED
      BY <3>1
  <2>3. CASE n < m
    <3>1. Len(r) = bound
      BY <1>1, <1>3, <1>5, <2>3
    <3>2. ASSUME NEW i \in 1..Len(r) PROVE <<r[i], page[k]>> \in O
      <4>1. CASE i \in 1..Len(seq)
        BY <1>5, <4>1
      <4>2. CASE i \notin 1..Len(seq)
        <5>1. i - Len(seq) \in 1..n /\ r[i] = p[i - Len(seq)]
          BY <1>5, <4>2
        <5>2. i - Len(seq) \in 1..Len(p) /\ i - Len(seq) < m
          BY <1>3, <1>6, <2>3, <5>1
        <5>. QED
          BY <1>1, <2>1, <5>1, <5>2 DEF Chain
      <4>. QED
        BY <4>1, <4>2
    <3>. QED
      BY <3>1, <3>2
  <2>. QED
    BY <1>1, <1>3, <2>2, <2>3, SMTT(30)
<1>11. \A k \in 1..Len(seq) : \E i \in 1..Len(r) : r[i] = seq[k]
  BY <1>3, <1>5
<1>12. Len(seq) = bound => r = seq
  <2>. SUFFICES ASSUME Len(seq) = bound PROVE r = seq
    OBVIOUS
  <2>1. n = 0
    BY <1>3
  <2>. QED
    BY <1>5, <2>1
<1>13. Len(r) <= bound
  BY <1>3, <1>5
<1>. QED
  BY <1>5, <1>8, <1>9, <1>10, <1>11, <1>12, <1>13 DEF r, Retains

\* Numbers that increase and leave none out are those up to the last.
LEMMA NumbersInOrder ==
  ASSUME NEW K \in Nat
  PROVE  Ranked(Less, 1..K) = [n \in 1..K |-> n]
<1>. DEFINE S == 1..K
            r == [n \in 1..K |-> n]
<1>1. r \in Seq(S) /\ Len(r) = K /\ \A n \in 1..K : r[n] = n
  OBVIOUS
<1>2. IsFiniteSet(S) /\ Cardinality(S) = K
  <2>1. 1 \in Int /\ K \in Int
    OBVIOUS
  <2>2. IsFiniteSet(1..K) /\ Cardinality(1..K) = IF 1 > K THEN 0 ELSE K - 1 + 1
    BY <2>1, FS_Interval
  <2>. QED
    BY <2>1, <2>2
<1>3. IsOrder(Less, S)
  BY LessIsOrder
<1>. HIDE DEF r
<1>4. Chain(r, Less)
  BY <1>1 DEF Chain, Less
<1>5. \A x \in S : \E n \in 1..Len(r) : r[n] = x
  BY <1>1
<1>. HIDE DEF S
<1>6. \A n \in 1..Len(r) : Ranked(Less, S)[n] = r[n]
  BY <1>1, <1>2, <1>3, <1>4, <1>5, FirstRanks
<1>7. Ranked(Less, S) = [n \in 1..K |-> Ranked(Less, S)[n]]
  BY <1>2 DEF Ranked
<1>. QED
  BY <1>1, <1>6, <1>7 DEF S, r

\* Two rows that differ, the second not more similar than the first
Descending == {p \in Candidates \X Candidates : p[1] # p[2] /\ Score[p[2]] <= Score[p[1]]}

\* _BoundedMatchResults.finish: what was retained in order stays in order.
LEMMA FinishIs ==
  ASSUME NEW safe \in Seq(Candidates), NEW fallback \in Seq(Candidates),
         \A i \in 1..Len(safe) : safe[i] \in Applies,
         \A i \in 1..Len(fallback) : fallback[i] \notin Applies,
         Chain(safe, Descending), Chain(fallback, Descending)
  PROVE  Finish(safe, fallback)
           = SubSeq(safe \o fallback, 1, Least(MatchLimit, Len(safe \o fallback)))
<1>. DEFINE all == safe \o fallback
            Better(a, b) == \/ a \in Applies /\ b \notin Applies
                            \/ (a \in Applies <=> b \in Applies) /\ Score[a] > Score[b]
            Before(i, j) == Better(all[i], all[j]) \/ (~Better(all[j], all[i]) /\ i < j)
            S == DOMAIN all
            id == [n \in 1..Len(all) |-> n]
<1>1. /\ all \in Seq(Candidates) /\ Len(all) = Len(safe) + Len(fallback)
      /\ Len(safe) \in Nat /\ Len(fallback) \in Nat /\ S = 1..Len(all)
      /\ \A i \in 1..Len(safe) : all[i] = safe[i]
      /\ \A i \in 1..Len(all) : i \notin 1..Len(safe) => i - Len(safe) \in 1..Len(fallback) /\ all[i] = fallback[i - Len(safe)]
  OBVIOUS
<1>. HIDE DEF all
<1>2. \A i \in S : all[i] \in Candidates /\ Score[all[i]] \in Int /\ i \in Int
  <2>1. \A i \in S : all[i] \in Candidates /\ i \in Int
    BY <1>1
  <2>. QED
    BY <2>1, InputsAssumption
<1>3. ASSUME NEW i \in S, NEW j \in S, i < j
      PROVE  ~Better(all[j], all[i])
  <2>1. CASE j \in 1..Len(safe)
    <3>1. i \in 1..Len(safe) /\ all[i] = safe[i] /\ all[j] = safe[j]
      BY <1>1, <1>3, <2>1
    <3>2. safe[i] \in Applies /\ safe[j] \in Applies /\ <<safe[i], safe[j]>> \in Descending
      BY <1>3, <2>1, <3>1 DEF Chain
    <3>3. Score[all[j]] <= Score[all[i]]
      BY <3>1, <3>2 DEF Descending
    <3>. QED
      BY <1>2, <3>1, <3>2, <3>3
  <2>2. CASE j \notin 1..Len(safe) /\ i \in 1..Len(safe)
    <3>1. all[i] \in Applies /\ all[j] \notin Applies
      BY <1>1, <2>2
    <3>. QED
      BY <3>1
  <2>3. CASE i \notin 1..Len(safe)
    <3>1. j \notin 1..Len(safe)
      BY <1>1, <1>3, <2>3
    <3>2. /\ i - Len(safe) \in 1..Len(fallback) /\ all[i] = fallback[i - Len(safe)]
          /\ j - Len(safe) \in 1..Len(fallback) /\ all[j] = fallback[j - Len(safe)]
          /\ i - Len(safe) < j - Len(safe)
      BY <1>1, <1>3, <2>3, <3>1
    <3>3. all[i] \notin Applies /\ all[j] \notin Applies /\ <<all[i], all[j]>> \in Descending
      BY <3>2 DEF Chain
    <3>4. Score[all[j]] <= Score[all[i]]
      BY <3>3 DEF Descending
    <3>. QED
      BY <1>2, <3>3, <3>4
  <2>. QED
    BY <2>1, <2>2, <2>3
<1>4. \A i, j \in S : Before(i, j) <=> i < j
  <2>. TAKE i \in S, j \in S
  <2>1. ~Better(all[i], all[i])
    BY <1>2
  <2>2. i < j \/ i = j \/ j < i
    BY <1>2
  <2>3. ~(i < j /\ j < i) /\ ~(i < i)
    BY <1>2
  <2>. QED
    BY <1>3, <2>1, <2>2, <2>3
<1>5. \A x \in S : {y \in S : Before(y, x)} = Preds(Less, S, x)
  <2>. HIDE DEF Before
  <2>. QED
    BY <1>2, <1>4 DEF Preds, Less
<1>. DEFINE L(n) == CHOOSE x \in S : Cardinality({y \in S : Before(y, x)}) = n - 1
            M(n) == CHOOSE x \in S : Cardinality(Preds(Less, S, x)) = n - 1
            order == Sorted(S, Before)
<1>6. \A n : L(n) = M(n)
  <2>. HIDE DEF S, Before
  <2>. QED
    BY <1>5, Zenon
<1>7. order = Ranked(Less, S)
  <2>1. /\ order = [n \in 1..Cardinality(S) |-> L(n)]
        /\ Ranked(Less, S) = [n \in 1..Cardinality(S) |-> M(n)]
    <3>. HIDE DEF S, Before
    <3>. QED
      BY Zenon DEF Sorted, Ranked
  <2>2. Cardinality(S) = Cardinality(S)
    OBVIOUS
  <2>. HIDE DEF L, M, S, Before, order
  <2>. QED
    BY <1>6, <2>1, <2>2
<1>9. order = id
  <2>. HIDE DEF order
  <2>. QED
    BY <1>1, <1>7, NumbersInOrder
<1>10. Finish(safe, fallback)
         = LET sorted == [n \in DOMAIN order |-> all[order[n]]]
           IN SubSeq(sorted, 1, Least(MatchLimit, Len(sorted)))
  BY Zenon DEF Finish, all
<1>11. [n \in DOMAIN order |-> all[order[n]]] = all
  <2>1. DOMAIN order = 1..Len(all) /\ \A n \in 1..Len(all) : order[n] = n
    BY <1>9
  <2>. HIDE DEF order
  <2>. QED
    BY <1>1, <2>1
<1>. QED
  <2>. HIDE DEF order
  <2>. QED
    BY <1>10, <1>11, Zenon DEF all

-----------------------------------------------------------------------------
(***************************************************************************)
(* What a call has passed and what it has kept of that.                    *)
(***************************************************************************)
\* The scans and the cursor have passed the row.
Passed(m, recs, id) ==
  \/ Phase(m.require_context, id) < Number(m.scan)
  \/ /\ Phase(m.require_context, id) = Number(m.scan)
     /\ m.after # <<>> /\ ~Below(Rank(recs, id), m.after)

PassedIn(m, recs) == {id \in DOMAIN recs : Passed(m, recs, id)}

Members(r) == {r[i] : i \in 1..Len(r)}

\* What is retained of the rows in 'seen', of one class
Kept(context, recs, moved, commits, seen, r, usable, bound) ==
  /\ r \in Seq(seen) /\ Len(r) <= bound
  /\ \A i \in 1..Len(r) : r[i] \in Applies <=> usable
  /\ Chain(r, Descending)
  /\ \A id \in seen \ moved : (id \in Applies <=> usable) => id \in Members(r) \/ Len(r) = bound
  /\ commits = 0 =>
       /\ Chain(r, InOrder(context, recs))
       /\ \A id \in seen : (id \in Applies <=> usable) =>
            id \in Members(r) \/ \A i \in 1..Len(r) : <<r[i], id>> \in InOrder(context, recs)

AreRows(recs) == DOMAIN recs \subseteq Candidates /\ \A id \in DOMAIN recs : recs[id] \in Row

\* Rows in the order of the scans have scores that do not increase.
LEMMA InOrderDescends ==
  ASSUME NEW recs, AreRows(recs), NEW context \in BOOLEAN
  PROVE  InOrder(context, recs) \subseteq Descending
<1>. SUFFICES ASSUME NEW x \in DOMAIN recs, NEW y \in DOMAIN recs, <<x, y>> \in InOrder(context, recs)
              PROVE  <<x, y>> \in Descending
  BY DEF InOrder
<1>1. x \in Candidates /\ y \in Candidates /\ Score[x] \in Int /\ Score[y] \in Int
  BY InputsAssumption DEF AreRows
<1>2. x # y
  BY ScansAreOrdered DEF IsOrder, AreRows
<1>3. CASE Phase(context, x) < Phase(context, y)
  <2>1. CASE x \in Equal
    BY <1>1, <1>2, <2>1, InputsAssumption DEF Descending
  <2>2. CASE x \notin Equal
    <3>1. y \notin Equal /\ Score[x] >= Threshold /\ ~(Score[y] >= Threshold)
      BY <1>3, <2>2 DEF Phase
    <3>. QED
      BY <1>1, <1>2, <3>1, InputsAssumption DEF Descending
  <2>. QED
    BY <2>1, <2>2
<1>4. CASE Below(Rank(recs, y), Rank(recs, x))
  <2>1. Rank(recs, y)[1] <= Rank(recs, x)[1]
    BY <1>1, <1>4, BelowIs, RankIs DEF AreRows
  <2>. QED
    BY <1>1, <1>2, <2>1, RankIs DEF AreRows, Descending
<1>. QED
  BY <1>3, <1>4 DEF InOrder

\* A page adds to what is retained.
LEMMA KeptGrows ==
  ASSUME NEW recs, AreRows(recs), NEW context \in BOOLEAN, NEW moved, NEW commits,
         NEW seen, seen \subseteq DOMAIN recs, NEW page \in Seq(DOMAIN recs),
         NEW r, NEW usable \in BOOLEAN, NEW bound \in Nat,
         Kept(context, recs, moved, commits, seen, r, usable, bound),
         Chain(page, InOrder(context, recs)), commits = 0 => moved = {},
         \A id \in seen, k \in 1..Len(page) : <<id, page[k]>> \in InOrder(context, recs)
  PROVE  Kept(context, recs, moved, commits, seen \cup Members(page),
              Retain(r, page, usable, bound), usable, bound)
<1>. DEFINE O == InOrder(context, recs)
            new == Retain(r, page, usable, bound)
            C == seen \cup Members(page)
<1>1. O \subseteq Descending
  BY InOrderDescends
<1>2. r \in Seq(C) /\ page \in Seq(C) /\ Len(r) <= bound
  BY DEF Kept, Members
<1>3. \A i \in 1..Len(r), k \in 1..Len(page) : <<r[i], page[k]>> \in O
  BY DEF Kept
<1>4. Chain(r, Descending) /\ Chain(page, Descending)
  BY <1>1 DEF Kept, Chain
<1>. HIDE DEF O, new, C
<1>5. \A i \in 1..Len(r), k \in 1..Len(page) : <<r[i], page[k]>> \in Descending
  BY <1>1, <1>3
<1>6. Retains(C, r, page, usable, bound, Descending, new)
  BY <1>2, <1>4, <1>5, RetainIs DEF new
<1>7. \A i \in 1..Len(new) : new[i] \in Applies <=> usable
  BY <1>6 DEF Kept, Retains
<1>8. ASSUME NEW id \in C \ moved, id \in Applies <=> usable
      PROVE  id \in Members(new) \/ Len(new) = bound
  <2>1. CASE id \in seen
    BY <1>6, <1>8, <2>1 DEF Kept, Members, Retains
  <2>2. CASE id \in Members(page)
    BY <1>6, <1>8, <2>2 DEF Members, Retains
  <2>. QED
    BY <2>1, <2>2 DEF C
<1>9. ASSUME commits = 0
      PROVE  /\ Chain(new, O)
             /\ \A id \in C : (id \in Applies <=> usable) =>
                  id \in Members(new) \/ \A i \in 1..Len(new) : <<new[i], id>> \in O
  <2>1. Chain(r, O) /\ Chain(page, O)
    BY <1>9 DEF Kept, O
  <2>2. Retains(C, r, page, usable, bound, O, new)
    BY <1>2, <1>3, <2>1, RetainIs DEF new
  <2>3. ASSUME NEW id \in C, id \in Applies <=> usable, id \notin Members(new)
        PROVE  \A i \in 1..Len(new) : <<new[i], id>> \in O
    <3>1. CASE id \in Members(page)
      BY <2>2, <2>3, <3>1 DEF Members, Retains
    <3>2. CASE id \in seen
      <4>1. id \notin Members(r)
        BY <1>6, <2>3 DEF Members, Retains
      <4>2. \A i \in 1..Len(r) : <<r[i], id>> \in O
        BY <1>9, <2>3, <3>2, <4>1 DEF Kept, O
      <4>3. Len(r) = bound
        BY <2>3, <3>2, <4>1, <1>9 DEF Kept
      <4>. QED
        BY <1>6, <4>2, <4>3 DEF Retains
    <3>. QED
      BY <2>3, <3>1, <3>2 DEF C
  <2>. QED
    BY <2>2, <2>3 DEF Retains
<1>. QED
  BY <1>6, <1>7, <1>8, <1>9 DEF Kept, Retains, C, O, new

\* The limits of a call are numbers, and a page holds a row at least.
LEMMA SizesAreNumbers ==
  /\ CandidateLimit \in Nat /\ MatchLimit <= CandidateLimit
         /\ PageSize \in Nat /\ 1 <= PageSize /\ MatchLimit \in Nat /\ 1 <= MatchLimit
<1>1. Most(MatchLimit * 3, FallbackFloor) \in Nat
  BY InputsAssumption DEF Most
<1>2. Least(Most(MatchLimit * 3, FallbackFloor), FallbackCeiling) \in Nat
  <2>. DEFINE a == Most(MatchLimit * 3, FallbackFloor)
  <2>. HIDE DEF a
  <2>. QED
    BY <1>1, InputsAssumption DEF Least, a
<1>. DEFINE b == Least(Most(MatchLimit * 3, FallbackFloor), FallbackCeiling)
<1>. HIDE DEF b
<1>3. CandidateLimit = MatchLimit + b
  BY DEF CandidateLimit, b
<1>4. b \in Nat
  BY <1>2 DEF b
<1>. QED
  BY <1>3, <1>4, InputsAssumption DEF PageSize, Least

\* The rows that the query of a page finds
Found(m, recs) ==
  {id \in DOMAIN recs : /\ Phase(m.require_context, id) = Number(m.scan)
                        /\ m.after # <<>> => Below(Rank(recs, id), m.after)}

\* A page: the first of the rows found
Taken(m, recs, page) ==
  /\ page \in Seq(Found(m, recs)) /\ Len(page) <= PageSize
  /\ Chain(page, InOrder(m.require_context, recs))
  /\ \A id \in Found(m, recs) :
       \/ id \in Members(page)
       \/ Len(page) = PageSize
          /\ \A k \in 1..Len(page) : <<page[k], id>> \in InOrder(m.require_context, recs)

Scans == {"ice", "exact", "fuzzy"}
Cursors == {<<>>} \cup (Int \X Nat \X Int \X Int)

Scanning(m) ==
  /\ m.scan \in Scans /\ m.require_context \in BOOLEAN /\ m.after \in Cursors
  /\ m.scan = "ice" => m.require_context

\* The query of the scan gives the next rows of the order.
LEMMA PageIsTaken ==
  ASSUME AreRows(store), Scanning(match)
  PROVE  Taken(match, store, Page(match.scan))
<1>. DEFINE F == Found(match, store)
            R == InOrder(match.require_context, store)
            full == Ranked(R, F)
            n == Least(PageSize, Len(full))
            page == Page(match.scan)
<1>1. F = {id \in DOMAIN store : InScan(match.scan, id) /\ AfterCursor(id)}
  <2>1. \A id : Phase(match.require_context, id) = Number(match.scan) <=> InScan(match.scan, id)
    <3>. TAKE id
    <3>1. CASE match.scan = "ice"
      BY <3>1 DEF Scanning, Phase, Number, InScan
    <3>2. CASE match.scan = "exact"
      BY <3>2 DEF Scanning, Phase, Number, InScan
    <3>3. CASE match.scan = "fuzzy"
      BY <3>3 DEF Phase, Number, InScan
    <3>. QED
      BY <3>1, <3>2, <3>3 DEF Scanning, Scans
  <2>. QED
    BY <2>1 DEF Found, AfterCursor
<1>2. page = SubSeq(full, 1, n)
  BY <1>1, PageIs DEF Scanning, Scans, AreRows
<1>3. IsFiniteSet(F) /\ F \subseteq DOMAIN store
  <2>1. F \subseteq Candidates /\ F \subseteq DOMAIN store
    BY DEF Found, AreRows
  <2>. QED
    BY <2>1, FS_Subset, InputsAssumption
<1>4. IsOrder(R, F)
  <2>1. IsOrder(R, DOMAIN store)
    BY ScansAreOrdered DEF Scanning, AreRows
  <2>. QED
    BY <1>3, <2>1 DEF IsOrder
<1>. HIDE DEF F, R
<1>5. full \in Seq(F) /\ Chain(full, R) /\ \A x \in F : \E k \in 1..Len(full) : full[k] = x
  BY <1>3, <1>4, RankedIs
<1>. HIDE DEF full, page
<1>6. n \in Nat /\ Len(full) \in Nat /\ n <= Len(full) /\ n <= PageSize /\ (n = Len(full) \/ n = PageSize)
  BY <1>5, SizesAreNumbers DEF Least
<1>. HIDE DEF n
<1>7. page \in Seq(F) /\ Len(page) = n /\ \A k \in 1..n : page[k] = full[k]
  BY <1>2, <1>5, <1>6
<1>8. Chain(page, R)
  <2>. SUFFICES ASSUME NEW i \in 1..n, NEW j \in 1..n, i < j
                PROVE  <<page[i], page[j]>> \in R
    BY <1>7 DEF Chain
  <2>1. i \in 1..Len(full) /\ j \in 1..Len(full)
    BY <1>6
  <2>. QED
    BY <1>5, <1>7, <2>1 DEF Chain
<1>9. ASSUME NEW id \in F, id \notin Members(page)
      PROVE  n = PageSize /\ \A k \in 1..n : <<page[k], id>> \in R
  <2>1. PICK j \in 1..Len(full) : full[j] = id
    BY <1>5
  <2>2. n < j
    BY <1>6, <1>7, <1>9, <2>1 DEF Members
  <2>3. ASSUME NEW k \in 1..n PROVE <<page[k], id>> \in R
    <3>1. k \in 1..Len(full) /\ k < j
      BY <1>6, <2>2
    <3>. QED
      BY <1>5, <1>7, <2>1, <3>1 DEF Chain
  <2>. QED
    BY <1>6, <2>2, <2>3
<1>. QED
  BY <1>6, <1>7, <1>8, <1>9 DEF Taken, F, R, page

\* What a scan finds is of its phase.
LEMMA PhaseIs ==
  ASSUME NEW context, NEW id
  PROVE  Phase(context, id) \in 1..4 /\ (Matching(id) <=> Phase(context, id) # 4)
BY DEF Phase, Matching

\* What was passed comes before what is left.
LEMMA PassedFirst ==
  ASSUME NEW recs, AreRows(recs), NEW m, Scanning(m),
         NEW x \in PassedIn(m, recs), NEW y \in DOMAIN recs, y \notin PassedIn(m, recs)
  PROVE  <<x, y>> \in InOrder(m.require_context, recs)
<1>. DEFINE K(id) == Rank(recs, id)
            c == m.require_context
<1>1. /\ x \in DOMAIN recs /\ Phase(c, x) \in Int /\ Phase(c, y) \in Int /\ Number(m.scan) \in Int
      /\ Phase(c, x) <= Number(m.scan) /\ Number(m.scan) <= Phase(c, y)
  BY PhaseIs DEF PassedIn, Passed, Scanning, Scans, Number
<1>2. CASE Phase(c, x) < Phase(c, y)
  BY <1>1, <1>2 DEF InOrder
<1>3. CASE Phase(c, x) = Phase(c, y)
  <2>1. Phase(c, x) = Number(m.scan)
    BY <1>1, <1>3
  <2>2. m.after # <<>> /\ ~Below(K(x), m.after) /\ Below(K(y), m.after)
    BY <1>1, <1>3, <2>1 DEF PassedIn, Passed
  <2>3. m.after[1] \in Int /\ m.after[2] \in Int /\ m.after[3] \in Int /\ m.after[4] \in Int
    BY <2>2 DEF Scanning, Cursors
  <2>4. /\ K(x)[1] \in Int /\ K(x)[2] \in Int /\ K(x)[3] \in Int /\ K(x)[4] \in Int
        /\ K(y)[1] \in Int /\ K(y)[2] \in Int /\ K(y)[3] \in Int /\ K(y)[4] \in Int
    BY <1>1, RankIs DEF AreRows
  <2>. HIDE DEF K
  <2>5. Below(K(y), K(x))
    BY <2>2, <2>3, <2>4, BelowBetween
  <2>. QED
    BY <1>1, <1>3, <2>5 DEF InOrder, K
<1>. QED
  BY <1>1, <1>2, <1>3

\* The first 'K' members of a set in order
LEMMA FirstOf ==
  ASSUME NEW S, NEW R, IsFiniteSet(S), IsOrder(R, S), NEW K \in Nat,
         NEW r \in Seq(S), Chain(r, R), Len(r) <= K,
         \A x \in S : x \in Members(r) \/ (Len(r) = K /\ \A n \in 1..Len(r) : <<r[n], x>> \in R)
  PROVE  LET full == Ranked(R, S) IN SubSeq(full, 1, Least(K, Len(full))) = r
<1>. DEFINE full == Ranked(R, S)
<1>1. full \in Seq(S) /\ Len(full) = Cardinality(S) /\ Chain(full, R)
  BY RankedIs
<1>2. \A x \in S : (\E n \in 1..Len(r) : r[n] = x) \/ (\A n \in 1..Len(r) : <<r[n], x>> \in R)
  BY DEF Members
<1>3. Len(r) <= Cardinality(S) /\ \A n \in 1..Len(r) : full[n] = r[n]
  BY <1>2, FirstRanks
<1>. HIDE DEF full
<1>4. Len(r) \in Nat /\ Len(full) \in Nat
  BY <1>1
<1>5. CASE Len(r) < K /\ Len(r) < Len(full)
  <2>1. Len(r) + 1 \in 1..Len(full) /\ full[Len(r) + 1] \in S
    BY <1>1, <1>4, <1>5
  <2>2. PICK n \in 1..Len(r) : r[n] = full[Len(r) + 1]
    BY <1>4, <1>5, <2>1, SMTT(30) DEF Members
  <2>3. n \in 1..Len(full) /\ n < Len(r) + 1
    BY <1>4, <1>5
  <2>4. <<full[n], full[Len(r) + 1]>> \in R
    BY <1>1, <2>1, <2>3 DEF Chain
  <2>. QED
    BY <1>3, <2>1, <2>2, <2>4 DEF IsOrder
<1>6. CASE Len(r) = K \/ Len(r) = Len(full)
  <2>1. Least(K, Len(full)) = Len(r)
    BY <1>1, <1>3, <1>4, <1>6 DEF Least
  <2>2. /\ SubSeq(full, 1, Len(r)) \in Seq(S) /\ Len(SubSeq(full, 1, Len(r))) = Len(r)
        /\ \A n \in 1..Len(r) : SubSeq(full, 1, Len(r))[n] = r[n]
    BY <1>1, <1>3, <1>4
  <2>3. SubSeq(full, 1, Len(r)) = r
    BY <2>2
  <2>. QED
    BY <2>1, <2>3 DEF full
<1>. QED
  BY <1>1, <1>3, <1>4, <1>5, <1>6

-----------------------------------------------------------------------------
(***************************************************************************)
(* The result.                                                             *)
(***************************************************************************)
\* A result is what is usable, and then what is not, up to the limit.
Shape(seen, safe, fallback, result) ==
  /\ result \in Seq(seen) /\ result \in Seq(Candidates)
  /\ Len(safe) \in Nat /\ Len(fallback) \in Nat /\ Len(result) \in Nat
  /\ Len(safe) <= Len(result) /\ Len(result) <= MatchLimit
  /\ Len(result) = MatchLimit \/ Len(result) = Len(safe) + Len(fallback)
  /\ \A i \in 1..Len(safe) : result[i] = safe[i] /\ safe[i] \in Applies /\ safe[i] \in seen
  /\ \A i \in 1..Len(result) : i \notin 1..Len(safe) =>
       i - Len(safe) \in 1..Len(fallback) /\ result[i] = fallback[i - Len(safe)]
  /\ \A k \in 1..Len(fallback) :
       /\ fallback[k] \notin Applies /\ fallback[k] \in seen
       /\ Len(safe) + k <= Len(result) => Len(safe) + k \in 1..Len(result) /\ result[Len(safe) + k] = fallback[k]

\* A result is what was usable and what fills the rest, in their order.
LEMMA ResultShape ==
  ASSUME NEW recs, AreRows(recs), NEW context, NEW moved, NEW commits,
         NEW seen, seen \subseteq DOMAIN recs, NEW safe, NEW fallback,
         Kept(context, recs, moved, commits, seen, safe, TRUE, MatchLimit),
         Kept(context, recs, moved, commits, seen, fallback, FALSE, CandidateLimit)
  PROVE  Shape(seen, safe, fallback, Finish(safe, fallback))
<1>. DEFINE all == safe \o fallback
            n == Least(MatchLimit, Len(all))
            result == Finish(safe, fallback)
<1>1. /\ safe \in Seq(seen) /\ safe \in Seq(Candidates) /\ fallback \in Seq(seen) /\ fallback \in Seq(Candidates)
      /\ Len(safe) <= MatchLimit /\ Len(safe) \in Nat /\ Len(fallback) \in Nat
      /\ \A i \in 1..Len(safe) : safe[i] \in Applies /\ safe[i] \in seen
      /\ \A i \in 1..Len(fallback) : fallback[i] \notin Applies /\ fallback[i] \in seen
      /\ Chain(safe, Descending) /\ Chain(fallback, Descending)
  <2>1. safe \in Seq(seen) /\ fallback \in Seq(seen) /\ seen \subseteq Candidates
    BY DEF Kept, AreRows
  <2>2. \A i \in 1..Len(safe) : safe[i] \in seen
    BY <2>1
  <2>3. \A i \in 1..Len(fallback) : fallback[i] \in seen
    BY <2>1
  <2>4. safe \in Seq(Candidates) /\ fallback \in Seq(Candidates)
    BY <2>1
  <2>5. Len(safe) \in Nat /\ Len(fallback) \in Nat
    BY <2>1
  <2>. QED
    BY <2>1, <2>2, <2>3, <2>4, <2>5 DEF Kept
<1>2. result = SubSeq(all, 1, n)
  BY <1>1, FinishIs
<1>3. /\ all \in Seq(seen) /\ Len(all) = Len(safe) + Len(fallback)
      /\ \A i \in 1..Len(safe) : all[i] = safe[i]
      /\ \A i \in 1..Len(all) : i \notin 1..Len(safe) => i - Len(safe) \in 1..Len(fallback) /\ all[i] = fallback[i - Len(safe)]
      /\ \A k \in 1..Len(fallback) : all[Len(safe) + k] = fallback[k]
  BY <1>1
<1>. HIDE DEF all, result
<1>4. /\ n \in Nat /\ n <= Len(all) /\ n <= MatchLimit /\ (n = MatchLimit \/ n = Len(all)) /\ Len(safe) <= n
      /\ Len(all) \in Nat
  BY <1>1, <1>3, InputsAssumption DEF Least
<1>. HIDE DEF n
<1>5. result \in Seq(seen) /\ Len(result) = n /\ \A i \in 1..n : result[i] = all[i]
  BY <1>2, <1>3, <1>4
<1>6. \A i \in 1..n : i \in 1..Len(all)
  BY <1>4
<1>7. \A i \in 1..Len(safe) : i \in 1..n
  BY <1>1, <1>4
<1>8. result \in Seq(Candidates)
  BY <1>5 DEF AreRows
<1>9. \A i \in 1..Len(safe) : result[i] = safe[i]
  BY <1>3, <1>5, <1>7
<1>10. \A i \in 1..n : i \notin 1..Len(safe) =>
              i - Len(safe) \in 1..Len(fallback) /\ result[i] = fallback[i - Len(safe)]
  BY <1>3, <1>5, <1>6
<1>11. \A k \in 1..Len(fallback) :
              Len(safe) + k <= n => Len(safe) + k \in 1..n /\ result[Len(safe) + k] = fallback[k]
  BY <1>1, <1>3, <1>4, <1>5
<1>. QED
  BY <1>1, <1>3, <1>4, <1>5, <1>8, <1>9, <1>10, <1>11 DEF result, Shape

\* Enough usable rows, or every row was seen
Covered(recs, seen, safe) ==
  Len(safe) = MatchLimit \/ \A id \in DOMAIN recs : Matching(id) => id \in seen

\* No row is there twice, and none that was left alone is skipped.
NoneSkipped(recs, moved, result) ==
  /\ \A i, j \in 1..Len(result) : result[i] = result[j] => i = j
  /\ \A id \in DOMAIN recs \ moved : Matching(id) /\ id \notin Members(result) =>
       Len(result) = MatchLimit /\ (id \in Applies => \A i \in 1..Len(result) : result[i] \in Applies)

\* What both lists keep makes a result that skips no row but those that commits moved.
LEMMA ResultIsSound ==
  ASSUME NEW recs, AreRows(recs), NEW context, NEW moved, NEW commits,
         NEW seen, seen \subseteq DOMAIN recs, NEW safe, NEW fallback,
         Kept(context, recs, moved, commits, seen, safe, TRUE, MatchLimit),
         Kept(context, recs, moved, commits, seen, fallback, FALSE, CandidateLimit),
         Covered(recs, seen, safe)
  PROVE  NoneSkipped(recs, moved, Finish(safe, fallback))
<1>. DEFINE result == Finish(safe, fallback)
            a == Len(safe)
            b == Len(fallback)
            n == Len(result)
<1>1. /\ a \in Nat /\ b \in Nat /\ n \in Nat /\ a <= n /\ n <= MatchLimit
      /\ n = MatchLimit \/ n = a + b
      /\ \A i \in 1..a : result[i] = safe[i] /\ safe[i] \in Applies /\ safe[i] \in seen
      /\ \A i \in 1..n : i \notin 1..a => i - a \in 1..b /\ result[i] = fallback[i - a]
      /\ \A k \in 1..b : fallback[k] \notin Applies /\ (a + k <= n => a + k \in 1..n /\ result[a + k] = fallback[k])
  <2>1. Shape(seen, safe, fallback, result)
    BY ResultShape
  <2>. HIDE DEF result
  <2>. QED
    BY <2>1 DEF Shape
<1>. HIDE DEF result, a, b, n
<1>2. \A x \in Candidates : <<x, x>> \notin Descending
  BY DEF Descending
<1>3. /\ \A i, j \in 1..a : i < j => safe[i] # safe[j]
      /\ \A i, j \in 1..b : i < j => fallback[i] # fallback[j]
  BY DEF Kept, Chain, Descending, a, b
<1>4. ASSUME NEW i \in 1..n, NEW j \in 1..n, i < j
      PROVE  result[i] # result[j]
  <2>1. CASE j \in 1..a
    <3>1. i \in 1..a
      BY <1>1, <1>4, <2>1
    <3>. QED
      BY <1>1, <1>3, <1>4, <2>1, <3>1
  <2>2. CASE i \in 1..a /\ j \notin 1..a
    BY <1>1, <2>2
  <2>3. CASE i \notin 1..a
    <3>1. j \notin 1..a /\ i - a < j - a
      BY <1>1, <1>4, <2>3
    <3>2. i - a \in 1..b /\ j - a \in 1..b /\ result[i] = fallback[i - a] /\ result[j] = fallback[j - a]
      BY <1>1, <2>3, <3>1
    <3>. QED
      BY <1>3, <3>1, <3>2
  <2>. QED
    BY <2>1, <2>2, <2>3
<1>5. \A i, j \in 1..n : result[i] = result[j] => i = j
  <2>. SUFFICES ASSUME NEW i \in 1..n, NEW j \in 1..n, i # j PROVE result[i] # result[j]
    OBVIOUS
  <2>1. i < j \/ j < i
    OBVIOUS
  <2>. QED
    BY <1>4, <2>1
<1>6. ASSUME NEW id \in DOMAIN recs \ moved, Matching(id), id \notin Members(result)
      PROVE  n = MatchLimit /\ (id \in Applies => \A i \in 1..n : result[i] \in Applies)
  <2>1. CASE a = MatchLimit
    <3>1. n = a
      BY <1>1, <2>1
    <3>. QED
      BY <1>1, <2>1, <3>1
  <2>2. CASE a # MatchLimit
    <3>1. id \in seen
      BY <1>6, <2>2 DEF a, Covered
    <3>2. id \notin Applies
      <4>. SUFFICES ASSUME id \in Applies PROVE FALSE
        OBVIOUS
      <4>1. id \in Members(safe)
        BY <1>6, <2>2, <3>1 DEF Kept, a
      <4>2. PICK i \in 1..a : safe[i] = id
        BY <4>1 DEF Members, a
      <4>3. i \in 1..n /\ result[i] = id
        BY <1>1, <4>2
      <4>. QED
        BY <1>6, <4>3 DEF Members, n
    <3>3. n = MatchLimit
      <4>. SUFFICES ASSUME n # MatchLimit PROVE FALSE
        OBVIOUS
      <4>1. n = a + b
        BY <1>1
      <4>2. b # CandidateLimit
        BY <1>1, <4>1, SizesAreNumbers
      <4>3. id \in Members(fallback)
        BY <1>6, <3>1, <3>2, <4>2 DEF Kept, b
      <4>4. PICK k \in 1..b : fallback[k] = id
        BY <4>3 DEF Members, b
      <4>5. a + k \in 1..n /\ result[a + k] = id
        BY <1>1, <4>1, <4>4
      <4>. QED
        BY <1>6, <4>5 DEF Members, n
    <3>. QED
      BY <3>2, <3>3
  <2>. QED
    BY <2>1, <2>2
<1>. QED
  BY <1>5, <1>6 DEF n, result, NoneSkipped

\* The order of a result: usable rows first, each class in the order of the scans
BestFirst(context, recs) ==
  {p \in (DOMAIN recs) \X (DOMAIN recs) :
     \/ p[1] \in Applies /\ p[2] \notin Applies
     \/ (p[1] \in Applies <=> p[2] \in Applies) /\ p \in InOrder(context, recs)}

MatchingIn(recs) == {id \in DOMAIN recs : Matching(id)}

\* The order a caller expects is total.
LEMMA BestFirstIsOrder ==
  ASSUME NEW recs, AreRows(recs), NEW context \in BOOLEAN
  PROVE  IsOrder(BestFirst(context, recs), MatchingIn(recs)) /\ IsFiniteSet(MatchingIn(recs))
<1>1. IsOrder(InOrder(context, recs), DOMAIN recs)
  BY ScansAreOrdered DEF AreRows
<1>2. MatchingIn(recs) \subseteq Candidates /\ MatchingIn(recs) \subseteq DOMAIN recs
  BY DEF MatchingIn, AreRows
<1>3. IsFiniteSet(MatchingIn(recs))
  BY <1>2, FS_Subset, InputsAssumption
<1>4. \A x, y \in MatchingIn(recs) : <<x, y>> \in BestFirst(context, recs) <=>
        \/ x \in Applies /\ y \notin Applies
        \/ (x \in Applies <=> y \in Applies) /\ <<x, y>> \in InOrder(context, recs)
  BY <1>2 DEF BestFirst
<1>. QED
  BY <1>1, <1>2, <1>3, <1>4 DEF IsOrder

\* Two lists of seven keys, key by key
LEMMA LevelsCompare ==
  ASSUME NEW u, NEW v
  PROVE  (\E n \in 1..7 : u[n] > v[n] /\ \A m \in 1..n - 1 : u[m] = v[m]) <=>
           \/ u[1] > v[1]
           \/ u[1] = v[1] /\ u[2] > v[2]
           \/ u[1] = v[1] /\ u[2] = v[2] /\ u[3] > v[3]
           \/ /\ u[1] = v[1] /\ u[2] = v[2] /\ u[3] = v[3]
              /\ \/ u[4] > v[4]
                 \/ u[4] = v[4] /\ u[5] > v[5]
                 \/ u[4] = v[4] /\ u[5] = v[5] /\ u[6] > v[6]
                 \/ u[4] = v[4] /\ u[5] = v[5] /\ u[6] = v[6] /\ u[7] > v[7]
<1>. DEFINE P(n) == u[n] > v[n] /\ \A m \in 1..n - 1 : u[m] = v[m]
<1>1. P(1) <=> u[1] > v[1]
  OBVIOUS
<1>2. P(2) <=> u[1] = v[1] /\ u[2] > v[2]
  OBVIOUS
<1>3. P(3) <=> u[1] = v[1] /\ u[2] = v[2] /\ u[3] > v[3]
  OBVIOUS
<1>4. P(4) <=> u[1] = v[1] /\ u[2] = v[2] /\ u[3] = v[3] /\ u[4] > v[4]
  OBVIOUS
<1>5. P(5) <=> u[1] = v[1] /\ u[2] = v[2] /\ u[3] = v[3] /\ u[4] = v[4] /\ u[5] > v[5]
  OBVIOUS
<1>6. P(6) <=> u[1] = v[1] /\ u[2] = v[2] /\ u[3] = v[3] /\ u[4] = v[4] /\ u[5] = v[5] /\ u[6] > v[6]
  OBVIOUS
<1>7. P(7) <=> /\ u[1] = v[1] /\ u[2] = v[2] /\ u[3] = v[3] /\ u[4] = v[4] /\ u[5] = v[5] /\ u[6] = v[6]
               /\ u[7] > v[7]
  OBVIOUS
<1>. HIDE DEF P
<1>8. (\E n \in 1..7 : P(n)) <=> P(1) \/ P(2) \/ P(3) \/ P(4) \/ P(5) \/ P(6) \/ P(7)
  OBVIOUS
<1>9. (\E n \in 1..7 : P(n)) <=> (\E n \in 1..7 : u[n] > v[n] /\ \A m \in 1..n - 1 : u[m] = v[m])
  BY DEF P
<1>. QED
  BY <1>1, <1>2, <1>3, <1>4, <1>5, <1>6, <1>7, <1>8, <1>9

\* What Expected compares
Level(context, recs, id) ==
  <<IF id \in Applies THEN 1 ELSE 0,
    IF context /\ id \in Equal \cap Context THEN 1 ELSE 0,
    IF id \in Equal THEN 1 ELSE 0>> \o Rank(recs, id)

\* The keys of a row
LEMMA LevelIs ==
  ASSUME NEW recs, AreRows(recs), NEW context \in BOOLEAN, NEW id \in DOMAIN recs,
         NEW l, l = Level(context, recs, id), NEW r, r = Rank(recs, id)
  PROVE  /\ l[1] = (IF id \in Applies THEN 1 ELSE 0)
         /\ l[2] = (IF context /\ id \in Equal \cap Context THEN 1 ELSE 0)
         /\ l[3] = (IF id \in Equal THEN 1 ELSE 0)
         /\ l[4] = r[1] /\ l[5] = r[2] /\ l[6] = r[3] /\ l[7] = r[4]
         /\ r[1] \in Int /\ r[2] \in Int /\ r[3] \in Int /\ r[4] \in Int
<1>1. id \in Candidates /\ recs[id] \in Row
  BY DEF AreRows
<1>2. r[1] \in Int /\ r[2] \in Int /\ r[3] \in Int /\ r[4] \in Int
  BY <1>1, RankIs
<1>3. r = <<Score[id], recs[id].usage, recs[id].updated, id>>
  BY DEF Rank
<1>. QED
  BY <1>2, <1>3 DEF Level

\* The expected result is the first rows of the order a caller expects.
LEMMA ExpectedIs ==
  ASSUME NEW recs, AreRows(recs), NEW context \in BOOLEAN
  PROVE  LET full == Ranked(BestFirst(context, recs), MatchingIn(recs))
         IN Expected(context, recs) = SubSeq(full, 1, Least(MatchLimit, Len(full)))
<1>. DEFINE Better(a, b) == \E n \in 1..7 : /\ Level(context, recs, a)[n] > Level(context, recs, b)[n]
                                       /\ \A m \in 1..n - 1 : Level(context, recs, a)[m] = Level(context, recs, b)[m]
            S == {id \in DOMAIN recs : Matching(id)}
            R == BestFirst(context, recs)
<1>1. S = MatchingIn(recs) /\ S \subseteq DOMAIN recs
  BY DEF MatchingIn
<1>2. ASSUME NEW a \in S, NEW b \in S
      PROVE  Better(a, b) <=> <<a, b>> \in R
  <2>. DEFINE x == Rank(recs, a)
              y == Rank(recs, b)
              u == Level(context, recs, a)
              v == Level(context, recs, b)
  <2>1. /\ u[1] = (IF a \in Applies THEN 1 ELSE 0)
        /\ u[2] = (IF context /\ a \in Equal \cap Context THEN 1 ELSE 0)
        /\ u[3] = (IF a \in Equal THEN 1 ELSE 0)
        /\ u[4] = x[1] /\ u[5] = x[2] /\ u[6] = x[3] /\ u[7] = x[4]
        /\ x[1] \in Int /\ x[2] \in Int /\ x[3] \in Int /\ x[4] \in Int
    BY <1>1, LevelIs
  <2>2. /\ v[1] = (IF b \in Applies THEN 1 ELSE 0)
        /\ v[2] = (IF context /\ b \in Equal \cap Context THEN 1 ELSE 0)
        /\ v[3] = (IF b \in Equal THEN 1 ELSE 0)
        /\ v[4] = y[1] /\ v[5] = y[2] /\ v[6] = y[3] /\ v[7] = y[4]
        /\ y[1] \in Int /\ y[2] \in Int /\ y[3] \in Int /\ y[4] \in Int
    BY <1>1, LevelIs
  <2>3. Better(a, b) <=> (\E n \in 1..7 : u[n] > v[n] /\ \A m \in 1..n - 1 : u[m] = v[m])
    OBVIOUS
  <2>4. <<a, b>> \in R <=>
          \/ a \in Applies /\ b \notin Applies
          \/ /\ a \in Applies <=> b \in Applies
             /\ \/ Phase(context, a) < Phase(context, b)
                \/ Phase(context, a) = Phase(context, b) /\ Below(y, x)
    BY <1>1 DEF BestFirst, InOrder
  <2>5. /\ Phase(context, a) < Phase(context, b) <=> u[2] > v[2] \/ (u[2] = v[2] /\ u[3] > v[3])
        /\ Phase(context, a) = Phase(context, b) <=> u[2] = v[2] /\ u[3] = v[3]
    <3>1. Matching(a) /\ Matching(b)
      OBVIOUS
    <3>. HIDE DEF u, v
    <3>. QED
      BY <2>1, <2>2, <3>1 DEF Phase, Matching
  <2>. HIDE DEF u, v, x, y
  <2>6. Below(y, x) <=>
          \/ u[4] > v[4]
          \/ u[4] = v[4] /\ u[5] > v[5]
          \/ u[4] = v[4] /\ u[5] = v[5] /\ u[6] > v[6]
          \/ u[4] = v[4] /\ u[5] = v[5] /\ u[6] = v[6] /\ u[7] > v[7]
    <3>1. Below(y, x) <=>
           \/ y[1] < x[1]
           \/ y[1] = x[1] /\ y[2] < x[2]
           \/ y[1] = x[1] /\ y[2] = x[2] /\ y[3] < x[3]
           \/ y[1] = x[1] /\ y[2] = x[2] /\ y[3] = x[3] /\ y[4] < x[4]
      BY BelowIs, Zenon
    <3>. QED
      BY <2>1, <2>2, <3>1
  <2>7. /\ a \in Applies /\ b \notin Applies <=> u[1] > v[1]
        /\ (a \in Applies <=> b \in Applies) <=> u[1] = v[1]
    BY <2>1, <2>2
  <2>8. (\E n \in 1..7 : u[n] > v[n] /\ \A m \in 1..n - 1 : u[m] = v[m]) <=>
           \/ u[1] > v[1]
           \/ u[1] = v[1] /\ u[2] > v[2]
           \/ u[1] = v[1] /\ u[2] = v[2] /\ u[3] > v[3]
           \/ u[1] = v[1] /\ u[2] = v[2] /\ u[3] = v[3] /\ Below(y, x)
    BY <2>6, LevelsCompare
  <2>. QED
    BY <2>3, <2>4, <2>5, <2>7, <2>8
<1>3. \A x \in S : {y \in S : Better(y, x)} = Preds(R, S, x)
  <2>. HIDE DEF Better, S
  <2>. QED
    BY <1>2 DEF Preds
<1>. DEFINE L(n) == CHOOSE x \in S : Cardinality({y \in S : Better(y, x)}) = n - 1
            M(n) == CHOOSE x \in S : Cardinality(Preds(R, S, x)) = n - 1
            all == Sorted(S, Better)
<1>4. \A n : L(n) = M(n)
  <2>. HIDE DEF S, Better
  <2>. QED
    BY <1>3, Zenon
<1>5. all = Ranked(R, S)
  <2>1. /\ all = [n \in 1..Cardinality(S) |-> L(n)]
        /\ Ranked(R, S) = [n \in 1..Cardinality(S) |-> M(n)]
    <3>. HIDE DEF S, Better
    <3>. QED
      BY Zenon DEF Sorted, Ranked
  <2>2. Cardinality(S) = Cardinality(S)
    OBVIOUS
  <2>. HIDE DEF L, M, S, Better, all
  <2>. QED
    BY <1>4, <2>1, <2>2
<1>6. Expected(context, recs) = SubSeq(all, 1, Least(MatchLimit, Len(all)))
  BY Zenon DEF Expected, Level
<1>. HIDE DEF all
<1>. QED
  BY <1>1, <1>5, <1>6, Zenon

\* Nothing that was not seen comes before what was.
Downward(context, recs, seen) ==
  /\ seen \subseteq DOMAIN recs /\ \A id \in seen : Matching(id)
  /\ \A x \in seen, y \in DOMAIN recs \ seen : <<x, y>> \in InOrder(context, recs)

\* What was kept of a store that no session changed meanwhile.
KeptStill(context, recs, seen, list, usable, bound) == Kept(context, recs, {}, 0, seen, list, usable, bound)

IsFlag(context) == context \in BOOLEAN

\* Without a commit, the result is the expected one.
LEMMA ResultIsBest ==
  ASSUME NEW recs, AreRows(recs), NEW context, IsFlag(context),
         NEW seen, Downward(context, recs, seen), NEW safe, NEW fallback,
         KeptStill(context, recs, seen, safe, TRUE, MatchLimit),
         KeptStill(context, recs, seen, fallback, FALSE, CandidateLimit),
         Covered(recs, seen, safe)
  PROVE  Finish(safe, fallback) = Expected(context, recs)
<1>. USE DEF Downward, Covered, KeptStill, IsFlag
<1>. DEFINE result == Finish(safe, fallback)
            S == MatchingIn(recs)
            R == BestFirst(context, recs)
            O == InOrder(context, recs)
            a == Len(safe)
            b == Len(fallback)
            n == Len(result)
<1>1. Shape(seen, safe, fallback, result)
  BY ResultShape
<1>. HIDE DEF result
<1>2. /\ result \in Seq(seen) /\ a \in Nat /\ b \in Nat /\ n \in Nat /\ a <= n /\ n <= MatchLimit
      /\ n = MatchLimit \/ n = a + b
      /\ \A i \in 1..a : result[i] = safe[i] /\ safe[i] \in Applies /\ safe[i] \in seen
      /\ \A i \in 1..n : i \notin 1..a => i - a \in 1..b /\ result[i] = fallback[i - a]
      /\ \A k \in 1..b : /\ fallback[k] \notin Applies /\ fallback[k] \in seen
                         /\ a + k <= n => a + k \in 1..n /\ result[a + k] = fallback[k]
  BY <1>1 DEF Shape
<1>3. /\ Chain(safe, O) /\ Chain(fallback, O)
      /\ \A id \in seen : id \in Applies => id \in Members(safe) \/ \A i \in 1..a : <<safe[i], id>> \in O
      /\ \A id \in seen : id \notin Applies => id \in Members(fallback) \/ \A i \in 1..b : <<fallback[i], id>> \in O
      /\ \A id \in seen : id \in Applies => id \in Members(safe) \/ a = MatchLimit
      /\ \A id \in seen : id \notin Applies => id \in Members(fallback) \/ b = CandidateLimit
  BY DEF Kept
<1>4. seen \subseteq S /\ S \subseteq DOMAIN recs
  BY DEF MatchingIn
<1>5. \A x, y \in S : <<x, y>> \in R <=>
        \/ x \in Applies /\ y \notin Applies
        \/ (x \in Applies <=> y \in Applies) /\ <<x, y>> \in O
  BY <1>4 DEF BestFirst
<1>6. IsFiniteSet(S) /\ IsOrder(R, S)
  BY BestFirstIsOrder
<1>7. result \in Seq(S)
  BY <1>2, <1>4
<1>8. a = MatchLimit \/ S \subseteq seen
  BY DEF MatchingIn
<1>9. \A i \in 1..n : result[i] \in S /\ (i \in 1..a <=> result[i] \in Applies) /\ i \in Int
  <2>. TAKE i \in 1..n
  <2>1. result[i] \in S
    BY <1>7
  <2>2. CASE i \in 1..a
    <3>1. result[i] = safe[i] /\ safe[i] \in Applies
      BY <1>2, <2>2
    <3>. QED
      BY <2>1, <2>2, <3>1
  <2>3. CASE i \notin 1..a
    <3>1. i - a \in 1..b /\ result[i] = fallback[i - a]
      BY <1>2, <2>3
    <3>. QED
      BY <1>2, <2>1, <2>3, <3>1
  <2>. QED
    BY <2>2, <2>3
<1>10. \A x \in seen, y \in S : y \notin seen => <<x, y>> \in O
  BY <1>4
<1>. HIDE DEF S, R, O, a, b, n
<1>11. ASSUME NEW i \in 1..n, NEW j \in 1..n, i < j
       PROVE  <<result[i], result[j]>> \in R
  <2>1. CASE j \in 1..a
    <3>1. i \in 1..a
      BY <1>2, <1>11, <2>1
    <3>2. <<safe[i], safe[j]>> \in O
      BY <1>3, <1>11, <2>1, <3>1 DEF Chain, a
    <3>. QED
      BY <1>2, <1>5, <1>9, <2>1, <3>1, <3>2
  <2>2. CASE i \in 1..a /\ j \notin 1..a
    BY <1>5, <1>9, <2>2
  <2>3. CASE i \notin 1..a
    <3>1. j \notin 1..a /\ i - a < j - a
      BY <1>2, <1>11, <2>3
    <3>2. i - a \in 1..b /\ j - a \in 1..b /\ result[i] = fallback[i - a] /\ result[j] = fallback[j - a]
      BY <1>2, <2>3, <3>1
    <3>3. <<result[i], result[j]>> \in O
      BY <1>3, <3>1, <3>2 DEF Chain, b
    <3>. QED
      BY <1>5, <1>9, <2>3, <3>1, <3>3
  <2>. QED
    BY <2>1, <2>2, <2>3
<1>12. ASSUME NEW x \in S, x \notin Members(result)
       PROVE  n = MatchLimit /\ \A i \in 1..n : <<result[i], x>> \in R
  <2>1. CASE x \notin seen
    <3>1. a = MatchLimit /\ n = a
      BY <1>2, <1>8, <2>1
    <3>2. ASSUME NEW i \in 1..n PROVE <<result[i], x>> \in R
      <4>1. result[i] \in seen /\ result[i] \in Applies /\ result[i] \in S
        BY <1>2, <1>9, <3>1
      <4>2. <<result[i], x>> \in O
        BY <1>10, <2>1, <4>1
      <4>. QED
        BY <1>5, <4>1, <4>2
    <3>. QED
      BY <3>1, <3>2
  <2>2. CASE x \in seen /\ x \in Applies
    <3>1. x \notin Members(safe)
      <4>. SUFFICES ASSUME NEW i \in 1..a, safe[i] = x PROVE FALSE
        BY DEF Members, a
      <4>1. i \in 1..n /\ result[i] = x
        BY <1>2
      <4>. QED
        BY <1>12, <4>1 DEF Members, n
    <3>2. a = MatchLimit /\ n = a
      BY <1>2, <1>3, <2>2, <3>1
    <3>3. ASSUME NEW i \in 1..n PROVE <<result[i], x>> \in R
      <4>1. result[i] = safe[i] /\ result[i] \in Applies /\ result[i] \in S
        BY <1>2, <1>9, <3>2
      <4>2. <<result[i], x>> \in O
        BY <1>3, <2>2, <3>1, <3>2, <4>1
      <4>. QED
        BY <1>5, <2>2, <4>1, <4>2
    <3>. QED
      BY <3>2, <3>3
  <2>3. CASE x \in seen /\ x \notin Applies
    <3>1. n = MatchLimit
      <4>. SUFFICES ASSUME n # MatchLimit PROVE FALSE
        OBVIOUS
      <4>1. n = a + b
        BY <1>2
      <4>2. b # CandidateLimit
        BY <1>2, <4>1, SizesAreNumbers
      <4>3. x \in Members(fallback)
        BY <1>3, <2>3, <4>2
      <4>4. PICK k \in 1..b : fallback[k] = x
        BY <4>3 DEF Members, b
      <4>5. a + k \in 1..n /\ result[a + k] = x
        BY <1>2, <4>1, <4>4
      <4>. QED
        BY <1>12, <4>5 DEF Members, n
    <3>2. ASSUME NEW i \in 1..n PROVE <<result[i], x>> \in R
      <4>1. CASE i \in 1..a
        BY <1>5, <1>9, <2>3, <4>1
      <4>2. CASE i \notin 1..a
        <5>1. i - a \in 1..b /\ result[i] = fallback[i - a] /\ result[i] \notin Applies /\ result[i] \in S
          BY <1>2, <1>9, <4>2
        <5>2. <<result[i], x>> \in O
          <6>1. CASE x \notin Members(fallback)
            BY <1>3, <2>3, <5>1, <6>1
          <6>2. CASE x \in Members(fallback)
            <7>1. PICK k \in 1..b : fallback[k] = x
              BY <6>2 DEF Members, b
            <7>2. ~(a + k <= n)
              BY <1>2, <1>12, <7>1 DEF Members, n
            <7>3. i - a < k
              BY <1>2, <7>2
            <7>. QED
              BY <1>3, <5>1, <7>1, <7>3 DEF Chain, b
          <6>. QED
            BY <6>1, <6>2
        <5>. QED
          BY <1>5, <2>3, <5>1, <5>2
      <4>. QED
        BY <4>1, <4>2
    <3>. QED
      BY <3>1, <3>2
  <2>. QED
    BY <2>1, <2>2, <2>3
<1>13. Chain(result, R)
  BY <1>11 DEF Chain, n
<1>14. MatchLimit \in Nat
  BY SizesAreNumbers
<1>15. \A x \in S : x \in Members(result) \/ (Len(result) = MatchLimit /\ \A i \in 1..Len(result) : <<result[i], x>> \in R)
  BY <1>12 DEF n
<1>16. Len(result) <= MatchLimit
  BY <1>2 DEF n
<1>17. SubSeq(Ranked(R, S), 1, Least(MatchLimit, Len(Ranked(R, S)))) = result
  BY <1>6, <1>7, <1>13, <1>14, <1>15, <1>16, FirstOf
<1>. QED
  BY <1>17, ExpectedIs DEF R, S, result

\* What was passed is in the memory.
LEMMA PassedAreIn ==
  ASSUME NEW m, NEW recs
  PROVE  PassedIn(m, recs) \subseteq DOMAIN recs /\ Found(m, recs) \subseteq DOMAIN recs
BY DEF PassedIn, Found

\* What a page has read, with what was passed, comes before the rest.
LEMMA ReadFirst ==
  ASSUME NEW recs, AreRows(recs), NEW m, Scanning(m), NEW page, Taken(m, recs, page)
  PROVE  LET seen == PassedIn(m, recs) \cup Members(page)
             O == InOrder(m.require_context, recs)
         IN /\ page \in Seq(DOMAIN recs) /\ seen \subseteq DOMAIN recs
            /\ \A x \in PassedIn(m, recs), k \in 1..Len(page) : <<x, page[k]>> \in O
            /\ \A x \in seen, y \in DOMAIN recs \ seen : <<x, y>> \in O
            /\ \A x \in seen : Matching(x) /\ Phase(m.require_context, x) <= Number(m.scan)
            /\ Len(page) < PageSize =>
                 \A x \in DOMAIN recs : Phase(m.require_context, x) <= Number(m.scan) => x \in seen
<1>. DEFINE O == InOrder(m.require_context, recs)
            c == m.require_context
            seen == PassedIn(m, recs) \cup Members(page)
<1>1. page \in Seq(DOMAIN recs) /\ \A k \in 1..Len(page) : page[k] \in Found(m, recs) /\ page[k] \in DOMAIN recs
  <2>1. page \in Seq(Found(m, recs))
    BY DEF Taken
  <2>. QED
    BY <2>1, PassedAreIn
<1>2. \A x \in Found(m, recs) : Phase(c, x) = Number(m.scan) /\ x \notin PassedIn(m, recs)
  <2>1. Number(m.scan) \in Int /\ ~(Number(m.scan) < Number(m.scan))
    BY DEF Number, Scanning, Scans
  <2>. QED
    BY <2>1 DEF Found, PassedIn, Passed
<1>3. \A x \in PassedIn(m, recs), k \in 1..Len(page) : <<x, page[k]>> \in O
  BY <1>1, <1>2, PassedFirst
<1>4. \A x \in seen : x \in DOMAIN recs /\ Phase(c, x) <= Number(m.scan)
  <2>. TAKE x \in seen
  <2>1. CASE x \in PassedIn(m, recs)
    BY <2>1, PhaseIs DEF PassedIn, Passed, Number, Scanning, Scans
  <2>2. CASE x \in Members(page)
    <3>1. PICK k \in 1..Len(page) : x = page[k]
      BY <2>2 DEF Members
    <3>2. x \in DOMAIN recs /\ Phase(c, x) = Number(m.scan)
      BY <1>1, <1>2, <3>1
    <3>. QED
      BY <3>2, PhaseIs
  <2>. QED
    BY <2>1, <2>2
<1>5. \A x \in seen : Matching(x)
  <2>1. Number(m.scan) \in 1..3
    BY DEF Number, Scanning, Scans
  <2>. QED
    BY <1>4, <2>1, PhaseIs
<1>6. ASSUME NEW y \in DOMAIN recs, y \notin PassedIn(m, recs), Phase(c, y) <= Number(m.scan)
      PROVE  y \in Found(m, recs)
  BY <1>6, PhaseIs DEF Found, PassedIn, Passed, Number, Scanning, Scans
<1>7. ASSUME NEW x \in seen, NEW y \in DOMAIN recs, y \notin seen
      PROVE  <<x, y>> \in O
  <2>1. CASE x \in PassedIn(m, recs)
    BY <1>7, <2>1, PassedFirst
  <2>2. CASE x \in Members(page) /\ y \in Found(m, recs)
    BY <1>7, <2>2 DEF Taken, Members
  <2>3. CASE x \in Members(page) /\ y \notin Found(m, recs)
    <3>1. Phase(c, x) < Phase(c, y)
      BY <1>4, <1>6, <1>7, <2>3, PhaseIs DEF Number, Scanning, Scans
    <3>. QED
      BY <1>4, <3>1 DEF InOrder
  <2>. QED
    BY <2>1, <2>2, <2>3
<1>8. ASSUME Len(page) < PageSize, NEW x \in DOMAIN recs, Phase(c, x) <= Number(m.scan)
      PROVE  x \in seen
  <2>1. Len(page) # PageSize
    BY <1>1, <1>8, SizesAreNumbers
  <2>. QED
    BY <1>6, <1>8, <2>1 DEF Taken
<1>. QED
  BY <1>1, <1>3, <1>4, <1>5, <1>7, <1>8

\* After a full page the cursor is at its last row, and has passed those it read.
LEMMA CursorMoves ==
  ASSUME NEW recs, AreRows(recs), NEW m, Scanning(m), NEW page, Taken(m, recs, page),
         Len(page) = PageSize, NEW n,
         n.require_context = m.require_context, n.scan = m.scan, n.after = Rank(recs, page[Len(page)])
  PROVE  PassedIn(n, recs) = PassedIn(m, recs) \cup Members(page) /\ n.after \in Cursors
<1>. DEFINE c == m.require_context
            last == page[Len(page)]
            K(id) == Rank(recs, id)
            seen == PassedIn(m, recs) \cup Members(page)
            O == InOrder(c, recs)
<1>1. Len(page) \in Nat /\ 1 <= Len(page) /\ Len(page) \in 1..Len(page)
  BY SizesAreNumbers
<1>2. last \in Found(m, recs) /\ last \in DOMAIN recs /\ last \in Members(page) /\ last \in seen
  BY <1>1, PassedAreIn DEF Taken, Members
<1>3. Phase(c, last) = Number(m.scan) /\ Number(m.scan) \in Int
  BY <1>2 DEF Found, Number, Scanning, Scans
<1>4. IsOrder(O, DOMAIN recs)
  BY ScansAreOrdered DEF AreRows, Scanning
<1>5. /\ seen \subseteq DOMAIN recs
      /\ \A x \in PassedIn(m, recs), k \in 1..Len(page) : <<x, page[k]>> \in O
      /\ \A x \in seen, y \in DOMAIN recs \ seen : <<x, y>> \in O
      /\ \A x \in seen : Phase(m.require_context, x) <= Number(m.scan)
  BY ReadFirst
<1>6. \A id \in DOMAIN recs : /\ K(id) \in Int \X Nat \X Int \X Int
                              /\ K(id)[1] \in Int /\ K(id)[2] \in Int /\ K(id)[3] \in Int /\ K(id)[4] \in Int
  BY RankIs DEF AreRows
<1>7. n.after # <<>> /\ n.after \in Cursors
  <2>1. K(last) # <<>>
    BY DEF Rank
  <2>. QED
    BY <1>2, <1>6, <2>1 DEF Cursors
<1>8. \A id \in DOMAIN recs : id \in PassedIn(n, recs) <=>
        \/ Phase(c, id) < Number(m.scan)
        \/ Phase(c, id) = Number(m.scan) /\ ~Below(K(id), K(last))
  BY <1>7 DEF PassedIn, Passed
<1>9. \A id \in DOMAIN recs : <<last, id>> \in O <=>
        \/ Number(m.scan) < Phase(c, id)
        \/ Phase(c, id) = Number(m.scan) /\ Below(K(id), K(last))
  BY <1>2, <1>3 DEF InOrder
<1>10. \A id \in DOMAIN recs : Phase(c, id) \in Int
  BY PhaseIs
<1>11. \A id \in DOMAIN recs : id \in PassedIn(n, recs) <=> <<last, id>> \notin O
  BY <1>3, <1>8, <1>9, <1>10
<1>12. \A x \in Members(page) : x = last \/ <<x, last>> \in O
  <2>. SUFFICES ASSUME NEW k \in 1..Len(page), k # Len(page)
                PROVE  <<page[k], last>> \in O
    BY DEF Members
  <2>1. k < Len(page)
    BY <1>1
  <2>. QED
    BY <1>1, <2>1 DEF Taken, Chain
<1>13. \A x \in PassedIn(m, recs) : <<x, last>> \in O
  BY <1>1, <1>5
<1>. HIDE DEF O, last, seen
<1>14. ASSUME NEW x \in seen PROVE <<last, x>> \notin O
  <2>1. x = last \/ <<x, last>> \in O
    BY <1>12, <1>13 DEF seen
  <2>. QED
    BY <1>2, <1>4, <1>5, <2>1 DEF IsOrder
<1>15. ASSUME NEW x \in DOMAIN recs, x \notin seen PROVE <<last, x>> \in O
  BY <1>2, <1>5, <1>15
<1>16. PassedIn(n, recs) \subseteq DOMAIN recs
  BY PassedAreIn
<1>. QED
  BY <1>5, <1>7, <1>11, <1>14, <1>15, <1>16 DEF seen

\* After a short page the scan has passed every row it finds.
LEMMA ScanEnds ==
  ASSUME NEW recs, AreRows(recs), NEW m, Scanning(m), NEW page, Taken(m, recs, page),
         Len(page) < PageSize, m.scan # "fuzzy", NEW n,
         n.require_context = m.require_context, n.scan = (IF m.scan = "ice" THEN "exact" ELSE "fuzzy"),
         n.after = <<>>
  PROVE  PassedIn(n, recs) = PassedIn(m, recs) \cup Members(page)
<1>. DEFINE c == m.require_context
            seen == PassedIn(m, recs) \cup Members(page)
<1>1. /\ seen \subseteq DOMAIN recs
      /\ \A x \in seen : Phase(c, x) <= Number(m.scan)
      /\ \A x \in DOMAIN recs : Phase(c, x) <= Number(m.scan) => x \in seen
  BY ReadFirst
<1>2. Number(n.scan) = Number(m.scan) + 1 /\ Number(m.scan) \in Int
  BY DEF Number, Scanning, Scans
<1>3. \A id \in DOMAIN recs : id \in PassedIn(n, recs) <=> Phase(c, id) < Number(n.scan)
  BY DEF PassedIn, Passed
<1>4. \A id \in DOMAIN recs : Phase(c, id) < Number(n.scan) <=> Phase(c, id) <= Number(m.scan)
  BY <1>2, PhaseIs
<1>. HIDE DEF seen
<1>. QED
  BY <1>1, <1>3, <1>4, PassedAreIn DEF seen

\* A sequence over a set is one over a larger set.
LEMMA SeqOfMore ==
  ASSUME NEW S, NEW T, S \subseteq T, NEW r \in Seq(S)
  PROVE  r \in Seq(T)
OBVIOUS

\* The rows once a load has committed a unit
Committed(recs, id, stamp) ==
  [x \in DOMAIN recs \cup {id} |->
     IF x # id THEN recs[x]
     ELSE [usage |-> IF id \in DOMAIN recs THEN recs[id].usage + 1 ELSE 0, updated |-> stamp]]

\* A commit moves a row up, so that the cursor does not find a row a second time.
LEMMA CommitKeeps ==
  ASSUME NEW recs, AreRows(recs), NEW m, Scanning(m), NEW moved, NEW commits \in Nat,
         NEW id \in Candidates, NEW stamp \in 0..1, NEW new, new = Committed(recs, id, stamp), NEW n, n.require_context = m.require_context, n.scan = m.scan, n.after = m.after,
         NEW safe, NEW usable, NEW bound,
         Kept(m.require_context, recs, moved, commits, PassedIn(m, recs), safe, usable, bound)
  PROVE  /\ AreRows(new)
         /\ Kept(m.require_context, new, moved \cup {id}, commits + 1, PassedIn(n, new), safe, usable, bound)
<1>1. /\ DOMAIN new = DOMAIN recs \cup {id}
      /\ \A x \in DOMAIN recs : x # id => new[x] = recs[x]
      /\ new[id].usage = (IF id \in DOMAIN recs THEN recs[id].usage + 1 ELSE 0)
      /\ new[id] = [usage |-> IF id \in DOMAIN recs THEN recs[id].usage + 1 ELSE 0, updated |-> stamp]
  BY DEF Committed
<1>2. AreRows(new)
  BY <1>1 DEF AreRows, Row
<1>3. ASSUME NEW x \in DOMAIN recs, x # id
      PROVE  Rank(new, x) = Rank(recs, x)
  BY <1>1, <1>3 DEF Rank
<1>4. ASSUME NEW x \in PassedIn(m, recs)
      PROVE  x \in PassedIn(n, new)
  <2>1. x \in DOMAIN recs /\ x \in DOMAIN new
    BY <1>1 DEF PassedIn
  <2>2. CASE x # id
    BY <1>3, <2>1, <2>2 DEF PassedIn, Passed
  <2>3. CASE x = id
    <3>. DEFINE a == Rank(recs, id)
                b == Rank(new, id)
                c == m.after
    <3>1. /\ a[1] \in Int /\ a[2] \in Int /\ a[3] \in Int /\ a[4] \in Int
          /\ b[1] \in Int /\ b[2] \in Int /\ b[3] \in Int /\ b[4] \in Int
          /\ a[1] = b[1] /\ a[2] = recs[id].usage /\ b[2] = new[id].usage
      <4>1. recs[id] \in Row /\ new[id] \in Row
        BY <1>2, <2>1, <2>3 DEF AreRows
      <4>2. /\ a[1] \in Int /\ a[2] \in Int /\ a[3] \in Int /\ a[4] \in Int
            /\ a[1] = Score[id] /\ a[2] = recs[id].usage
        BY <4>1, RankIs
      <4>3. /\ b[1] \in Int /\ b[2] \in Int /\ b[3] \in Int /\ b[4] \in Int
            /\ b[1] = Score[id] /\ b[2] = new[id].usage
        BY <4>1, RankIs
      <4>. QED
        BY <4>2, <4>3
    <3>2. recs[id].usage < new[id].usage
      BY <1>1, <2>1, <2>3 DEF AreRows, Row
    <3>. HIDE DEF a, b
    <3>3. Below(a, b)
      BY <3>1, <3>2, BelowIs
    <3>4. c # <<>> => c[1] \in Int /\ c[2] \in Int /\ c[3] \in Int /\ c[4] \in Int
      BY DEF Scanning, Cursors
    <3>5. c # <<>> /\ Below(b, c) => Below(a, c)
      <4>. HIDE DEF c
      <4>. QED
        BY <3>1, <3>3, <3>4, BelowBetween
    <3>. QED
      BY <2>1, <2>3, <3>5 DEF PassedIn, Passed, a, b
  <2>. QED
    BY <2>2, <2>3
<1>5. ASSUME NEW x \in PassedIn(n, new), x # id
      PROVE  x \in PassedIn(m, recs)
  <2>1. x \in DOMAIN recs
    BY <1>1, <1>5 DEF PassedIn
  <2>. QED
    BY <1>3, <1>5, <2>1 DEF PassedIn, Passed
<1>6. PassedIn(m, recs) \subseteq PassedIn(n, new)
  BY <1>4
<1>7. safe \in Seq(PassedIn(n, new))
  <2>1. safe \in Seq(PassedIn(m, recs))
    BY DEF Kept
  <2>. QED
    BY <1>6, <2>1, SeqOfMore
<1>8. \A x \in PassedIn(n, new) \ (moved \cup {id}) : x \in PassedIn(m, recs) \ moved
  BY <1>5
<1>9. commits + 1 # 0
  OBVIOUS
<1>. QED
  BY <1>2, <1>7, <1>8, <1>9 DEF Kept

-----------------------------------------------------------------------------
(***************************************************************************)
(* The inductive invariant: what was passed is an initial piece of the     *)
(* order, and each list keeps the first rows of it that are its own, but   *)
(* for those that commits moved.                                           *)
(***************************************************************************)

MatchState ==
  [pc : {"start", "scan", "done"}, scan : Scans, require_context : BOOLEAN, after : Cursors,
   safe : Seq(Candidates), fallback : Seq(Candidates), result : Seq(Candidates),
   moved : SUBSET Candidates, commits : Nat]

Progress(m, recs) ==
  /\ Scanning(m)
  /\ Kept(m.require_context, recs, m.moved, m.commits, PassedIn(m, recs), m.safe, TRUE, MatchLimit)
  /\ Kept(m.require_context, recs, m.moved, m.commits, PassedIn(m, recs), m.fallback, FALSE, CandidateLimit)
  /\ Len(m.safe) < MatchLimit

Answer(m, recs) ==
  /\ m.commits = 0 => m.result = Expected(m.require_context, recs)
  /\ NoneSkipped(recs, m.moved, m.result)

MatchGood(m, recs) ==
  /\ m \in MatchState /\ AreRows(recs)
  /\ m.commits = 0 => m.moved = {}
  /\ m.pc = "start" => m = Idle
  /\ m.pc = "scan" => Progress(m, recs)
  /\ m.pc = "done" => Answer(m, recs)

MatchInv == MatchGood(match, store)

\* The state after a page
With(m, safe, fallback, after, scan, pc, result) ==
  [m EXCEPT !.safe = safe, !.fallback = fallback, !.after = after, !.scan = scan, !.pc = pc, !.result = result]

\* What a page changes of a call
LEMMA WithIs ==
  ASSUME NEW m \in MatchState, NEW pc \in {"start", "scan", "done"}, NEW scan \in Scans, NEW after \in Cursors,
         NEW safe \in Seq(Candidates), NEW fallback \in Seq(Candidates), NEW result \in Seq(Candidates)
  PROVE  LET n == With(m, safe, fallback, after, scan, pc, result) IN
         /\ n \in MatchState /\ n.pc = pc /\ n.scan = scan /\ n.after = after
         /\ n.safe = safe /\ n.fallback = fallback /\ n.result = result
         /\ n.commits = m.commits /\ n.moved = m.moved /\ n.require_context = m.require_context
BY DEF MatchState, With

\* Before the first page nothing is kept of nothing seen.
LEMMA KeptNothing ==
  ASSUME NEW context, NEW recs, NEW moved, NEW commits, NEW usable, NEW bound \in Nat
  PROVE  Kept(context, recs, moved, commits, {}, <<>>, usable, bound)
BY DEF Kept, Chain

\* The invariant holds of the first states, after a call, a commit and a page.
LEMMA MatchInit ==
  ASSUME Init
  PROVE  MatchInv
<1>1. PICK ids \in SUBSET Candidates : store \in [ids -> [usage : 0..1, updated : {0}]]
  BY DEF Init
<1>2. AreRows(store)
  BY <1>1 DEF AreRows, Row
<1>3. match = Idle
  BY DEF Init
<1>. QED
  BY <1>2, <1>3 DEF MatchInv, MatchGood, MatchState, Idle, Scans, Cursors

LEMMA MatchCall ==
  ASSUME MatchInv, Call
  PROVE  MatchInv'
<1>1. PICK context \in BOOLEAN :
        match' = [Idle EXCEPT !.pc = "scan", !.require_context = context,
                                    !.scan = IF context THEN "ice" ELSE "exact"]
  BY DEF Call
<1>2. store' = store /\ AreRows(store)
  BY DEF Call, MatchInv, MatchGood
<1>3. /\ match' \in MatchState /\ match'.pc = "scan" /\ match'.commits = 0 /\ match'.moved = {}
      /\ match'.safe = <<>> /\ match'.fallback = <<>> /\ match'.after = <<>>
      /\ match'.require_context = context /\ match'.scan = (IF context THEN "ice" ELSE "exact")
  <2>1. <<>> \in Cursors /\ "ice" \in Scans /\ "exact" \in Scans /\ <<>> \in Seq(Candidates)
    BY DEF Cursors, Scans
  <2>2. match' = [pc |-> "scan", scan |-> IF context THEN "ice" ELSE "exact", require_context |-> context,
                  after |-> <<>>, safe |-> <<>>, fallback |-> <<>>, result |-> <<>>, moved |-> {}, commits |-> 0]
    BY <1>1 DEF Idle
  <2>. QED
    BY <2>1, <2>2 DEF MatchState
<1>4. Scanning(match')
  BY <1>3 DEF Scanning, Scans, Cursors
<1>5. PassedIn(match', store) = {}
  BY <1>3 DEF PassedIn, Passed, Phase, Number
<1>6. Progress(match', store)
  <2>1. MatchLimit \in Nat /\ 1 <= MatchLimit /\ CandidateLimit \in Nat
    BY SizesAreNumbers
  <2>2. Len(match'.safe) < MatchLimit
    BY <1>3, <2>1
  <2>3. /\ Kept(context, store, {}, 0, {}, <<>>, TRUE, MatchLimit)
        /\ Kept(context, store, {}, 0, {}, <<>>, FALSE, CandidateLimit)
    BY <2>1, KeptNothing
  <2>. QED
    BY <1>3, <1>4, <1>5, <2>2, <2>3 DEF Progress
<1>. QED
  BY <1>2, <1>3, <1>6 DEF MatchInv, MatchGood

LEMMA MatchCommits ==
  ASSUME MatchInv, LoadCommits
  PROVE  MatchInv'
<1>1. PICK id \in Candidates, stamp \in 0..1 :
       /\ store' = [x \in DOMAIN store \cup {id} |->
            IF x # id THEN store[x]
            ELSE [usage |-> IF id \in DOMAIN store THEN store[id].usage + 1 ELSE 0, updated |-> stamp]]
       /\ match' = [match EXCEPT !.moved = @ \cup {id}, !.commits = @ + 1]
  BY DEF LoadCommits
<1>2. match \in MatchState /\ AreRows(store) /\ match.pc = "scan" /\ Progress(match, store)
  BY DEF MatchInv, MatchGood, LoadCommits
<1>3. /\ match' \in MatchState /\ match'.pc = "scan"
      /\ match'.commits = match.commits + 1 /\ match'.moved = match.moved \cup {id}
      /\ match'.safe = match.safe /\ match'.fallback = match.fallback /\ match'.after = match.after
      /\ match'.require_context = match.require_context /\ match'.scan = match.scan
      /\ match'.commits # 0 /\ match.commits \in Nat
  <2>1. match.commits \in Nat /\ match.moved \in SUBSET Candidates
    BY <1>2 DEF MatchState
  <2>2. match.commits + 1 \in Nat /\ match.commits + 1 # 0 /\ match.moved \cup {id} \in SUBSET Candidates
    BY <2>1
  <2>. QED
    BY <1>1, <1>2, <2>1, <2>2 DEF MatchState
<1>4. Scanning(match) /\ Scanning(match')
  BY <1>2, <1>3 DEF Progress, Scanning
<1>5. ASSUME NEW safe, NEW usable, NEW bound,
             Kept(match.require_context, store, match.moved, match.commits, PassedIn(match, store), safe, usable, bound)
      PROVE  /\ AreRows(store')
             /\ Kept(match.require_context, store', match.moved \cup {id}, match.commits + 1, PassedIn(match', store'), safe, usable, bound)
  <2> DEFINE n == match'
             new == store'
             commits == match.commits
  <2>1. commits \in Nat /\ AreRows(store) /\ Scanning(match)
        /\ n.require_context = match.require_context /\ n.scan = match.scan /\ n.after = match.after
    BY <1>2, <1>3, <1>4
  <2>2. new = Committed(store, id, stamp)
    BY <1>1 DEF Committed
  <2>3. Kept(match.require_context, store, match.moved, commits, PassedIn(match, store), safe, usable, bound)
    BY <1>5
  <2> HIDE DEF n, new, commits
  <2>4. /\ AreRows(new)
        /\ Kept(match.require_context, new, match.moved \cup {id}, commits + 1, PassedIn(n, new), safe, usable, bound)
    BY <2>1, <2>2, <2>3, CommitKeeps
  <2>. QED
    BY <2>4 DEF n, new, commits
<1>6. /\ AreRows(store')
      /\ Kept(match.require_context, store', match.moved \cup {id}, match.commits + 1, PassedIn(match', store'), match.safe, TRUE, MatchLimit)
      /\ Kept(match.require_context, store', match.moved \cup {id}, match.commits + 1, PassedIn(match', store'), match.fallback, FALSE, CandidateLimit)
  <2>1. /\ Kept(match.require_context, store, match.moved, match.commits, PassedIn(match, store), match.safe, TRUE, MatchLimit)
        /\ Kept(match.require_context, store, match.moved, match.commits, PassedIn(match, store), match.fallback, FALSE, CandidateLimit)
    BY <1>2 DEF Progress
  <2>. QED
    BY <1>5, <2>1
<1>7. Progress(match', store')
  BY <1>2, <1>3, <1>4, <1>6 DEF Progress
<1>. QED
  BY <1>3, <1>6, <1>7 DEF MatchInv, MatchGood

LEMMA MatchReads ==
  ASSUME MatchInv, ReadPage
  PROVE  MatchInv'
<1>. DEFINE page == Page(match.scan)
            safe == Retain(match.safe, page, TRUE, MatchLimit)
            fallback == Retain(match.fallback, page, FALSE, CandidateLimit)
            scan_ends == Full(safe) \/ Len(page) < PageSize
            ends == Full(safe) \/ (scan_ends /\ match.scan = "fuzzy")
            seen == PassedIn(match, store) \cup Members(page)
            c == match.require_context
<1>1. /\ match.pc = "scan" /\ store' = store
      /\ match' = [match EXCEPT
          !.safe = safe, !.fallback = fallback,
          !.after = IF scan_ends THEN <<>> ELSE Rank(store, Last(page)),
          !.scan = IF scan_ends THEN (IF @ = "ice" THEN "exact" ELSE "fuzzy") ELSE @,
          !.pc = IF ends THEN "done" ELSE "scan",
          !.result = IF ends THEN Finish(safe, fallback) ELSE <<>>]
  BY DEF ReadPage
<1>2. match \in MatchState /\ AreRows(store) /\ Progress(match, store) /\ (match.commits = 0 => match.moved = {})
  BY <1>1 DEF MatchInv, MatchGood
<1>3. Scanning(match) /\ c \in BOOLEAN
  BY <1>2 DEF Progress, Scanning
<1>4. Taken(match, store, page)
  BY <1>2, <1>3, PageIsTaken
<1>. HIDE DEF page
<1>5. /\ page \in Seq(DOMAIN store) /\ seen \subseteq DOMAIN store
      /\ \A x \in PassedIn(match, store), k \in 1..Len(page) : <<x, page[k]>> \in InOrder(c, store)
      /\ \A x \in seen, y \in DOMAIN store \ seen : <<x, y>> \in InOrder(c, store)
      /\ \A x \in seen : Matching(x) /\ Phase(c, x) <= Number(match.scan)
      /\ Len(page) < PageSize =>
           \A x \in DOMAIN store : Phase(c, x) <= Number(match.scan) => x \in seen
  BY <1>2, <1>3, <1>4, ReadFirst
<1>6. PassedIn(match, store) \subseteq DOMAIN store /\ Chain(page, InOrder(c, store)) /\ MatchLimit \in Nat /\ CandidateLimit \in Nat
  BY <1>4, PassedAreIn, SizesAreNumbers DEF Taken
<1>7. Kept(c, store, match.moved, match.commits, seen, safe, TRUE, MatchLimit)
  BY <1>2, <1>3, <1>5, <1>6, KeptGrows DEF Progress
<1>8. Kept(c, store, match.moved, match.commits, seen, fallback, FALSE, CandidateLimit)
  BY <1>2, <1>3, <1>5, <1>6, KeptGrows DEF Progress
<1>. HIDE DEF safe, fallback, seen
<1>9. safe \in Seq(Candidates) /\ fallback \in Seq(Candidates) /\ Len(safe) \in Nat /\ Len(safe) <= MatchLimit
  <2>1. seen \subseteq Candidates
    BY <1>2, <1>5 DEF AreRows
  <2>2. safe \in Seq(seen) /\ fallback \in Seq(seen) /\ Len(safe) <= MatchLimit
    BY <1>7, <1>8 DEF Kept
  <2>. QED
    BY <2>1, <2>2, SeqOfMore
<1>10. Full(safe) <=> Len(safe) = MatchLimit
  BY <1>6, <1>9 DEF Full
<1>11. CASE ends
  <2>1. Shape(seen, safe, fallback, Finish(safe, fallback))
    BY <1>2, <1>5, <1>7, <1>8, ResultShape
  <2>2. Finish(safe, fallback) \in Seq(Candidates)
    BY <2>1 DEF Shape
  <2>3. Covered(store, seen, safe)
    <3>1. CASE match.scan = "fuzzy" /\ Len(page) < PageSize
      BY <1>5, <3>1, PhaseIs DEF Number, Covered
    <3>. QED
      BY <1>10, <1>11, <3>1 DEF Covered
  <2>4. /\ match' \in MatchState /\ match'.pc = "done" /\ match'.result = Finish(safe, fallback)
        /\ match'.commits = match.commits /\ match'.moved = match.moved /\ match'.require_context = c
    <3>. DEFINE next_scan == IF scan_ends THEN (IF match.scan = "ice" THEN "exact" ELSE "fuzzy") ELSE match.scan
    <3>1. scan_ends
      BY <1>11
    <3>2. next_scan \in Scans
      BY <1>2 DEF MatchState, Scans
    <3>3. match' = With(match, safe, fallback, <<>>, next_scan, "done", Finish(safe, fallback))
      BY <1>1, <1>11, <3>1, Zenon DEF With
    <3>4. <<>> \in Cursors
      BY DEF Cursors
    <3>. HIDE DEF next_scan
    <3>. QED
      BY <1>2, <1>9, <2>2, <3>2, <3>3, <3>4, WithIs
  <2>5. match.commits = 0 => Finish(safe, fallback) = Expected(c, store)
    <3>. SUFFICES ASSUME match.commits = 0
                  PROVE  Finish(safe, fallback) = Expected(c, store)
      OBVIOUS
    <3>1. KeptStill(c, store, seen, safe, TRUE, MatchLimit)
      BY <1>2, <1>7 DEF KeptStill
    <3>2. KeptStill(c, store, seen, fallback, FALSE, CandidateLimit)
      BY <1>2, <1>8 DEF KeptStill
    <3>3. Downward(c, store, seen)
      BY <1>5 DEF Downward
    <3>4. AreRows(store)
      BY <1>2
    <3>5. IsFlag(c)
      BY <1>3 DEF IsFlag
    <3>. HIDE DEF c
    <3>. QED
      BY <2>3, <3>1, <3>2, <3>3, <3>4, <3>5, ResultIsBest
  <2>6. NoneSkipped(store, match.moved, Finish(safe, fallback))
    BY <1>2, <1>5, <1>7, <1>8, <2>3, ResultIsSound
  <2>7. Answer(match', store)
    BY <2>4, <2>5, <2>6 DEF Answer
  <2>. QED
    BY <1>1, <1>2, <2>4, <2>7 DEF MatchInv, MatchGood
<1>12. CASE ~ends
  <2>1. Len(safe) < MatchLimit
    BY <1>6, <1>9, <1>10, <1>12
  <2>2. CASE Len(page) < PageSize
    <3>. DEFINE next_scan == IF match.scan = "ice" THEN "exact" ELSE "fuzzy"
    <3>1. match.scan # "fuzzy" /\ scan_ends
      BY <1>12, <2>2
    <3>2. next_scan \in Scans /\ next_scan # "ice" /\ <<>> \in Cursors
      BY DEF Scans, Cursors
    <3>3. match' = With(match, safe, fallback, <<>>, next_scan, "scan", <<>>)
      BY <1>1, <1>12, <3>1, Zenon DEF With
    <3>. HIDE DEF next_scan
    <3>4. /\ match' \in MatchState /\ match'.pc = "scan" /\ match'.safe = safe /\ match'.fallback = fallback
          /\ match'.after = <<>> /\ match'.scan = next_scan
          /\ match'.commits = match.commits /\ match'.moved = match.moved /\ match'.require_context = c
      <4>1. match \in MatchState /\ <<>> \in Seq(Candidates) /\ next_scan \in Scans /\ <<>> \in Cursors
        BY <1>2, <3>2
      <4>2. safe \in Seq(Candidates) /\ fallback \in Seq(Candidates)
        BY <1>9
      <4>. QED
        BY <3>3, <4>1, <4>2 DEF MatchState, With
    <3>5. PassedIn(match', store) = seen
      BY <1>2, <1>3, <1>4, <2>2, <3>1, <3>4, ScanEnds DEF next_scan, seen
    <3>6. Scanning(match')
      BY <1>3, <3>2, <3>4 DEF Scanning
    <3>7. Progress(match', store)
      BY <1>7, <1>8, <2>1, <3>4, <3>5, <3>6 DEF Progress
    <3>. QED
      BY <1>1, <1>2, <3>4, <3>7 DEF MatchInv, MatchGood
  <2>3. CASE ~(Len(page) < PageSize)
    <3>. DEFINE after == Rank(store, page[Len(page)])
    <3>1. ~scan_ends
      BY <1>12, <2>3
    <3>2. Len(page) = PageSize
      <4>1. Len(page) \in Nat /\ Len(page) <= PageSize
        BY <1>4, <1>5 DEF Taken
      <4>. QED
        BY <2>3, <4>1, SizesAreNumbers
    <3>3. match' = With(match, safe, fallback, after, match.scan, "scan", <<>>)
      BY <1>1, <1>12, <3>1, Zenon DEF Last, With
    <3>. HIDE DEF after
    <3>4. /\ match'.pc = "scan" /\ match'.safe = safe /\ match'.fallback = fallback
          /\ match'.after = after /\ match'.scan = match.scan
          /\ match'.commits = match.commits /\ match'.moved = match.moved /\ match'.require_context = c
      BY <1>2, <3>3 DEF MatchState, With
    <3>5. PassedIn(match', store) = seen /\ after \in Cursors
      BY <1>2, <1>3, <1>4, <3>2, <3>4, CursorMoves DEF after, seen
    <3>6. match' \in MatchState
      <4>1. <<>> \in Seq(Candidates) /\ match.scan \in Scans
        BY <1>2 DEF MatchState
      <4>. QED
        BY <1>2, <1>9, <3>3, <3>5, <4>1, WithIs
    <3>7. Scanning(match')
      BY <1>3, <3>4, <3>5 DEF Scanning
    <3>8. Progress(match', store)
      BY <1>7, <1>8, <2>1, <3>4, <3>5, <3>7 DEF Progress
    <3>. QED
      BY <1>1, <1>2, <3>4, <3>6, <3>8 DEF MatchInv, MatchGood
  <2>. QED
    BY <2>2, <2>3
<1>. QED
  BY <1>11, <1>12

\* The invariant answers for the result.
LEMMA MatchAnswers ==
  ASSUME MatchInv
  PROVE  MatchIsSound
<1>. SUFFICES ASSUME match.pc = "done"
              PROVE  MatchIsSound
  BY DEF MatchIsSound, MatchIsTopK, PagingIsSound, Done
<1>1. Answer(match, store) /\ match.result \in Seq(Candidates)
  BY DEF MatchInv, MatchGood, MatchState
<1>2. ToSet(match.result) = Members(match.result)
  BY <1>1 DEF ToSet, Members
<1>3. IsInjective(match.result)
  BY <1>1 DEF IsInjective, Answer, NoneSkipped
<1>4. MatchIsTopK
  BY <1>1 DEF MatchIsTopK, Answer
<1>5. PagingIsSound
  BY <1>1, <1>2, <1>3 DEF PagingIsSound, Answer, NoneSkipped, Members
<1>. QED
  BY <1>4, <1>5 DEF MatchIsSound

\* In every behaviour what a call kept of the rows its scans have passed is what the order of
\* the scans puts first, usable rows and others apart (db/operations.py, _BoundedMatchResults);
\* only rows that a load committed meanwhile may be missing.
THEOREM MatchInvariant ==
  Spec => []MatchInv
<1>1. Init => MatchInv
  BY MatchInit
<1>2. MatchInv /\ [Next]_vars => MatchInv'
  <2>. SUFFICES ASSUME MatchInv, [Next]_vars PROVE MatchInv'
    OBVIOUS
  <2>1. CASE UNCHANGED vars
    BY <2>1 DEF vars, MatchInv
  <2>. QED
    BY <2>1, MatchCall, MatchReads, MatchCommits DEF Next
<1>. QED
  BY <1>1, <1>2, PTL DEF Spec

\* A match that no commit overlaps returns the best rows of the memory, best first, and one
\* that loads overlap returns no row twice and skips none that they left alone.
THEOREM MatchSound ==
  Spec => []MatchIsSound
<1>1. MatchInv => MatchIsSound
  BY MatchAnswers
<1>. QED
  BY <1>1, MatchInvariant, PTL

-----------------------------------------------------------------------------
(***************************************************************************)
(* The inductive invariant of a stream t, which holds a connection or not. *)
(***************************************************************************)
Reading == {"connect", "execute", "fetch", "children"}
Closing == {"exit_cursor", "exit_connection"}

StreamState ==
  [pc : {"idle"} \cup Reading \cup Closing, closed : BOOLEAN, context : BOOLEAN, cursor : BOOLEAN,
   aborted : BOOLEAN, position : Nat, rows : Seq(Nat), pending : Seq(Nat), delivered : Seq(Nat),
   ended : BOOLEAN, disturbed : BOOLEAN, leaving : BOOLEAN, spoiled : BOOLEAN]

\* The connection: a context that was entered is there to be left, and a stream closes
\* by leaving it.
Handles(t, holds) ==
  /\ holds => t.context
  /\ t.cursor => t.context
  /\ t.pc \in Reading => ~t.closed
  /\ t.pc \in Closing => t.closed
  /\ holds /\ t.closed /\ ~t.spoiled => t.pc \in Closing
  /\ t.pc = "exit_connection" => ~t.cursor

\* The rows that were fetched and not dropped are, in order: those delivered, those
\* pending, and those whose children are being read.
Fetched(t) == t.delivered \o t.pending \o t.rows

Increasing(recs, last) ==
  /\ \A i \in DOMAIN recs : recs[i] <= last
  /\ \A i, j \in DOMAIN recs : i < j => recs[i] < recs[j]

UpToRow(n) == [i \in 1..n |-> i]

Delivery(t) ==
  /\ t.position <= CursorRows
  /\ t.pc \in Reading \/ t.leaving => t.pending = <<>>
  /\ t.rows # <<>> <=> t.pc = "children"
  /\ Increasing(Fetched(t), t.position)
  /\ ~t.disturbed => Fetched(t) = UpToRow(t.position)
  /\ t.leaving => t.closed /\ t.position = CursorRows
  /\ t.aborted => t.disturbed

Good(t, holds) == t \in StreamState /\ Handles(t, holds) /\ Delivery(t)

StreamInv ==
  /\ stream \in [Streams -> StreamState]
  /\ held \subseteq Streams
  /\ \A s \in Streams : Good(stream[s], s \in held)

-----------------------------------------------------------------------------
(***************************************************************************)
(* Sequences of rows.                                                      *)
(***************************************************************************)
LEMMA HeadMoves ==
  ASSUME NEW a \in Seq(Nat), NEW b \in Seq(Nat), b # <<>>
  PROVE  /\ Append(a, Head(b)) \o Tail(b) = a \o b
         /\ Append(a, Head(b)) \in Seq(Nat) /\ Tail(b) \in Seq(Nat)
  <1>1. /\ Len(a) \in Nat /\ Len(b) \in Nat /\ Len(b) > 0
        /\ Head(b) = b[1] /\ Head(b) \in Nat
        /\ Tail(b) \in Seq(Nat) /\ Len(Tail(b)) = Len(b) - 1
        /\ \A i \in 1..Len(b) - 1 : Tail(b)[i] = b[i + 1]
    OBVIOUS
  <1>2. /\ Append(a, Head(b)) \in Seq(Nat) /\ Len(Append(a, Head(b))) = Len(a) + 1
        /\ \A i \in 1..Len(a) : Append(a, Head(b))[i] = a[i]
        /\ Append(a, Head(b))[Len(a) + 1] = b[1]
    BY <1>1
  <1> DEFINE l == Append(a, Head(b)) \o Tail(b)
             r == a \o b
  <1>3. l \in Seq(Nat) /\ r \in Seq(Nat) /\ Len(l) = Len(a) + Len(b) /\ Len(r) = Len(a) + Len(b)
    BY <1>1, <1>2
  <1>4. ASSUME NEW i \in 1..Len(a) + Len(b) PROVE l[i] = r[i]
    <2>1. CASE i <= Len(a)
      BY <1>1, <1>2, <2>1
    <2>2. CASE i = Len(a) + 1
      BY <1>1, <1>2, <2>2
    <2>3. CASE i > Len(a) + 1
      BY <1>1, <1>2, <2>3
    <2> QED BY <1>1, <2>1, <2>2, <2>3
  <1> HIDE DEF l, r
  <1>5. l = r
    BY <1>3, <1>4, SeqEqual
  <1> QED BY <1>1, <1>2, <1>5 DEF l, r

LEMMA EmptyTail ==
  ASSUME NEW a \in Seq(Nat)
  PROVE  a \o <<>> = a /\ <<>> \in Seq(Nat)
  OBVIOUS

\* The next rows of the cursor after those up to n
LEMMA MoreRows ==
  ASSUME NEW a \in Seq(Nat), NEW n \in Nat, NEW k \in Nat, Increasing(a, n)
  PROVE  LET b == [i \in 1..k |-> n + i]
         IN /\ b \in Seq(Nat) /\ Increasing(a \o b, n + k)
            /\ a = UpToRow(n) => a \o b = UpToRow(n + k)
  <1> DEFINE b == [i \in 1..k |-> n + i]
             c == a \o b
  <1>1. b \in Seq(Nat) /\ Len(b) = k /\ \A i \in 1..k : b[i] = n + i
    OBVIOUS
  <1>2. /\ c \in Seq(Nat) /\ Len(c) = Len(a) + k /\ Len(a) \in Nat
        /\ \A i \in 1..Len(a) : c[i] = a[i]
        /\ \A i \in Len(a) + 1..Len(a) + k : c[i] = n + (i - Len(a))
    BY <1>1
  <1> DEFINE l == Len(a)
  <1>3. l \in Nat /\ DOMAIN c = 1..l + k /\ DOMAIN a = 1..l
    BY <1>2
  <1>4. /\ \A i \in 1..l : c[i] = a[i] /\ a[i] \in Nat /\ a[i] <= n
        /\ \A i, j \in 1..l : i < j => a[i] < a[j]
        /\ \A i \in l + 1..l + k : c[i] = n + (i - l)
    BY <1>2, <1>3, SMTT(30) DEF Increasing
  <1> HIDE DEF c, b, l
  <1>5. \A i \in 1..l + k : c[i] <= n + k
    <2> TAKE i \in 1..l + k
    <2>1. CASE i <= l
      <3>1. i \in 1..l
        BY <1>3, <2>1
      <3>2. c[i] \in Nat /\ c[i] <= n
        BY <1>4, <3>1
      <3> QED BY <3>2
    <2>2. CASE i > l
      <3>1. i \in l + 1..l + k
        BY <1>3, <2>2
      <3>2. c[i] = n + (i - l)
        BY <1>4, <3>1
      <3> QED BY <1>3, <3>1, <3>2
    <2> QED BY <1>3, <2>1, <2>2
  <1>6. \A i, j \in 1..l + k : i < j => c[i] < c[j]
    <2> SUFFICES ASSUME NEW i \in 1..l + k, NEW j \in 1..l + k, i < j PROVE c[i] < c[j]
      OBVIOUS
    <2>1. CASE j <= l
      <3>1. i \in 1..l /\ j \in 1..l
        BY <1>3, <2>1
      <3> QED BY <1>4, <3>1
    <2>2. CASE i <= l /\ j > l
      <3>1. i \in 1..l /\ j \in l + 1..l + k
        BY <1>3, <2>2
      <3>2. c[i] \in Nat /\ c[i] <= n /\ c[j] = n + (j - l)
        BY <1>4, <3>1
      <3> QED BY <1>3, <3>1, <3>2
    <2>3. CASE i > l
      <3>1. i \in l + 1..l + k /\ j \in l + 1..l + k
        BY <1>3, <2>3
      <3>2. c[i] = n + (i - l) /\ c[j] = n + (j - l)
        BY <1>4, <3>1
      <3> QED BY <1>3, <3>1, <3>2
    <2> QED BY <1>3, <2>1, <2>2, <2>3
  <1>7. ASSUME a = UpToRow(n) PROVE c = UpToRow(n + k)
    <2>1. Len(a) = n /\ \A i \in 1..n : a[i] = i
      BY <1>7 DEF UpToRow
    <2>2. /\ UpToRow(n + k) \in Seq(Nat) /\ Len(UpToRow(n + k)) = n + k
          /\ \A i \in 1..n + k : UpToRow(n + k)[i] = i
      BY DEF UpToRow
    <2>3. \A i \in 1..n + k : c[i] = i
      BY <1>2, <2>1
    <2> QED BY <1>2, <2>1, <2>2, <2>3, SeqEqual
  <1>8. Increasing(c, n + k)
    BY <1>3, <1>5, <1>6 DEF Increasing
  <1> QED BY <1>1, <1>7, <1>8 DEF c, b

LEMMA Prefix ==
  ASSUME NEW a \in Seq(Nat), NEW b \in Seq(Nat), NEW n \in Nat, Increasing(a \o b, n)
  PROVE  Increasing(a, n)
  <1> DEFINE c == a \o b
  <1>1. DOMAIN a \subseteq DOMAIN c /\ \A i \in DOMAIN a : c[i] = a[i]
    OBVIOUS
  <1> HIDE DEF c
  <1>2. Increasing(c, n)
    BY DEF c
  <1> QED BY <1>1, <1>2 DEF Increasing

\* What is read further does not take back the order.
LEMMA FurtherOn ==
  ASSUME NEW a \in Seq(Nat), NEW m \in Nat, NEW n \in Nat, m <= n, Increasing(a, m)
  PROVE  Increasing(a, n)
  BY DEF Increasing

-----------------------------------------------------------------------------
(***************************************************************************)
(* The steps of one stream, t becoming u.                                  *)
(***************************************************************************)
\* The rows of t, by their parts
LEMMA RowsAre ==
  ASSUME NEW t \in StreamState, Delivery(t)
  PROVE  /\ t.delivered \in Seq(Nat) /\ t.pending \in Seq(Nat) /\ t.rows \in Seq(Nat) /\ t.position \in Nat
         /\ t.delivered \o t.pending \in Seq(Nat)
         /\ t.pc # "children" => t.rows = <<>> /\ Fetched(t) = t.delivered \o t.pending
         /\ t.pc \in Reading => t.pending = <<>> /\ Fetched(t) = t.delivered \o t.rows
  <1>1. t.delivered \in Seq(Nat) /\ t.pending \in Seq(Nat) /\ t.rows \in Seq(Nat) /\ t.position \in Nat
    BY DEF StreamState
  <1>2. t.delivered \o t.pending \in Seq(Nat)
    BY <1>1
  <1>3. (t.delivered \o t.pending) \o <<>> = t.delivered \o t.pending /\ t.delivered \o <<>> = t.delivered
    BY <1>1, <1>2, EmptyTail
  <1> QED BY <1>1, <1>2, <1>3 DEF Delivery, Fetched

\* A step that leaves the rows alone keeps their order.
LEMMA SameRows ==
  ASSUME NEW t \in StreamState, Delivery(t), NEW u,
         u.delivered = t.delivered, u.pending = t.pending, u.rows = t.rows, u.position = t.position,
         u.disturbed = t.disturbed, u.aborted = t.aborted, u.leaving = t.leaving,
         t.closed => u.closed, u.pc = "children" <=> t.pc = "children", u.pc \in Reading => t.pending = <<>>
  PROVE  Delivery(u)
  <1>1. Fetched(u) = Fetched(t)
    BY DEF Fetched
  <1> QED BY <1>1 DEF Delivery

LEMMA CallNextGood ==
  ASSUME NEW t \in StreamState, NEW h \in BOOLEAN, Handles(t, h), Delivery(t), t.pc = "idle",
         NEW u, \/ t.closed /\ u = [t EXCEPT !.ended = TRUE]
                \/ /\ ~t.closed /\ t.pending # <<>>
                   /\ u = [t EXCEPT !.pending = Tail(@), !.delivered = Append(@, Head(t.pending))]
                \/ /\ ~t.closed /\ t.pending = <<>>
                   /\ u = [t EXCEPT !.rows = <<>>, !.pc = IF t.cursor THEN "fetch" ELSE "connect"]
  PROVE  Good(u, h)
  <1>1. CASE t.closed /\ u = [t EXCEPT !.ended = TRUE]
    <2>1. u \in StreamState /\ Handles(u, h)
      BY <1>1 DEF StreamState, Handles
    <2>2. Delivery(u)
      BY <1>1, SameRows DEF StreamState, Reading
    <2> QED BY <2>1, <2>2 DEF Good
  <1>2. CASE /\ ~t.closed /\ t.pending # <<>>
             /\ u = [t EXCEPT !.pending = Tail(@), !.delivered = Append(@, Head(t.pending))]
    <2>1. /\ t.delivered \in Seq(Nat) /\ t.pending \in Seq(Nat)
          /\ t.rows = <<>> /\ Fetched(t) = t.delivered \o t.pending
      BY RowsAre
    <2>2. /\ Append(t.delivered, Head(t.pending)) \o Tail(t.pending) = t.delivered \o t.pending
          /\ Append(t.delivered, Head(t.pending)) \in Seq(Nat) /\ Tail(t.pending) \in Seq(Nat)
      BY <1>2, <2>1, HeadMoves
    <2>3. /\ u.pending = Tail(t.pending) /\ u.delivered = Append(t.delivered, Head(t.pending)) /\ u.rows = <<>>
          /\ u.pc = "idle" /\ u.closed = t.closed /\ u.context = t.context /\ u.cursor = t.cursor
          /\ u.spoiled = t.spoiled /\ u.position = t.position /\ u.disturbed = t.disturbed
          /\ u.leaving = t.leaving /\ u.aborted = t.aborted
      BY <1>2, <2>1 DEF StreamState
    <2>4. u \in StreamState
      BY <1>2, <2>2 DEF StreamState
    <2>5. Handles(u, h)
      BY <2>3 DEF Handles
    <2>6. Fetched(u) = Fetched(t)
      <3>1. (t.delivered \o t.pending) \o <<>> = t.delivered \o t.pending
        BY <2>1, RowsAre, EmptyTail
      <3> QED BY <2>1, <2>2, <2>3, <3>1 DEF Fetched
    <2>7. Delivery(u)
      BY <1>2, <2>3, <2>6 DEF Delivery, Reading
    <2> QED BY <2>4, <2>5, <2>7 DEF Good
  <1>3. CASE /\ ~t.closed /\ t.pending = <<>>
             /\ u = [t EXCEPT !.rows = <<>>, !.pc = IF t.cursor THEN "fetch" ELSE "connect"]
    <2>1. t.rows = <<>>
      BY RowsAre
    <2>2. u \in StreamState /\ Handles(u, h)
      BY <1>3 DEF StreamState, Handles, Reading, Closing
    <2>3. Delivery(u)
      BY <1>3, <2>1, SameRows DEF StreamState
    <2> QED BY <2>2, <2>3 DEF Good
  <1> QED BY <1>1, <1>2, <1>3

LEMMA ConnectGood ==
  ASSUME NEW t \in StreamState, NEW h \in BOOLEAN, Handles(t, h), Delivery(t), t.pc = "connect",
         NEW u, u = [t EXCEPT !.context = TRUE, !.cursor = TRUE, !.pc = "execute"]
  PROVE  Good(u, TRUE)
  <1>1. u \in StreamState /\ Handles(u, TRUE)
    BY DEF StreamState, Handles, Reading, Closing
  <1>2. Delivery(u)
    <2>1. t.pending = <<>>
      BY DEF Delivery, Reading
    <2> QED BY <2>1, SameRows DEF StreamState
  <1> QED BY <1>1, <1>2 DEF Good

LEMMA ExecuteGood ==
  ASSUME NEW t \in StreamState, NEW h \in BOOLEAN, Handles(t, h), Delivery(t), t.pc = "execute",
         NEW u, u = [t EXCEPT !.pc = "fetch"]
  PROVE  Good(u, h)
  <1>1. u \in StreamState /\ Handles(u, h)
    BY DEF StreamState, Handles, Reading, Closing
  <1>2. Delivery(u)
    <2>1. t.pending = <<>>
      BY DEF Delivery, Reading
    <2> QED BY <2>1, SameRows DEF StreamState
  <1> QED BY <1>1, <1>2 DEF Good

\* A batch is the next rows of the cursor; an empty one is the end.
Fetches(t, n, u) ==
  \/ t.aborted /\ u = [t EXCEPT !.pc = "idle"]
  \/ ~t.aborted /\ n = 0 /\ u = [t EXCEPT !.closed = TRUE, !.pc = "exit_cursor", !.leaving = TRUE]
  \/ /\ ~t.aborted /\ n # 0
     /\ u = [t EXCEPT !.position = @ + n, !.rows = [i \in 1..n |-> t.position + i], !.pc = "children"]

LEMMA FetchGood ==
  ASSUME Stream!SizesAssumption, NEW t \in StreamState, NEW h \in BOOLEAN, Handles(t, h), Delivery(t), t.pc = "fetch",
         NEW n, n = IF CursorRows - t.position < BatchSize THEN CursorRows - t.position ELSE BatchSize,
         NEW u, Fetches(t, n, u)
  PROVE  Good(u, h)
  <1>1. CASE t.aborted /\ u = [t EXCEPT !.pc = "idle"]
    <2>1. u \in StreamState /\ Handles(u, h)
      BY <1>1 DEF StreamState, Handles, Reading, Closing
    <2>2. Delivery(u)
      BY <1>1, SameRows DEF StreamState, Reading
    <2> QED BY <2>1, <2>2 DEF Good
  <1>2. t.position \in Nat /\ t.position <= CursorRows /\ t.pending = <<>> /\ t.rows = <<>> /\ t.delivered \in Seq(Nat)
        /\ ~t.closed /\ ~t.leaving
    BY RowsAre DEF Delivery, Handles, Reading
  <1>3. n \in Nat /\ t.position + n <= CursorRows /\ (n = 0 => t.position = CursorRows)
    BY <1>2 DEF Stream!SizesAssumption
  <1>4. CASE ~t.aborted /\ n = 0 /\ u = [t EXCEPT !.closed = TRUE, !.pc = "exit_cursor", !.leaving = TRUE]
    <2>1. u \in StreamState /\ Handles(u, h)
      BY <1>4 DEF StreamState, Handles, Reading, Closing
    <2>2. /\ u.pc = "exit_cursor" /\ u.closed /\ u.rows = t.rows /\ u.pending = <<>> /\ u.position = t.position
          /\ u.disturbed = t.disturbed /\ u.aborted = t.aborted /\ Fetched(u) = Fetched(t)
      BY <1>2, <1>4 DEF StreamState, Fetched
    <2>3. Delivery(u)
      BY <1>2, <1>3, <1>4, <2>2 DEF Delivery, Reading
    <2> QED BY <2>1, <2>3 DEF Good
  <1>5. CASE /\ ~t.aborted /\ n # 0
             /\ u = [t EXCEPT !.position = @ + n, !.rows = [i \in 1..n |-> t.position + i], !.pc = "children"]
    <2> DEFINE b == [i \in 1..n |-> t.position + i]
    <2>1. Fetched(t) = t.delivered \o <<>> /\ Fetched(t) = t.delivered
      BY <1>2, RowsAre, EmptyTail DEF Reading
    <2>2. /\ b \in Seq(Nat) /\ Increasing(t.delivered \o b, t.position + n)
          /\ t.delivered = UpToRow(t.position) => t.delivered \o b = UpToRow(t.position + n)
      <3>1. Increasing(t.delivered, t.position)
        BY <2>1 DEF Delivery
      <3> QED BY <1>2, <1>3, <3>1, MoreRows
    <2>3. b # <<>>
      <3>1. Len(b) = n
        BY <1>3
      <3> HIDE DEF b
      <3> QED BY <1>5, <3>1
    <2> HIDE DEF b
    <2>4. u = [t EXCEPT !.position = @ + n, !.rows = b, !.pc = "children"]
      BY <1>5 DEF b
    <2>5. u \in StreamState /\ Handles(u, h)
      <3>1. u \in StreamState
        <4>1. t.position + n \in Nat /\ b \in Seq(Nat)
          BY <1>2, <1>3, <2>2
        <4> DEFINE m == t.position + n
        <4>2. u = [t EXCEPT !.position = m, !.rows = b, !.pc = "children"] /\ m \in Nat
          BY <2>4, <4>1
        <4> HIDE DEF m
        <4> QED BY <4>1, <4>2 DEF StreamState, Reading
      <3>2. u.pc = "children" /\ ~u.closed /\ u.context = t.context /\ u.cursor = t.cursor
        BY <1>2, <2>4 DEF StreamState
      <3>3. Handles(u, h)
        BY <3>2, Zenon DEF Handles, Closing
      <3> QED BY <3>1, <3>3
    <2>6. /\ u.pc = "children" /\ u.rows = b /\ u.pending = <<>> /\ u.delivered = t.delivered
          /\ u.position = t.position + n
          /\ u.disturbed = t.disturbed /\ u.aborted = t.aborted /\ u.leaving = t.leaving
      BY <1>2, <2>4 DEF StreamState
    <2>7. Fetched(u) = t.delivered \o b
      BY <1>2, <2>6, EmptyTail DEF Fetched
    <2>8. Delivery(u)
      BY <1>2, <1>3, <2>1, <2>2, <2>3, <2>6, <2>7 DEF Delivery
    <2> QED BY <2>5, <2>8 DEF Good
  <1> QED BY <1>1, <1>4, <1>5 DEF Fetches

LEMMA ChildrenGood ==
  ASSUME NEW t \in StreamState, NEW h \in BOOLEAN, Handles(t, h), Delivery(t), t.pc = "children",
         NEW u, \/ t.aborted /\ u = [t EXCEPT !.pc = "idle", !.rows = <<>>]
                \/ /\ ~t.aborted
                   /\ u = [t EXCEPT !.pc = "idle", !.rows = <<>>, !.pending = Tail(t.rows),
                                    !.delivered = Append(@, Head(t.rows))]
  PROVE  Good(u, h)
  <1>1. /\ t.delivered \in Seq(Nat) /\ t.rows \in Seq(Nat) /\ t.rows # <<>> /\ t.pending = <<>>
        /\ Fetched(t) = t.delivered \o t.rows /\ t.position \in Nat /\ ~t.closed /\ ~t.leaving
    BY RowsAre DEF Delivery, Handles, Reading
  <1>2. CASE t.aborted /\ u = [t EXCEPT !.pc = "idle", !.rows = <<>>]
    <2>1. u \in StreamState /\ Handles(u, h)
      <3>1. u \in StreamState
        BY <1>2, EmptyTail DEF StreamState
      <3>2. u.pc = "idle" /\ ~u.closed /\ u.context = t.context /\ u.cursor = t.cursor
        BY <1>1, <1>2 DEF StreamState
      <3>3. Handles(u, h)
        BY <3>2 DEF Handles, Reading, Closing
      <3> QED BY <3>1, <3>3
    <2>2. /\ u.pc = "idle" /\ u.rows = <<>> /\ u.pending = <<>> /\ u.delivered = t.delivered
          /\ u.position = t.position
          /\ u.disturbed = t.disturbed /\ u.aborted = t.aborted /\ u.leaving = t.leaving
      BY <1>1, <1>2 DEF StreamState
    <2>3. Fetched(u) = t.delivered
      BY <1>1, <2>2, EmptyTail DEF Fetched
    <2>4. Increasing(t.delivered, t.position)
      BY <1>1, Prefix DEF Delivery
    <2>5. Delivery(u)
      BY <1>1, <1>2, <2>2, <2>3, <2>4 DEF Delivery, Reading
    <2> QED BY <2>1, <2>5 DEF Good
  <1>3. CASE /\ ~t.aborted
             /\ u = [t EXCEPT !.pc = "idle", !.rows = <<>>, !.pending = Tail(t.rows),
                              !.delivered = Append(@, Head(t.rows))]
    <2>1. /\ Append(t.delivered, Head(t.rows)) \o Tail(t.rows) = t.delivered \o t.rows
          /\ Append(t.delivered, Head(t.rows)) \in Seq(Nat) /\ Tail(t.rows) \in Seq(Nat)
      BY <1>1, HeadMoves
    <2>2. u \in StreamState /\ Handles(u, h)
      <3>1. u \in StreamState
        BY <1>3, <2>1, EmptyTail DEF StreamState
      <3>2. u.pc = "idle" /\ ~u.closed /\ u.context = t.context /\ u.cursor = t.cursor
        BY <1>1, <1>3 DEF StreamState
      <3>3. Handles(u, h)
        BY <3>2 DEF Handles, Reading, Closing
      <3> QED BY <3>1, <3>3
    <2>3. /\ u.pc = "idle" /\ u.rows = <<>> /\ u.pending = Tail(t.rows)
          /\ u.delivered = Append(t.delivered, Head(t.rows)) /\ u.position = t.position
          /\ u.disturbed = t.disturbed /\ u.aborted = t.aborted /\ u.leaving = t.leaving
      BY <1>3 DEF StreamState
    <2>4. Fetched(u) = Fetched(t)
      <3>1. t.delivered \o t.rows \in Seq(Nat)
        BY <1>1
      <3>2. (t.delivered \o t.rows) \o <<>> = t.delivered \o t.rows
        BY <3>1, EmptyTail
      <3> QED BY <1>1, <2>1, <2>3, <3>2 DEF Fetched
    <2>5. Delivery(u)
      BY <1>1, <1>3, <2>3, <2>4 DEF Delivery, Reading
    <2> QED BY <2>2, <2>5 DEF Good
  <1> QED BY <1>2, <1>3

LEMMA CallCloseGood ==
  ASSUME NEW t \in StreamState, NEW h \in BOOLEAN, Handles(t, h), Delivery(t), t.pc = "idle", ~t.closed,
         NEW u, u = [t EXCEPT !.closed = TRUE, !.pc = IF t.cursor THEN "exit_cursor"
                                                      ELSE IF t.context THEN "exit_connection" ELSE "idle"]
  PROVE  Good(u, h)
  <1>1. u \in StreamState /\ Handles(u, h)
    BY DEF StreamState, Handles, Reading, Closing
  <1>2. Delivery(u)
    BY SameRows DEF StreamState, Reading
  <1> QED BY <1>1, <1>2 DEF Good

LEMMA ExitCursorGood ==
  ASSUME NEW t \in StreamState, NEW h \in BOOLEAN, Handles(t, h), Delivery(t), t.pc = "exit_cursor",
         NEW u, u = [t EXCEPT !.cursor = FALSE, !.pc = "exit_connection"]
  PROVE  Good(u, h)
  <1>1. u \in StreamState /\ Handles(u, h)
    BY DEF StreamState, Handles, Reading, Closing
  <1>2. Delivery(u)
    BY SameRows DEF StreamState, Reading
  <1> QED BY <1>1, <1>2 DEF Good

LEMMA ExitConnectionGood ==
  ASSUME NEW t \in StreamState, NEW h \in BOOLEAN, Handles(t, h), Delivery(t), t.pc = "exit_connection",
         NEW u, u = [t EXCEPT !.context = FALSE, !.pc = "idle", !.ended = t.leaving], ~t.cursor
  PROVE  Good(u, FALSE)
  <1>1. u \in StreamState /\ Handles(u, FALSE)
    BY DEF StreamState, Handles, Reading, Closing
  <1>2. Delivery(u)
    BY SameRows DEF StreamState, Reading
  <1> QED BY <1>1, <1>2 DEF Good

\* A failure leaves the connection where it was, unless the connection was being returned.
LEMMA DisturbGood ==
  ASSUME NEW t \in StreamState, NEW h \in BOOLEAN, Handles(t, h), Delivery(t), t.pc # "idle",
         NEW aborts \in BOOLEAN, NEW u,
         u = [t EXCEPT !.pc = "idle", !.rows = <<>>, !.disturbed = TRUE,
                       !.spoiled = @ \/ t.pc = "exit_cursor", !.context = @ \/ t.pc = "connect",
                       !.aborted = @ \/ aborts]
  PROVE  Good(u, IF t.pc = "exit_connection" THEN FALSE ELSE h)
  <1>1. /\ t.delivered \in Seq(Nat) /\ t.pending \in Seq(Nat) /\ t.rows \in Seq(Nat) /\ t.position \in Nat
        /\ t.delivered \o t.pending \in Seq(Nat)
    BY RowsAre
  <1>2. u \in StreamState
    <2> DEFINE spoiled == t.spoiled \/ t.pc = "exit_cursor"
               context == t.context \/ t.pc = "connect"
               aborted == t.aborted \/ aborts
    <2>1. spoiled \in BOOLEAN /\ context \in BOOLEAN /\ aborted \in BOOLEAN /\ <<>> \in Seq(Nat)
      BY <1>1, EmptyTail DEF StreamState
    <2>2. u = [t EXCEPT !.pc = "idle", !.rows = <<>>, !.disturbed = TRUE,
                        !.spoiled = spoiled, !.context = context, !.aborted = aborted]
      OBVIOUS
    <2> HIDE DEF spoiled, context, aborted
    <2> QED BY <2>1, <2>2, ZenonT(30) DEF StreamState
  <1>3. /\ u.pc = "idle" /\ u.rows = <<>> /\ u.disturbed = TRUE /\ u.closed = t.closed /\ u.cursor = t.cursor
        /\ u.pending = t.pending /\ u.delivered = t.delivered /\ u.position = t.position /\ u.leaving = t.leaving
        /\ u.context = (t.context \/ t.pc = "connect") /\ u.spoiled = (t.spoiled \/ t.pc = "exit_cursor")
    BY DEF StreamState
  <1>4. Handles(u, IF t.pc = "exit_connection" THEN FALSE ELSE h)
    BY <1>3 DEF Handles, Reading, Closing, StreamState
  <1>5. Fetched(u) = t.delivered \o t.pending
    BY <1>1, <1>3, EmptyTail DEF Fetched
  <1>6. Increasing(t.delivered \o t.pending, t.position)
    BY <1>1, Prefix DEF Delivery, Fetched
  <1>7. Delivery(u)
    BY <1>3, <1>5, <1>6 DEF Delivery, Reading
  <1> QED BY <1>2, <1>4, <1>7 DEF Good

LEMMA PartialFetchGood ==
  ASSUME Stream!SizesAssumption, NEW t \in StreamState, NEW h \in BOOLEAN, Handles(t, h), Delivery(t), t.pc = "fetch",
         t.position < CursorRows, NEW aborts \in BOOLEAN, NEW u,
         u = [t EXCEPT !.pc = "idle", !.position = @ + 1, !.disturbed = TRUE, !.aborted = aborts]
  PROVE  Good(u, h)
  <1>1. t.position \in Nat /\ t.position + 1 \in Nat /\ t.position + 1 <= CursorRows /\ t.delivered \o t.pending \in Seq(Nat)
        /\ Fetched(t) = t.delivered \o t.pending
    <2>1. t.position \in Nat /\ t.delivered \o t.pending \in Seq(Nat) /\ Fetched(t) = t.delivered \o t.pending
      BY RowsAre
    <2> QED BY <2>1 DEF Stream!SizesAssumption
  <1>2. u \in StreamState
    BY <1>1 DEF StreamState
  <1>3. /\ u.pc = "idle" /\ u.rows = t.rows /\ u.disturbed = TRUE /\ u.closed = t.closed /\ u.cursor = t.cursor
        /\ u.pending = t.pending /\ u.delivered = t.delivered /\ u.position = t.position + 1
        /\ u.leaving = t.leaving /\ u.context = t.context /\ u.spoiled = t.spoiled
    BY DEF StreamState
  <1>4. Handles(u, h)
    BY <1>3 DEF Handles, Reading, Closing
  <1>5. Fetched(u) = Fetched(t)
    BY <1>3 DEF Fetched
  <1>6. Increasing(Fetched(t), t.position + 1)
    <2>1. Fetched(t) \in Seq(Nat) /\ Increasing(Fetched(t), t.position) /\ t.position <= t.position + 1
      BY <1>1 DEF Delivery
    <2> QED BY <1>1, <2>1, FurtherOn
  <1>7. ~t.leaving /\ t.rows = <<>>
    BY DEF Delivery, Handles, Reading
  <1>8. Delivery(u)
    BY <1>1, <1>3, <1>5, <1>6, <1>7 DEF Delivery, Reading
  <1> QED BY <1>2, <1>4, <1>8 DEF Good

-----------------------------------------------------------------------------
(***************************************************************************)
(* The steps of the system.                                                *)
(***************************************************************************)
\* One stream moves, the others and what they hold stay.
LEMMA StreamMoves ==
  ASSUME StreamInv, NEW s \in Streams, NEW u, Stream!Goes(s, u), Good(u, s \in held'),
         held' \subseteq Streams, held' \ {s} = held \ {s}
  PROVE  StreamInv'
  <1>1. stream' = [stream EXCEPT ![s] = u]
    BY DEF Stream!Goes
  <1>2. stream' \in [Streams -> StreamState]
    BY <1>1 DEF StreamInv, Good
  <1>3. ASSUME NEW r \in Streams PROVE Good(stream'[r], r \in held')
    <2>1. CASE r = s
      BY <1>1, <2>1 DEF StreamInv
    <2>2. CASE r # s
      <3>1. stream'[r] = stream[r] /\ (r \in held' <=> r \in held)
        BY <1>1, <2>2 DEF StreamInv
      <3>2. (r \in held') = (r \in held)
        BY <3>1
      <3> QED BY <3>1, <3>2 DEF StreamInv
    <2> QED BY <2>1, <2>2
  <1> QED BY <1>2, <1>3 DEF StreamInv

LEMMA StepKeeps ==
  ASSUME Stream!SizesAssumption, StreamInv, NEW s \in Streams, Stream!Step(s)
  PROVE  StreamInv'
  <1> DEFINE t == stream[s]
             h == s \in held
  <1>1. t \in StreamState /\ h \in BOOLEAN /\ Handles(t, h) /\ Delivery(t) /\ held \subseteq Streams
    BY DEF StreamInv, Good
  <1>2. CASE Stream!CallNext(s)
    <2>1. PICK u : /\ Stream!Goes(s, u) /\ t.pc = "idle"
                   /\ \/ t.closed /\ u = [t EXCEPT !.ended = TRUE]
                      \/ /\ ~t.closed /\ t.pending # <<>>
                         /\ u = [t EXCEPT !.pending = Tail(@), !.delivered = Append(@, Head(t.pending))]
                      \/ /\ ~t.closed /\ t.pending = <<>>
                         /\ u = [t EXCEPT !.rows = <<>>, !.pc = IF t.cursor THEN "fetch" ELSE "connect"]
      <3>1. t.closed \in BOOLEAN
        BY <1>1 DEF StreamState
      <3> HIDE DEF Stream!Goes
      <3> QED BY <1>2, <3>1, Zenon DEF Stream!CallNext
    <2>2. held' = held
      BY <1>2 DEF Stream!CallNext, Stream!Quiet
    <2> HIDE DEF t, h
    <2>3. Good(u, h)
      BY <1>1, <2>1, CallNextGood
    <2> QED BY <1>1, <2>1, <2>2, <2>3, StreamMoves DEF h
  <1>3. CASE Stream!Connect(s)
    <2> DEFINE u == [t EXCEPT !.context = TRUE, !.cursor = TRUE, !.pc = "execute"]
    <2>1. t.pc = "connect" /\ Stream!Goes(s, u) /\ held' = held \cup {s}
      BY <1>3 DEF Stream!Connect
    <2> HIDE DEF t, h
    <2>2. Good(u, TRUE)
      BY <1>1, <2>1, ConnectGood
    <2>3. (s \in held') = TRUE
      BY <2>1
    <2> HIDE DEF u
    <2> QED BY <1>1, <2>1, <2>2, <2>3, StreamMoves
  <1>4. CASE Stream!Execute(s)
    <2> DEFINE u == [t EXCEPT !.pc = "fetch"]
    <2>1. t.pc = "execute" /\ Stream!Goes(s, u) /\ held' = held
      BY <1>4 DEF Stream!Execute, Stream!Quiet
    <2> HIDE DEF t, h
    <2>2. Good(u, h)
      BY <1>1, <2>1, ExecuteGood
    <2> HIDE DEF u
    <2> QED BY <1>1, <2>1, <2>2, StreamMoves DEF h
  <1>5. CASE Stream!Fetch(s)
    <2> DEFINE n == IF CursorRows - t.position < BatchSize THEN CursorRows - t.position ELSE BatchSize
    <2>1. PICK u : Stream!Goes(s, u) /\ t.pc = "fetch" /\ held' = held /\ Fetches(t, n, u)
      <3> HIDE DEF Stream!Goes
      <3> QED BY <1>5, Zenon DEF Stream!Fetch, Stream!Quiet, Fetches
    <2>0. n = IF CursorRows - t.position < BatchSize THEN CursorRows - t.position ELSE BatchSize
      OBVIOUS
    <2> HIDE DEF t, h, n
    <2>2. Good(u, h)
      BY <1>1, <2>1, <2>0, FetchGood
    <2> QED BY <1>1, <2>1, <2>2, StreamMoves DEF h
  <1>6. CASE Stream!Children(s)
    <2>1. PICK u : /\ Stream!Goes(s, u) /\ t.pc = "children" /\ held' = held
                   /\ \/ t.aborted /\ u = [t EXCEPT !.pc = "idle", !.rows = <<>>]
                      \/ /\ ~t.aborted
                         /\ u = [t EXCEPT !.pc = "idle", !.rows = <<>>, !.pending = Tail(t.rows),
                                          !.delivered = Append(@, Head(t.rows))]
      <3> HIDE DEF Stream!Goes
      <3> QED BY <1>6, Zenon DEF Stream!Children, Stream!Quiet
    <2> HIDE DEF t, h
    <2>2. Good(u, h)
      BY <1>1, <2>1, ChildrenGood
    <2> QED BY <1>1, <2>1, <2>2, StreamMoves DEF h
  <1>7. CASE Stream!CallClose(s)
    <2> DEFINE u == [t EXCEPT !.closed = TRUE, !.pc = IF t.cursor THEN "exit_cursor"
                                                      ELSE IF t.context THEN "exit_connection" ELSE "idle"]
    <2>1. t.pc = "idle" /\ ~t.closed /\ Stream!Goes(s, u) /\ held' = held
      BY <1>7 DEF Stream!CallClose, Stream!Quiet
    <2> HIDE DEF t, h
    <2>2. Good(u, h)
      BY <1>1, <2>1, CallCloseGood
    <2> HIDE DEF u
    <2> QED BY <1>1, <2>1, <2>2, StreamMoves DEF h
  <1>8. CASE Stream!ExitCursor(s)
    <2> DEFINE u == [t EXCEPT !.cursor = FALSE, !.pc = "exit_connection"]
    <2>1. t.pc = "exit_cursor" /\ Stream!Goes(s, u) /\ held' = held
      BY <1>8 DEF Stream!ExitCursor, Stream!Quiet
    <2> HIDE DEF t, h
    <2>2. Good(u, h)
      BY <1>1, <2>1, ExitCursorGood
    <2> HIDE DEF u
    <2> QED BY <1>1, <2>1, <2>2, StreamMoves DEF h
  <1>9. CASE Stream!ExitConnection(s)
    <2> DEFINE u == [t EXCEPT !.context = FALSE, !.pc = "idle", !.ended = t.leaving]
    <2>1. t.pc = "exit_connection" /\ Stream!Goes(s, u) /\ held' = held \ {s}
      BY <1>9 DEF Stream!ExitConnection
    <2> HIDE DEF t, h
    <2>2. Good(u, FALSE)
      <3>1. ~t.cursor
        BY <1>1, <2>1 DEF Handles
      <3> QED BY <1>1, <2>1, <3>1, ExitConnectionGood
    <2>3. (s \in held') = FALSE
      BY <2>1
    <2> HIDE DEF u
    <2> QED BY <1>1, <2>1, <2>2, <2>3, StreamMoves
  <1> QED BY <1>2, <1>3, <1>4, <1>5, <1>6, <1>7, <1>8, <1>9 DEF Stream!Step

LEMMA DisturbKeeps ==
  ASSUME Stream!SizesAssumption, StreamInv, NEW s \in Streams, Stream!Disturb(s) \/ Stream!PartialFetch(s)
  PROVE  StreamInv'
  <1> DEFINE t == stream[s]
             h == s \in held
  <1>1. t \in StreamState /\ h \in BOOLEAN /\ Handles(t, h) /\ Delivery(t) /\ held \subseteq Streams
    BY DEF StreamInv, Good
  <1>2. CASE Stream!Disturb(s)
    <2> DEFINE Left(aborts) ==
          [t EXCEPT !.pc = "idle", !.rows = <<>>, !.disturbed = TRUE,
                    !.spoiled = @ \/ t.pc = "exit_cursor", !.context = @ \/ t.pc = "connect",
                    !.aborted = @ \/ aborts]
    <2>1. PICK aborts \in BOOLEAN :
            /\ t.pc # "idle" /\ Stream!Goes(s, Left(aborts))
            /\ held' = IF t.pc = "exit_connection" THEN held \ {s} ELSE held
      BY <1>2 DEF Stream!Disturb
    <2> HIDE DEF t, h
    <2>2. Good(Left(aborts), IF t.pc = "exit_connection" THEN FALSE ELSE h)
      BY <1>1, <2>1, DisturbGood
    <2>3. (s \in held') = IF t.pc = "exit_connection" THEN FALSE ELSE h
      <3>1. CASE t.pc = "exit_connection"
        <4>1. held' = held \ {s}
          BY <2>1, <3>1
        <4>2. (s \in held') = FALSE
          BY <4>1
        <4> QED BY <3>1, <4>2, Zenon
      <3>2. CASE t.pc # "exit_connection"
        <4>1. held' = held
          BY <2>1, <3>2
        <4> QED BY <3>2, <4>1 DEF h
      <3> QED BY <3>1, <3>2
    <2>4. held' \subseteq Streams /\ held' \ {s} = held \ {s}
      BY <1>1, <2>1
    <2> HIDE DEF Left
    <2> QED BY <2>1, <2>2, <2>3, <2>4, StreamMoves
  <1>3. CASE Stream!PartialFetch(s)
    <2> DEFINE Left(aborts) ==
          [t EXCEPT !.pc = "idle", !.position = @ + 1, !.disturbed = TRUE, !.aborted = aborts]
    <2>1. PICK aborts \in BOOLEAN :
            t.pc = "fetch" /\ t.position < CursorRows /\ Stream!Goes(s, Left(aborts)) /\ held' = held
      BY <1>3 DEF Stream!PartialFetch
    <2> HIDE DEF t, h
    <2>2. Good(Left(aborts), h)
      BY <1>1, <2>1, PartialFetchGood
    <2> HIDE DEF Left
    <2> QED BY <1>1, <2>1, <2>2, StreamMoves DEF h
  <1> QED BY <1>2, <1>3

LEMMA StreamInit ==
  ASSUME Stream!SizesAssumption, Stream!Init
  PROVE  StreamInv
  <1>1. Stream!New \in StreamState /\ Handles(Stream!New, FALSE)
    BY DEF Stream!New, StreamState, Handles, Reading, Closing
  <1>2. Delivery(Stream!New)
    <2>1. Fetched(Stream!New) = <<>> /\ UpToRow(0) = <<>>
      BY DEF Stream!New, Fetched, UpToRow
    <2>2. Increasing(<<>>, 0)
      BY DEF Increasing
    <2> QED BY <2>1, <2>2 DEF Stream!New, Delivery, Stream!SizesAssumption, Reading
  <1>3. \A s \in Streams : stream[s] = Stream!New /\ (s \in held) = FALSE
    BY DEF Stream!Init
  <1> HIDE DEF Stream!New
  <1>4. \A s \in Streams : Good(stream[s], s \in held)
    BY <1>1, <1>2, <1>3 DEF Good
  <1> QED BY <1>1, <1>4 DEF Stream!Init, StreamInv

-----------------------------------------------------------------------------
(***************************************************************************)
(* The theorems.                                                           *)
(***************************************************************************)
\* In every behaviour what a stream has delivered, keeps pending and is completing are rows of
\* the cursor in order, and all of them as long as nothing failed; and a stream that is closed
\* holds no connection but on the way to returning it, or after its close failed.
THEOREM StreamInvariant ==
  ASSUME Stream!SizesAssumption
  PROVE  Stream!Spec => []StreamInv
  <1>1. Stream!Init => StreamInv
    BY StreamInit
  <1>2. StreamInv /\ [Stream!Next]_(Stream!vars) => StreamInv'
    <2> SUFFICES ASSUME StreamInv, [Stream!Next]_(Stream!vars) PROVE StreamInv'
      OBVIOUS
    <2>1. CASE Stream!Next
      BY <2>1, StepKeeps, DisturbKeeps DEF Stream!Next
    <2>2. CASE UNCHANGED Stream!vars
      BY <2>2 DEF Stream!vars, StreamInv
    <2> QED BY <2>1, <2>2
  <1> QED BY <1>1, <1>2, PTL DEF Stream!Spec

LEMMA StreamReturns ==
  ASSUME StreamInv
  PROVE  Stream!ConnectionReturned
  BY DEF StreamInv, Good, Handles, Closing, Stream!ConnectionReturned

\* aclose, and the end of a stream, give the connection back to the pool, whatever failed or
\* was cancelled before, unless the close itself did before it came to the connection.
THEOREM ConnectionsReturn ==
  ASSUME Stream!SizesAssumption
  PROVE  Stream!Spec => []Stream!ConnectionReturned
  <1>1. StreamInv => Stream!ConnectionReturned
    BY StreamReturns
  <1> QED BY <1>1, StreamInvariant, PTL

LEMMA StreamCompletes ==
  ASSUME Stream!SizesAssumption, StreamInv
  PROVE  Stream!CleanEndIsComplete
  <1> SUFFICES ASSUME NEW s \in Streams
               PROVE  /\ \A i, j \in DOMAIN stream[s].delivered :
                           i < j => stream[s].delivered[i] < stream[s].delivered[j]
                      /\ stream[s].ended /\ stream[s].leaving /\ ~stream[s].disturbed =>
                           stream[s].delivered = [i \in 1..CursorRows |-> i]
    BY DEF Stream!CleanEndIsComplete
  <1> DEFINE t == stream[s]
  <1>1. t \in StreamState /\ Handles(t, s \in held) /\ Delivery(t)
    BY DEF StreamInv, Good
  <1> HIDE DEF t
  <1>2. /\ t.delivered \in Seq(Nat) /\ t.pending \in Seq(Nat) /\ t.rows \in Seq(Nat) /\ t.position \in Nat
        /\ t.delivered \o t.pending \in Seq(Nat)
    BY <1>1, RowsAre
  <1>3. Increasing(t.delivered \o t.pending, t.position)
    BY <1>1, <1>2, Prefix DEF Delivery, Fetched
  <1>4. Increasing(t.delivered, t.position)
    BY <1>2, <1>3, Prefix
  <1>5. ASSUME t.leaving, ~t.disturbed PROVE t.delivered = UpToRow(CursorRows)
    <2>1. t.position = CursorRows /\ t.pending = <<>> /\ t.rows = <<>> /\ Fetched(t) = UpToRow(t.position)
      BY <1>1, <1>5 DEF Delivery, Handles, Reading
    <2>2. Fetched(t) = t.delivered
      BY <1>2, <2>1, EmptyTail DEF Fetched
    <2> QED BY <2>1, <2>2
  <1> QED BY <1>4, <1>5 DEF Increasing, UpToRow, t

\* A stream without a failure delivers every row before its end, once and in order; after a
\* failure rows may be missing, but none comes twice or out of order.
THEOREM CleanEnds ==
  ASSUME Stream!SizesAssumption
  PROVE  Stream!Spec => []Stream!CleanEndIsComplete
  <1>1. StreamInv => Stream!CleanEndIsComplete
    BY StreamCompletes
  <1> QED BY <1>1, StreamInvariant, PTL

-----------------------------------------------------------------------------
(***************************************************************************)
(* Numbers, and the sums the model is built from.                          *)
(***************************************************************************)
LEMMA LeastIs ==
  ASSUME NEW T, T \subseteq Nat, T # {}
  PROVE  \E x \in T : \A y \in T : x <= y
  <1>1. PICK x \in T : \A y \in T : <<y, x>> \notin OpToRel(<, Nat)
    <2>1. IsWellFoundedOn(OpToRel(<, Nat), Nat)
      BY NatLessThanWellFounded
    <2> QED BY <2>1, WFMin, Zenon
  <1>2. \A y \in T : ~(y < x)
    BY <1>1 DEF OpToRel
  <1> QED BY <1>2

\* What holds of zero, and of every number with its predecessor, holds of all up to N.
LEMMA UpTo ==
  ASSUME NEW N \in Nat, NEW S, 0 \in S, \A n \in 0..N - 1 : n \in S => n + 1 \in S
  PROVE  0..N \subseteq S
  <1> SUFFICES ASSUME (0..N) \ S # {} PROVE FALSE
    OBVIOUS
  <1>1. PICK n \in (0..N) \ S : \A m \in (0..N) \ S : n <= m
    BY LeastIs, (0..N) \ S \subseteq Nat
  <1>2. n # 0 /\ n - 1 \in 0..N - 1 /\ (n - 1) + 1 = n
    BY <1>1
  <1>3. n - 1 \in S
    BY <1>1, <1>2
  <1> QED BY <1>1, <1>2, <1>3

LEMMA MinIs ==
  ASSUME NEW S, S \subseteq Nat, S # {}
  PROVE  Parallel!Min(S) \in S /\ \A y \in S : Parallel!Min(S) <= y
  <1>1. \E x \in S : \A y \in S : x <= y
    BY LeastIs
  <1> QED BY <1>1 DEF Parallel!Min

\* One factor more
LEMMA OneMore ==
  ASSUME NEW b \in Nat, NEW m \in Nat
  PROVE  m * b \in Nat /\ (m + 1) * b = m * b + b
  BY SMT

LEMMA MoreTimes ==
  ASSUME NEW b \in Nat, NEW m \in Nat, NEW n \in Nat, m <= n
  PROVE  m * b <= n * b
  BY SMT

\* Places in a list of n batches, and in one that is longer or shorter by one
LEMMA PlaceIs ==
  ASSUME NEW n \in Nat, NEW i \in 1..n + 1
  PROVE  n + 1 - i \in Nat /\ n + 1 + 1 - i = n + 1 - i + 1 /\ n - 1 + 1 - i = n - i
  OBVIOUS

LEMMA OneLess ==
  ASSUME NEW n \in Nat \ {0}
  PROVE  /\ 1 \in 1..n /\ n - 1 + 1 = n
         /\ \A i \in 1..n - 1 : i \in 1..n /\ i + 1 \in 1..n
         /\ \A i \in 1..n : i \in 1..n + 1 /\ i + 1 \in 1..n + 1 /\ n + 1 - (i + 1) = n - i
  OBVIOUS

LEMMA Further ==
  ASSUME NEW a \in Nat, NEW s \in Nat, NEW t \in Nat, NEW b \in Nat, NEW e \in Nat,
         a <= t, t <= a + s, t < e, e <= t + b
  PROVE  a <= e /\ e <= a + (s + b)
  OBVIOUS

\* The bytes of some units, by the recursion of the fold
Chosen(T) == CHOOSE x \in T : TRUE
IsSum(g, units, S) ==
  g = [T \in SUBSET S |-> IF T = {} THEN 0 ELSE units[Chosen(T)].bytes + g[T \ {Chosen(T)}]]

\* The equation of the sum is met by g for the sets of at most n elements.
SumsUpTo(g, units, S, n) ==
  /\ g \in [SUBSET S -> Nat]
  /\ \A T \in SUBSET S :
       Cardinality(T) <= n => g[T] = IF T = {} THEN 0 ELSE units[Chosen(T)].bytes + g[T \ {Chosen(T)}]

LEMMA ChosenIs ==
  ASSUME NEW S, IsFiniteSet(S), NEW T \in SUBSET S, T # {}
  PROVE  /\ Chosen(T) \in T /\ T \ {Chosen(T)} \in SUBSET S
         /\ Cardinality(T) \in Nat \ {0}
         /\ Cardinality(T \ {Chosen(T)}) = Cardinality(T) - 1
  <1>1. Chosen(T) \in T
    BY DEF Chosen
  <1>2. IsFiniteSet(T)
    BY FS_Subset
  <1>3. Cardinality(T \ {Chosen(T)}) = Cardinality(T) - 1 /\ Cardinality(T) \in Nat
    BY <1>1, <1>2, FS_RemoveElement, FS_CardinalityType
  <1>4. Cardinality(T) # 0
    BY <1>2, FS_EmptySet
  <1> QED BY <1>1, <1>3, <1>4

LEMMA SumStep ==
  ASSUME NEW S, IsFiniteSet(S), NEW units, \A i \in S : units[i].bytes \in Nat, NEW n \in Nat, NEW g, SumsUpTo(g, units, S, n)
  PROVE  \E k : SumsUpTo(k, units, S, n + 1)
  <1> DEFINE k == [T \in SUBSET S |-> IF Cardinality(T) <= n THEN g[T]
                                      ELSE units[Chosen(T)].bytes + g[T \ {Chosen(T)}]]
  <1>1. ASSUME NEW T \in SUBSET S, T # {}
        PROVE  /\ units[Chosen(T)].bytes \in Nat /\ g[T \ {Chosen(T)}] \in Nat /\ g[T] \in Nat
               /\ T \ {Chosen(T)} \in SUBSET S /\ Cardinality(T) \in Nat \ {0}
               /\ Cardinality(T \ {Chosen(T)}) = Cardinality(T) - 1
    BY <1>1, ChosenIs DEF SumsUpTo
  <1>2. IsFiniteSet({}) /\ Cardinality({}) = 0 /\ {} \in SUBSET S
    BY FS_EmptySet
  <1>3. k \in [SUBSET S -> Nat]
    <2>1. ASSUME NEW T \in SUBSET S PROVE k[T] \in Nat
      <3>1. CASE T = {}
        BY <1>2, <3>1 DEF SumsUpTo
      <3>2. CASE T # {}
        <4>1. g[T] \in Nat /\ units[Chosen(T)].bytes + g[T \ {Chosen(T)}] \in Nat
          <5>1. g[T] \in Nat /\ units[Chosen(T)].bytes \in Nat /\ g[T \ {Chosen(T)}] \in Nat
            BY <1>1, <3>2
          <5> QED BY <5>1
        <4>2. k[T] = IF Cardinality(T) <= n THEN g[T] ELSE units[Chosen(T)].bytes + g[T \ {Chosen(T)}]
          OBVIOUS
        <4> HIDE DEF k
        <4> QED BY <4>1, <4>2
      <3> QED BY <3>1, <3>2
    <2>2. k = [T \in SUBSET S |-> k[T]]
      OBVIOUS
    <2> HIDE DEF k
    <2> QED BY <2>1, <2>2
  <1>4. ASSUME NEW T \in SUBSET S, Cardinality(T) <= n + 1
        PROVE  k[T] = IF T = {} THEN 0 ELSE units[Chosen(T)].bytes + k[T \ {Chosen(T)}]
    <2>1. CASE T = {}
      <3>1. k[T] = g[T]
        BY <1>1, <1>2, <2>1
      <3>2. g[T] = 0
        BY <1>1, <1>2, <2>1 DEF SumsUpTo
      <3> QED BY <2>1, <3>1, <3>2
    <2>2. CASE T # {}
      <3> DEFINE rest == T \ {Chosen(T)}
      <3>1. rest \in SUBSET S /\ Cardinality(rest) <= n /\ Cardinality(T) \in Nat
        <4>1. Cardinality(T) \in Nat /\ Cardinality(rest) = Cardinality(T) - 1
          BY <1>1, <2>2, Zenon
        <4>2. rest \in SUBSET S
          OBVIOUS
        <4> HIDE DEF rest
        <4> QED BY <1>4, <4>1, <4>2
      <3>2. k[rest] = g[rest]
        BY <3>1
      <3>3. CASE Cardinality(T) <= n
        <4>1. k[T] = g[T]
          BY <3>3
        <4>2. g[T] = units[Chosen(T)].bytes + g[rest]
          BY <2>2, <3>3 DEF SumsUpTo
        <4> QED BY <2>2, <3>2, <4>1, <4>2
      <3>4. CASE ~(Cardinality(T) <= n)
        <4>1. k[T] = units[Chosen(T)].bytes + g[rest]
          BY <3>4
        <4> QED BY <2>2, <3>2, <4>1
      <3> QED BY <3>3, <3>4
    <2> QED BY <2>1, <2>2
  <1> HIDE DEF k
  <1> QED BY <1>3, <1>4 DEF SumsUpTo

LEMMA SumExists ==
  ASSUME NEW S, IsFiniteSet(S), NEW units, \A i \in S : units[i].bytes \in Nat
  PROVE  \E g \in [SUBSET S -> Nat] : IsSum(g, units, S)
  <1> DEFINE N == Cardinality(S)
             Met == {n \in Nat : \E g : SumsUpTo(g, units, S, n)}
  <1>1. N \in Nat
    BY FS_CardinalityType
  <1>2. 0 \in Met
    <2> DEFINE g == [T \in SUBSET S |-> 0]
    <2>1. g \in [SUBSET S -> Nat]
      OBVIOUS
    <2>2. ASSUME NEW T \in SUBSET S, Cardinality(T) <= 0 PROVE T = {} /\ g[T] = 0
      <3>1. T # {} => Cardinality(T) \in Nat \ {0}
        BY ChosenIs
      <3>2. T = {}
        BY <2>2, <3>1
      <3> QED BY <3>2
    <2> HIDE DEF g
    <2>3. SumsUpTo(g, units, S, 0)
      BY <2>1, <2>2 DEF SumsUpTo
    <2> QED BY <2>3
  <1>3. \A n \in 0..N - 1 : n \in Met => n + 1 \in Met
    BY SumStep
  <1>4. N \in Met
    <2> HIDE DEF Met
    <2>1. 0..N \subseteq Met
      BY <1>1, <1>2, <1>3, UpTo
    <2> QED BY <1>1, <2>1
  <1>5. PICK g : SumsUpTo(g, units, S, N)
    BY <1>4
  <1>6. \A T \in SUBSET S : g[T] = IF T = {} THEN 0 ELSE units[Chosen(T)].bytes + g[T \ {Chosen(T)}]
    <2>1. \A T \in SUBSET S : Cardinality(T) <= N
      BY FS_Subset
    <2> QED BY <1>5, <2>1 DEF SumsUpTo
  <1>7. g \in [SUBSET S -> Nat]
    BY <1>5 DEF SumsUpTo
  <1>8. IsSum(g, units, S)
    <2>1. g = [T \in SUBSET S |-> g[T]]
      BY <1>7
    <2> QED BY <1>6, <2>1 DEF IsSum
  <1> QED BY <1>7, <1>8

\* The recursion of the fold gives a natural number.
SumOf(units, S) == Parallel!MapThenSumSet(LAMBDA i : units[i].bytes, S)

LEMMA SumType ==
  ASSUME NEW S, IsFiniteSet(S), NEW units, \A i \in S : units[i].bytes \in Nat
  PROVE  SumOf(units, S) \in Nat
  <1> DEFINE g == CHOOSE g : IsSum(g, units, S)
  <1>1. SumOf(units, S) = g[S]
    BY DEF SumOf, Parallel!MapThenSumSet, Parallel!MapThenFoldSet, IsSum, Chosen
  <1>2. IsSum(g, units, S)
    <2>1. \E h : IsSum(h, units, S)
      BY SumExists
    <2> QED BY <2>1, Zenon
  <1> HIDE DEF g
  <1> DEFINE N == Cardinality(S)
             Ok == {n \in Nat : \A T \in SUBSET S : Cardinality(T) = n => g[T] \in Nat}
  <1>3. N \in Nat
    BY FS_CardinalityType
  <1>4. 0 \in Ok
    <2> SUFFICES ASSUME NEW T \in SUBSET S, Cardinality(T) = 0 PROVE g[T] \in Nat
      OBVIOUS
    <2>1. T # {} => Cardinality(T) \in Nat \ {0}
      BY ChosenIs
    <2> QED BY <1>2, <2>1 DEF IsSum
  <1>5. ASSUME NEW n \in 0..N - 1, n \in Ok PROVE n + 1 \in Ok
    <2> SUFFICES ASSUME NEW T \in SUBSET S, Cardinality(T) = n + 1 PROVE g[T] \in Nat
      OBVIOUS
    <2>1. T # {}
      BY FS_EmptySet
    <2>2. /\ Chosen(T) \in T /\ T \ {Chosen(T)} \in SUBSET S
          /\ Cardinality(T \ {Chosen(T)}) = Cardinality(T) - 1
      BY <2>1, ChosenIs
    <2>3. g[T \ {Chosen(T)}] \in Nat
      BY <1>5, <2>2
    <2>4. g[T] = units[Chosen(T)].bytes + g[T \ {Chosen(T)}]
      BY <1>2, <2>1 DEF IsSum
    <2> QED BY <2>2, <2>3, <2>4
  <1>6. N \in Ok
    <2> HIDE DEF Ok
    <2>1. 0..N \subseteq Ok
      BY <1>3, <1>4, <1>5, UpTo
    <2> QED BY <1>3, <2>1
  <1> QED BY <1>1, <1>6

LEMMA BytesType ==
  ASSUME Parallel!IsInput(input), NEW first \in Nat \ {0}, NEW last \in Nat, last <= Len(input.units)
  PROVE  Parallel!Bytes(first, last) \in Nat
  <1>1. ASSUME NEW i \in first..last PROVE input.units[i].bytes \in Nat
    <2> DEFINE U == [bytes : Nat, work : Nat, bad : BOOLEAN]
               units == input.units
    <2>1. i \in 1..Len(units) /\ units \in Seq(U)
      BY DEF Parallel!IsInput
    <2>2. units[i] \in U
      <3> HIDE DEF U, units
      <3> QED BY <2>1, ElementOfSeq
    <2> QED BY <2>2
  <1>2. IsFiniteSet(first..last)
    BY FS_Interval
  <1>3. Parallel!Bytes(first, last) = SumOf(input.units, first..last)
    BY DEF Parallel!Bytes, SumOf
  <1>4. SumOf(input.units, first..last) \in Nat
    BY <1>1, <1>2, SumType, Zenon
  <1> QED BY <1>3, <1>4

-----------------------------------------------------------------------------
(***************************************************************************)
(* The inductive invariant, of the file and options f and the job j.       *)
(***************************************************************************)
UnitRecord == [bytes : Nat, work : Nat, bad : BOOLEAN]
States == {"queued", "running", "done", "failed", "cancelled"}
BatchRecord == [units : Seq(Nat), state : States]
Job == [pc : {"new", "serial", "read", "drain", "closing", "joining", "done"}, caller : {"holds", "waits"},
        reader : {"none", "open", "closed"}, taken : Nat, pending : Seq(BatchRecord), ready : Seq(Nat),
        out : Seq(Nat), outcome : {"none", "end", "error", "closed"}]

LastOf(f) == IF f.failAt = 0 THEN Len(f.units) ELSE f.failAt - 1
Bad(f, n) == f.units[n].bad
FailuresOf(f) == {i \in DOMAIN f.units : f.units[i].bad} \cup (IF f.failAt = 0 THEN {} ELSE {f.failAt})

\* A batch has units, fits in batch_bytes unless it has a single one, and its result tells of a bad unit
Fits(f, units) == Len(units) = 1 \/ SumOf(f.units, units[1]..units[Len(units)]) <= f.batchBytes
Batched(f, batch) ==
  /\ Fits(f, batch.units)
  /\ batch.state = "done" => \A n \in DOMAIN batch.units : ~Bad(f, batch.units[n])
  /\ batch.state = "failed" => \E n \in DOMAIN batch.units : Bad(f, batch.units[n])
Batches(f, j) == \A i \in DOMAIN j.pending : Batched(f, j.pending[i])
Room(f, j) == Len(j.pending) + (IF j.ready = <<>> THEN 0 ELSE 1) <= f.maxPending

\* What was given and what is ready to be given, in order and without a bad unit
Given(f, j) ==
  /\ j.out = [i \in 1..Len(j.out) |-> i]
  /\ \A i \in DOMAIN j.ready : j.ready[i] = Len(j.out) + i
  /\ Len(j.out) + Len(j.ready) <= j.taken /\ j.taken <= LastOf(f)
  /\ \A i \in 1..Len(j.out) + Len(j.ready) : ~Bad(f, i)

\* The pending batches follow what is ready, one after the other up to the last unit taken:
\* batch i has the units after at[i] up to at[i + 1].
From(a, b) == [k \in 1..b - a |-> a + k]
Link(f, j, at, i) ==
  /\ at[i] < at[i + 1] /\ at[i + 1] <= at[i] + f.batchUnits
  /\ j.pending[i].units = From(at[i], at[i + 1])
Reach(f, j, at, i) == at[i] <= j.taken /\ j.taken <= at[i] + (Len(j.pending) + 1 - i) * f.batchUnits
Links(f, j, at) ==
  /\ at[1] = Len(j.out) + Len(j.ready) /\ at[Len(j.pending) + 1] = j.taken
  /\ \A i \in 1..Len(j.pending) : Link(f, j, at, i)
  /\ \A i \in 1..Len(j.pending) + 1 : Reach(f, j, at, i)
Linked(f, j) == \E at \in [1..Len(j.pending) + 1 -> Nat] : Links(f, j, at)

\* What each place of the generator knows
Places(f, j) ==
  /\ j.pc = "new" => j = Parallel!Idle
  /\ j.pc = "serial" => j.pending = <<>> /\ j.taken = Len(j.out)
  /\ j.pc \in {"read", "drain"} => Linked(f, j)
  /\ j.pc = "drain" => j.taken = LastOf(f) /\ f.failAt = 0
  /\ j.pc \notin {"read", "drain"} => j.ready = <<>>
  /\ j.pc \in {"new", "serial", "read", "drain"} <=> j.outcome = "none"

\* The end, and an error, are what the file says
Told(f, j) ==
  /\ j.outcome = "end" => FailuresOf(f) = {} /\ Len(j.out) = Len(f.units)
  /\ j.outcome = "error" => \E n \in FailuresOf(f) : n <= Len(j.out) + f.maxPending * f.batchUnits

Joined(j) ==
  /\ j.pc \in {"joining", "done"} => j.reader # "open" /\ \A i \in DOMAIN j.pending : j.pending[i].state # "queued"
  /\ j.pc = "done" => \A i \in DOMAIN j.pending : j.pending[i].state # "running"

Projecting(f, j) ==
  /\ f \in Projections /\ j \in Job
  /\ Room(f, j) /\ Batches(f, j) /\ Given(f, j) /\ Places(f, j) /\ Told(f, j) /\ Joined(j)
ProjectingInv == Projecting(input, job)

-----------------------------------------------------------------------------
(***************************************************************************)
(* What the invariant says of the parts of a job.                          *)
(***************************************************************************)
LEMMA InputIs ==
  ASSUME NEW f, Parallel!IsInput(f)
  PROVE  /\ f.units \in Seq(UnitRecord) /\ Len(f.units) \in Nat /\ DOMAIN f.units = 1..Len(f.units)
         /\ \A i \in 1..Len(f.units) : f.units[i].bytes \in Nat /\ f.units[i].bad \in BOOLEAN
         /\ f.failAt \in Nat /\ f.failAt <= Len(f.units) + 1
         /\ LastOf(f) \in Nat /\ LastOf(f) <= Len(f.units)
         /\ f.maxPending \in Nat \ {0} /\ f.batchUnits \in Nat \ {0} /\ f.batchBytes \in Nat \ {0}
  <1> DEFINE units == f.units
  <1>1. units \in Seq(UnitRecord)
    BY DEF Parallel!IsInput, UnitRecord
  <1>2. Len(units) \in Nat /\ DOMAIN units = 1..Len(units) /\ \A i \in 1..Len(units) : units[i] \in UnitRecord
    <2> HIDE DEF units
    <2> QED BY <1>1, LenProperties, ElementOfSeq
  <1>3. \A i \in 1..Len(units) : units[i].bytes \in Nat /\ units[i].bad \in BOOLEAN
    BY <1>2 DEF UnitRecord
  <1>4. f.failAt \in 0..Len(units) + 1 /\ f.maxPending \in Nat \ {0} /\ f.batchUnits \in Nat \ {0} /\ f.batchBytes \in Nat \ {0}
    BY DEF Parallel!IsInput
  <1> HIDE DEF units
  <1>5. f.failAt \in Nat /\ f.failAt <= Len(units) + 1
    BY <1>2, <1>4
  <1>6. LastOf(f) = IF f.failAt = 0 THEN Len(units) ELSE f.failAt - 1
    BY DEF LastOf, units
  <1>7. LastOf(f) \in Nat /\ LastOf(f) <= Len(units)
    BY <1>2, <1>5, <1>6
  <1> QED BY <1>1, <1>2, <1>3, <1>4, <1>5, <1>7 DEF units

LEMMA JobIs ==
  ASSUME NEW j \in Job
  PROVE  /\ j.pending \in Seq(BatchRecord) /\ Len(j.pending) \in Nat /\ DOMAIN j.pending = 1..Len(j.pending)
         /\ j.ready \in Seq(Nat) /\ Len(j.ready) \in Nat /\ DOMAIN j.ready = 1..Len(j.ready)
         /\ j.out \in Seq(Nat) /\ Len(j.out) \in Nat /\ DOMAIN j.out = 1..Len(j.out)
         /\ j.taken \in Nat
         /\ \A i \in 1..Len(j.pending) : j.pending[i] \in BatchRecord /\ j.pending[i].units \in Seq(Nat)
  <1>1. j.pending \in Seq(BatchRecord) /\ j.ready \in Seq(Nat) /\ j.out \in Seq(Nat) /\ j.taken \in Nat
    BY DEF Job
  <1>2. \A i \in 1..Len(j.pending) : j.pending[i] \in BatchRecord
    BY <1>1, ElementOfSeq
  <1>3. \A b \in BatchRecord : b.units \in Seq(Nat)
    BY DEF BatchRecord
  <1> QED BY <1>1, <1>2, <1>3, LenProperties

LEMMA EmptyIs ==
  /\ <<>> \in Seq(Nat) /\ <<>> \in Seq(BatchRecord) /\ Len(<<>>) = 0 /\ DOMAIN <<>> = {}
  /\ \A s \in Seq(Nat) : Len(s) = 0 => s = <<>>
  /\ \A s \in Seq(BatchRecord) : Len(s) = 0 => s = <<>>
  <1>1. \A S : <<>> \in Seq(S) /\ Len(<<>>) = 0 /\ \A s \in Seq(S) : s # <<>> => Len(s) \in Nat \ {0}
    BY EmptySeq
  <1> QED BY <1>1

\* From(a, b) are the units after a up to b.
LEMMA FromIs ==
  ASSUME NEW a \in Nat, NEW b \in Nat, a < b
  PROVE  /\ From(a, b) \in Seq(Nat) /\ Len(From(a, b)) = b - a /\ From(a, b) # <<>>
         /\ DOMAIN From(a, b) = 1..b - a
         /\ \A i \in 1..b - a : From(a, b)[i] = a + i
  BY DEF From

-----------------------------------------------------------------------------
(***************************************************************************)
(* The steps that leave the places of the batches alone, j becoming k.     *)
(***************************************************************************)
\* Leaving gives up what is ready, and the batch that failed.
LEMMA LeaveKeeps ==
  ASSUME NEW f, Parallel!IsInput(f), NEW j, Projecting(f, j), NEW k \in Job,
         k.pc = "closing", k.ready = <<>>, k.out = j.out, k.taken = j.taken, k.outcome # "none",
         k.pending = j.pending \/ (j.pending # <<>> /\ k.pending = Tail(j.pending)),
         Told(f, k)
  PROVE  Projecting(f, k)
  <1>0. j \in Job /\ Room(f, j) /\ Batches(f, j) /\ Given(f, j) /\ f \in Projections
    BY DEF Projecting
  <1>1. /\ DOMAIN j.pending = 1..Len(j.pending) /\ Len(j.pending) \in Nat /\ j.pending \in Seq(BatchRecord)
        /\ DOMAIN k.pending = 1..Len(k.pending) /\ Len(k.pending) \in Nat
        /\ Len(j.out) \in Nat /\ Len(j.ready) \in Nat /\ j.taken \in Nat
    BY <1>0, JobIs
  <1>2. /\ Len(k.pending) <= Len(j.pending)
        /\ \A i \in DOMAIN k.pending : \E n \in DOMAIN j.pending : k.pending[i] = j.pending[n]
    <2>1. CASE k.pending = j.pending
      BY <1>1, <2>1
    <2>2. CASE j.pending # <<>> /\ k.pending = Tail(j.pending)
      <3>1. /\ Len(k.pending) = Len(j.pending) - 1
            /\ \A i \in 1..Len(k.pending) : k.pending[i] = j.pending[i + 1]
        BY <1>1, <2>2, HeadTailProperties
      <3> DEFINE a == Len(j.pending)
                 b == Len(k.pending)
      <3>2. a \in Nat /\ b \in Nat /\ b = a - 1 /\ DOMAIN j.pending = 1..a /\ DOMAIN k.pending = 1..b
        BY <1>1, <3>1
      <3> HIDE DEF a, b
      <3>3. b <= a /\ \A i \in 1..b : i + 1 \in 1..a
        BY <3>2
      <3>4. \A i \in 1..b : k.pending[i] = j.pending[i + 1]
        BY <3>1 DEF b
      <3>5. b <= a /\ \A i \in DOMAIN k.pending : \E n \in DOMAIN j.pending : k.pending[i] = j.pending[n]
        BY <3>2, <3>3, <3>4, Zenon
      <3> QED BY <3>5 DEF a, b
    <2> QED BY <2>1, <2>2
  <1>3. Batches(f, k)
    BY <1>0, <1>2 DEF Batches
  <1>4. Room(f, k)
    <2> DEFINE a == Len(j.pending)
               b == Len(k.pending)
               x == IF j.ready = <<>> THEN 0 ELSE 1
               m == f.maxPending
    <2>1. a \in Nat /\ b \in Nat /\ b <= a /\ x \in {0, 1} /\ m \in Nat /\ a + x <= m
      BY <1>0, <1>1, <1>2, InputIs DEF Room
    <2>2. (IF k.ready = <<>> THEN 0 ELSE 1) = 0
      OBVIOUS
    <2> HIDE DEF a, b, x, m
    <2>3. b + 0 <= m
      BY <2>1
    <2> QED BY <2>2, <2>3 DEF Room, b, m
  <1>5. Given(f, k)
    <2> DEFINE o == Len(j.out)
               r == Len(j.ready)
    <2>1. Len(k.ready) = 0 /\ DOMAIN k.ready = {}
      BY EmptyIs
    <2>2. o \in Nat /\ r \in Nat /\ j.taken \in Nat /\ o + r <= j.taken
      BY <1>0, <1>1 DEF Given
    <2>3. Len(k.out) = o /\ Len(k.ready) = 0 /\ k.taken = j.taken
      BY <2>1
    <2>4. ASSUME NEW t \in Nat, o + r <= t PROVE o + 0 <= t /\ \A i \in 1..o + 0 : i \in 1..o + r
      <3> HIDE DEF o, r
      <3> QED BY <2>2, <2>4
    <2>5. o + 0 <= j.taken /\ \A i \in 1..o + 0 : i \in 1..o + r
      BY <2>2, <2>4
    <2>6. /\ j.out = [i \in 1..o |-> i] /\ j.taken <= LastOf(f)
          /\ \A i \in 1..o + r : ~Bad(f, i)
      BY <1>0 DEF Given
    <2> HIDE DEF o, r
    <2>7. /\ k.out = [i \in 1..Len(k.out) |-> i] /\ \A i \in DOMAIN k.ready : k.ready[i] = Len(k.out) + i
          /\ Len(k.out) + Len(k.ready) <= k.taken /\ k.taken <= LastOf(f)
          /\ \A i \in 1..Len(k.out) + Len(k.ready) : ~Bad(f, i)
      BY <2>1, <2>3, <2>5, <2>6, Zenon
    <2> QED BY <2>7, Zenon DEF Given
  <1>6. Places(f, k) /\ Joined(k)
    BY DEF Places, Joined
  <1> QED BY <1>0, <1>3, <1>4, <1>5, <1>6 DEF Projecting

\* Batches that stay where they are, with what their threads tell
LEMMA SameBatches ==
  ASSUME NEW f, Parallel!IsInput(f), NEW j, Projecting(f, j), NEW k \in Job,
         Len(k.pending) = Len(j.pending), \A i \in 1..Len(j.pending) : k.pending[i].units = j.pending[i].units,
         \A i \in 1..Len(j.pending) : Batched(f, k.pending[i]),
         k.ready = j.ready, k.out = j.out, k.taken = j.taken, k.outcome = j.outcome, j.pc # "new",
         k.pc = j.pc \/ (j.pc \in {"closing", "joining"} /\ k.pc \in {"joining", "done"}),
         Joined(k)
  PROVE  Projecting(f, k)
  <1>0. j \in Job /\ Room(f, j) /\ Batches(f, j) /\ Given(f, j) /\ Places(f, j) /\ Told(f, j) /\ f \in Projections
    BY DEF Projecting
  <1>1. DOMAIN k.pending = 1..Len(k.pending) /\ k.pending \in Seq(BatchRecord)
    BY JobIs
  <1>2. Room(f, k) /\ Batches(f, k) /\ Given(f, k) /\ Told(f, k)
    BY <1>0, <1>1 DEF Room, Batches, Given, Told
  <1>3. k.pc = "serial" => k.pending = <<>> /\ k.taken = Len(k.out)
    <2> SUFFICES ASSUME k.pc = "serial" PROVE k.pending = <<>> /\ k.taken = Len(k.out)
      OBVIOUS
    <2>1. j.pending = <<>> /\ j.taken = Len(j.out)
      BY <1>0 DEF Places
    <2> QED BY <2>1, <1>1, EmptyIs
  <1>4. k.pc \in {"read", "drain"} => Linked(f, k)
    <2> SUFFICES ASSUME k.pc \in {"read", "drain"} PROVE Linked(f, k)
      OBVIOUS
    <2>1. Linked(f, j)
      BY <1>0 DEF Places
    <2>2. PICK at \in [1..Len(j.pending) + 1 -> Nat] : Links(f, j, at)
      BY <2>1 DEF Linked
    <2>3. Links(f, k, at)
      BY <2>2 DEF Links, Link, Reach
    <2> QED BY <2>3 DEF Linked
  <1>5. Places(f, k)
    BY <1>0, <1>3, <1>4 DEF Places
  <1> QED BY <1>0, <1>2, <1>5 DEF Projecting

\* The reader is opened, and nothing is taken yet.
LEMMA OpenKeeps ==
  ASSUME NEW f, Parallel!IsInput(f), NEW j, Projecting(f, j), j.pc = "new", NEW k,
         \/ k = [j EXCEPT !.reader = "open", !.caller = "waits", !.pc = "serial"]
         \/ k = [j EXCEPT !.reader = "open", !.caller = "waits", !.pc = "read"]
  PROVE  Projecting(f, k)
  <1>0. f \in Projections /\ j \in Job /\ Room(f, j) /\ Batches(f, j) /\ Given(f, j) /\ Told(f, j) /\ j = Parallel!Idle
    BY DEF Projecting, Places
  <1>1. k \in Job
    BY <1>0 DEF Job
  <1>2. /\ k.pending = <<>> /\ k.ready = <<>> /\ k.out = <<>> /\ k.taken = 0 /\ k.outcome = "none"
        /\ j.pending = <<>> /\ j.ready = <<>> /\ j.out = <<>> /\ j.taken = 0 /\ j.outcome = "none"
        /\ k.pc \in {"serial", "read"}
    BY <1>0 DEF Parallel!Idle
  <1>3. Room(f, k) /\ Batches(f, k) /\ Given(f, k) /\ Told(f, k) /\ Joined(k)
    BY <1>0, <1>2 DEF Room, Batches, Given, Told, Joined
  <1>4. Linked(f, k)
    <2> DEFINE at == [i \in 1..1 |-> 0]
    <2>1. Len(k.pending) = 0 /\ Len(k.ready) = 0 /\ Len(k.out) = 0
      BY <1>2, EmptyIs
    <2>2. f.batchUnits \in Nat
      BY InputIs
    <2>3. at \in [1..Len(k.pending) + 1 -> Nat] /\ at[1] = 0
      BY <2>1
    <2>4. (0 + 1 - 1) * f.batchUnits = 0 /\ 0 + 0 = 0 /\ 0 <= 0
      BY <2>2
    <2>5. 0 + 1 = 1 /\ 1..0 = {} /\ \A i \in 1..0 + 1 : i = 1
      OBVIOUS
    <2> HIDE DEF at
    <2>6. Reach(f, k, at, 1)
      BY <1>2, <2>1, <2>3, <2>4, Zenon DEF Reach
    <2>7. Links(f, k, at)
      BY <1>2, <2>1, <2>3, <2>4, <2>5, <2>6, Zenon DEF Links
    <2> QED BY <2>3, <2>7 DEF Linked
  <1>5. k.pc = "serial" => k.taken = Len(k.out)
    BY <1>2, EmptyIs
  <1>6. Places(f, k)
    BY <1>2, <1>4, <1>5 DEF Places
  <1> QED BY <1>0, <1>1, <1>3, <1>6 DEF Projecting

-----------------------------------------------------------------------------
(***************************************************************************)
(* The steps that read, take and give units, j becoming k.                 *)
(***************************************************************************)
\* One unit more is given: it is the next of the file, and not bad.
LEMMA GivesNext ==
  ASSUME NEW out \in Seq(Nat), out = [i \in 1..Len(out) |-> i]
  PROVE  /\ Append(out, Len(out) + 1) \in Seq(Nat)
         /\ Len(Append(out, Len(out) + 1)) = Len(out) + 1
         /\ Append(out, Len(out) + 1) = [i \in 1..Len(out) + 1 |-> i]
  <1> DEFINE n == Len(out)
             longer == Append(out, n + 1)
  <1>1. n \in Nat /\ n + 1 \in Nat
    BY LenProperties
  <1>2. longer \in Seq(Nat) /\ Len(longer) = n + 1 /\ longer[n + 1] = n + 1 /\ \A i \in 1..n : longer[i] = out[i]
    BY <1>1, AppendProperties
  <1>3. \A i \in 1..n : out[i] = i
    OBVIOUS
  <1>4. longer = [i \in 1..Len(longer) |-> longer[i]]
    <2>1. longer \in [1..Len(longer) -> Nat]
      <3> HIDE DEF longer
      <3> QED BY <1>2, LenProperties
    <2> HIDE DEF longer
    <2> QED BY <2>1
  <1> HIDE DEF n, longer
  <1>5. \A i \in 1..n + 1 : longer[i] = i
    BY <1>1, <1>2, <1>3
  <1>6. longer = [i \in 1..n + 1 |-> i]
    BY <1>2, <1>4, <1>5
  <1>7. longer \in Seq(Nat) /\ Len(longer) = n + 1 /\ longer = [i \in 1..n + 1 |-> i]
    BY <1>2, <1>6
  <1> QED BY <1>7 DEF n, longer

LEMMA SerialKeeps ==
  ASSUME NEW f, Parallel!IsInput(f), NEW j, Projecting(f, j), j.pc = "serial", j.taken # LastOf(f),
         ~Bad(f, j.taken + 1), NEW k,
         k = [j EXCEPT !.taken = j.taken + 1, !.out = Append(@, j.taken + 1), !.caller = "holds"]
  PROVE  Projecting(f, k)
  <1>0. f \in Projections /\ j \in Job /\ Room(f, j) /\ Batches(f, j) /\ Given(f, j) /\ Places(f, j) /\ Told(f, j)
    BY DEF Projecting
  <1> DEFINE n == Len(j.out)
  <1>1. j.pending = <<>> /\ j.ready = <<>> /\ j.taken = n /\ j.outcome = "none"
    BY <1>0 DEF Places
  <1>2. j.out \in Seq(Nat) /\ n \in Nat /\ j.out = [i \in 1..n |-> i]
    BY <1>0, JobIs DEF Given
  <1>3. /\ Append(j.out, n + 1) \in Seq(Nat) /\ Len(Append(j.out, n + 1)) = n + 1
        /\ Append(j.out, n + 1) = [i \in 1..n + 1 |-> i]
    BY <1>2, GivesNext
  <1>4. /\ k.pc = "serial" /\ k.pending = <<>> /\ k.ready = <<>> /\ k.outcome = "none" /\ k.taken = n + 1
        /\ k.out = Append(j.out, n + 1)
    BY <1>0, <1>1 DEF Job
  <1>5. k \in Job
    <2>1. n + 1 \in Nat /\ Append(j.out, n + 1) \in Seq(Nat)
      BY <1>2, <1>3
    <2> DEFINE m == n + 1
               given == Append(j.out, m)
    <2>2. k = [j EXCEPT !.taken = m, !.out = given, !.caller = "holds"]
      BY <1>1
    <2>3. m \in Nat /\ given \in Seq(Nat)
      BY <2>1
    <2> HIDE DEF m, given
    <2> QED BY <1>0, <2>2, <2>3 DEF Job
  <1>6. n + 1 <= LastOf(f)
    <2>1. LastOf(f) \in Nat /\ n <= LastOf(f) /\ n # LastOf(f)
      BY <1>0, <1>1, InputIs DEF Given
    <2> HIDE DEF n
    <2> QED BY <1>2, <2>1
  <1>7. \A i \in 1..n + 1 : ~Bad(f, i)
    <2>1. Len(j.ready) = 0
      BY <1>1, EmptyIs
    <2>2. \A i \in 1..n + 0 : ~Bad(f, i)
      BY <1>0, <2>1 DEF Given
    <2>3. ~Bad(f, n + 1)
      BY <1>1
    <2> HIDE DEF n
    <2>4. \A i \in 1..n + 1 : i = n + 1 \/ i \in 1..n + 0
      BY <1>2
    <2> QED BY <2>2, <2>3, <2>4
  <1>8. Len(k.out) = n + 1 /\ Len(k.ready) = 0 /\ DOMAIN k.ready = {} /\ n + 1 + 0 = n + 1 /\ n + 1 <= n + 1
    <2>1. Len(k.out) = n + 1 /\ Len(k.ready) = 0 /\ DOMAIN k.ready = {}
      BY <1>3, <1>4, EmptyIs
    <2>2. n + 1 + 0 = n + 1 /\ n + 1 <= n + 1
      <3> HIDE DEF n
      <3> QED BY <1>2
    <2> QED BY <2>1, <2>2
  <1>9. Room(f, k) /\ Batches(f, k) /\ Told(f, k) /\ Joined(k)
    BY <1>0, <1>1, <1>4 DEF Room, Batches, Told, Joined
  <1>10. Given(f, k)
    <2> HIDE DEF n
    <2> QED BY <1>3, <1>4, <1>6, <1>7, <1>8, Zenon DEF Given
  <1>11. Places(f, k)
    BY <1>4, <1>8 DEF Places
  <1> QED BY <1>0, <1>5, <1>9, <1>10, <1>11 DEF Projecting

\* The next ready unit is given.
LEMMA DeliverKeeps ==
  ASSUME NEW f, Parallel!IsInput(f), NEW j, Projecting(f, j), j.ready # <<>>, NEW k,
         k = [j EXCEPT !.out = Append(@, Head(j.ready)), !.ready = Tail(@), !.caller = "holds"]
  PROVE  Projecting(f, k)
  <1>0. /\ f \in Projections /\ j \in Job /\ Room(f, j) /\ Batches(f, j) /\ Given(f, j) /\ Places(f, j) /\ Told(f, j)
        /\ Joined(j)
    BY DEF Projecting
  <1> DEFINE n == Len(j.out)
             r == Len(j.ready)
  <1>1. j.pc \in {"read", "drain"} /\ j.outcome = "none"
    BY <1>0 DEF Places
  <1>2. j.out \in Seq(Nat) /\ n \in Nat /\ j.out = [i \in 1..n |-> i] /\ j.ready \in Seq(Nat) /\ r \in Nat
    BY <1>0, JobIs DEF Given
  <1>3. /\ Head(j.ready) = j.ready[1] /\ Tail(j.ready) \in Seq(Nat) /\ Len(Tail(j.ready)) = r - 1 /\ r # 0
        /\ \A i \in 1..Len(Tail(j.ready)) : Tail(j.ready)[i] = j.ready[i + 1]
        /\ DOMAIN j.ready = 1..r /\ DOMAIN Tail(j.ready) = 1..Len(Tail(j.ready))
    BY <1>2, HeadTailProperties, LenProperties, EmptyIs DEF Head
  <1>4. Head(j.ready) = n + 1
    <2>1. \A i \in 1..r : j.ready[i] = n + i
      BY <1>0, <1>3 DEF Given
    <2> HIDE DEF n, r
    <2>2. 1 \in 1..r
      BY <1>2, <1>3
    <2> QED BY <1>3, <2>1, <2>2, Zenon
  <1>5. /\ Append(j.out, n + 1) \in Seq(Nat) /\ Len(Append(j.out, n + 1)) = n + 1
        /\ Append(j.out, n + 1) = [i \in 1..n + 1 |-> i]
    BY <1>2, GivesNext
  <1>6. /\ k.pc = j.pc /\ k.pending = j.pending /\ k.outcome = "none" /\ k.taken = j.taken
        /\ k.out = Append(j.out, n + 1) /\ k.ready = Tail(j.ready) /\ k.reader = j.reader
    BY <1>0, <1>1, <1>4 DEF Job
  <1>7. k \in Job
    <2> DEFINE given == Append(j.out, n + 1)
               rest == Tail(j.ready)
    <2>1. given \in Seq(Nat) /\ rest \in Seq(Nat)
      BY <1>3, <1>5
    <2>2. k = [j EXCEPT !.out = given, !.ready = rest, !.caller = "holds"]
      BY <1>4
    <2> HIDE DEF given, rest
    <2> QED BY <1>0, <2>1, <2>2 DEF Job
  <1>8. Len(k.out) = n + 1 /\ Len(k.ready) = r - 1 /\ n + 1 + (r - 1) = n + r /\ DOMAIN k.ready = 1..r - 1
    <2>1. Len(k.out) = n + 1 /\ Len(k.ready) = r - 1 /\ DOMAIN k.ready = 1..r - 1
      BY <1>3, <1>5, <1>6
    <2>2. n + 1 + (r - 1) = n + r
      <3> HIDE DEF n, r
      <3> QED BY <1>2
    <2> QED BY <2>1, <2>2
  <1>9. Room(f, k)
    <2> DEFINE a == Len(j.pending)
               x == IF k.ready = <<>> THEN 0 ELSE 1
               m == f.maxPending
    <2>1. a \in Nat /\ x \in {0, 1} /\ m \in Nat /\ a + 1 <= m
      BY <1>0, InputIs, JobIs DEF Room
    <2> HIDE DEF a, x, m
    <2>2. a + x <= m
      BY <2>1
    <2> QED BY <1>6, <2>2 DEF Room, a, x, m
  <1>10. Given(f, k)
    <2>1. \A i \in 1..r : j.ready[i] = n + i
      BY <1>0, <1>3 DEF Given
    <2>2. \A i \in 1..r - 1 : Tail(j.ready)[i] = j.ready[i + 1]
      BY <1>3
    <2>3. \A i \in 1..r - 1 : i + 1 \in 1..r /\ n + (i + 1) = n + 1 + i
      <3> HIDE DEF n, r
      <3> QED BY <1>2
    <2>4. \A i \in 1..r - 1 : k.ready[i] = n + 1 + i
      BY <1>6, <2>1, <2>2, <2>3, Zenon
    <2>5. n + r <= j.taken /\ j.taken <= LastOf(f) /\ \A i \in 1..n + r : ~Bad(f, i)
      BY <1>0 DEF Given
    <2> HIDE DEF n, r
    <2> QED BY <1>5, <1>6, <1>8, <2>4, <2>5, Zenon DEF Given
  <1>11. Linked(f, k)
    <2>1. PICK at \in [1..Len(j.pending) + 1 -> Nat] : Links(f, j, at)
      BY <1>0, <1>1 DEF Places, Linked
    <2>2. /\ at[1] = n + r /\ at[Len(j.pending) + 1] = j.taken
          /\ \A i \in 1..Len(j.pending) : Link(f, j, at, i)
          /\ \A i \in 1..Len(j.pending) + 1 : Reach(f, j, at, i)
      BY <2>1 DEF Links
    <2>3. \A i \in 1..Len(k.pending) : Link(f, k, at, i)
      BY <1>6, <2>2 DEF Link
    <2>4. \A i \in 1..Len(k.pending) + 1 : Reach(f, k, at, i)
      BY <1>6, <2>2 DEF Reach
    <2> HIDE DEF n, r
    <2>5. Links(f, k, at)
      BY <1>6, <1>8, <2>2, <2>3, <2>4, Zenon DEF Links
    <2> QED BY <1>6, <2>1, <2>5, Zenon DEF Linked
  <1>12. Batches(f, k) /\ Told(f, k) /\ Joined(k)
    BY <1>0, <1>1, <1>6 DEF Batches, Told, Joined
  <1>13. Places(f, k)
    BY <1>0, <1>1, <1>6, <1>11 DEF Places
  <1> QED BY <1>0, <1>7, <1>9, <1>10, <1>12, <1>13 DEF Projecting

LEMMA DrainKeeps ==
  ASSUME NEW f, Parallel!IsInput(f), NEW j, Projecting(f, j), j.pc = "read", j.taken = LastOf(f), f.failAt = 0, NEW k,
         k = [j EXCEPT !.pc = "drain"]
  PROVE  Projecting(f, k)
  <1>0. /\ f \in Projections /\ j \in Job /\ Room(f, j) /\ Batches(f, j) /\ Given(f, j) /\ Places(f, j) /\ Told(f, j)
    BY DEF Projecting
  <1>1. /\ k \in Job /\ k.pc = "drain" /\ k.pending = j.pending /\ k.ready = j.ready /\ k.out = j.out
        /\ k.taken = j.taken /\ k.outcome = j.outcome
    BY <1>0 DEF Job
  <1>2. Linked(f, k)
    <2>1. PICK at \in [1..Len(j.pending) + 1 -> Nat] : Links(f, j, at)
      BY <1>0 DEF Places, Linked
    <2>2. Links(f, k, at)
      BY <1>1, <2>1 DEF Links, Link, Reach
    <2> QED BY <1>1, <2>1, <2>2 DEF Linked
  <1>3. Room(f, k) /\ Batches(f, k) /\ Given(f, k) /\ Told(f, k) /\ Joined(k)
    BY <1>0, <1>1 DEF Room, Batches, Given, Told, Joined
  <1>4. Places(f, k)
    BY <1>0, <1>1, <1>2 DEF Places
  <1> QED BY <1>0, <1>1, <1>3, <1>4 DEF Projecting

\* One batch more is pending: the units after those taken, up to e.
LEMMA SubmitKeeps ==
  ASSUME NEW f, Parallel!IsInput(f), NEW j, Projecting(f, j), j.pc = "read", j.ready = <<>>, Len(j.pending) < f.maxPending,
         NEW e \in Nat, j.taken < e, e <= j.taken + f.batchUnits, e <= LastOf(f), Fits(f, From(j.taken, e)), NEW k,
         k = [j EXCEPT !.taken = e, !.pending = Append(@, [units |-> From(j.taken, e), state |-> "queued"])]
  PROVE  Projecting(f, k)
  <1>0. /\ f \in Projections /\ j \in Job /\ Room(f, j) /\ Batches(f, j) /\ Given(f, j) /\ Places(f, j) /\ Told(f, j)
    BY DEF Projecting
  <1> DEFINE n == Len(j.pending)
             t == j.taken
             b == f.batchUnits
             batch == [units |-> From(t, e), state |-> "queued"]
             more == Append(j.pending, batch)
  <1>1. n \in Nat /\ t \in Nat /\ b \in Nat /\ f.maxPending \in Nat /\ j.pending \in Seq(BatchRecord)
    BY <1>0, JobIs, InputIs
  <1>2. From(t, e) \in Seq(Nat)
    BY <1>1, FromIs
  <1>3. batch \in BatchRecord
    BY <1>2 DEF BatchRecord, States
  <1>4. /\ more \in Seq(BatchRecord) /\ Len(more) = n + 1 /\ more[n + 1] = batch
        /\ \A i \in 1..n : more[i] = j.pending[i]
    <2> HIDE DEF batch
    <2> QED BY <1>1, <1>3, AppendProperties
  <1>5. k \in Job /\ k.pc = "read" /\ k.ready = <<>> /\ k.out = j.out /\ k.taken = e /\ k.pending = more /\ k.outcome = j.outcome
    <2>1. k = [j EXCEPT !.taken = e, !.pending = more]
      OBVIOUS
    <2> HIDE DEF more
    <2> QED BY <1>0, <1>4, <2>1 DEF Job
  <1>6. DOMAIN more = 1..n + 1 /\ \A i \in 1..n + 1 : i = n + 1 \/ i \in 1..n
    <2>1. DOMAIN more = 1..Len(more)
      <3> HIDE DEF more
      <3> QED BY <1>4, LenProperties
    <2> HIDE DEF n, more
    <2> QED BY <1>1, <1>4, <2>1
  <1>7. Batches(f, k)
    <2>1. Batched(f, batch)
      BY DEF Batched
    <2>2. \A i \in 1..n : Batched(f, j.pending[i])
      BY <1>0, JobIs DEF Batches
    <2> HIDE DEF n, more, batch
    <2>3. \A i \in DOMAIN more : Batched(f, more[i])
      BY <1>4, <1>6, <2>1, <2>2, Zenon
    <2> QED BY <1>5, <2>3, Zenon DEF Batches
  <1>8. Room(f, k)
    <2>1. (IF k.ready = <<>> THEN 0 ELSE 1) = 0 /\ Len(k.pending) = n + 1
      BY <1>4, <1>5
    <2> DEFINE m == f.maxPending
    <2>2. n < m /\ m \in Nat
      BY <1>1
    <2> HIDE DEF n, m
    <2>3. n + 1 + 0 <= m
      BY <1>1, <2>2
    <2> QED BY <2>1, <2>3 DEF Room, m
  <1>9. Given(f, k)
    <2> DEFINE o == Len(j.out)
    <2>1. /\ j.out = [i \in 1..o |-> i] /\ \A i \in DOMAIN j.ready : j.ready[i] = o + i
          /\ o + Len(j.ready) <= t /\ \A i \in 1..o + Len(j.ready) : ~Bad(f, i)
      BY <1>0 DEF Given
    <2>2. o \in Nat /\ Len(j.ready) \in Nat
      BY <1>0, JobIs
    <2>4. o + Len(j.ready) \in Nat
      BY <2>2
    <2>5. o + Len(j.ready) <= e
      <3> DEFINE x == o + Len(j.ready)
      <3>1. x <= t /\ t < e /\ x \in Nat
        BY <2>1, <2>4
      <3> HIDE DEF x, t
      <3> QED BY <1>1, <3>1, Further DEF x
    <2> HIDE DEF o, t
    <2>6. o = Len(k.out) /\ k.ready = j.ready
      BY <1>5 DEF o
    <2> QED BY <1>5, <2>1, <2>5, <2>6, Zenon DEF Given
  <1>10. Linked(f, k)
    <2>1. PICK at \in [1..n + 1 -> Nat] : Links(f, j, at)
      BY <1>0 DEF Places, Linked
    <2>2. /\ at[1] = Len(j.out) + Len(j.ready) /\ at[n + 1] = t
          /\ \A i \in 1..n : Link(f, j, at, i)
          /\ \A i \in 1..n + 1 : at[i] <= t /\ t <= at[i] + (n + 1 - i) * b
      BY <2>1 DEF Links, Reach
    <2> DEFINE on == [i \in 1..n + 1 + 1 |-> IF i = n + 1 + 1 THEN e ELSE at[i]]
    <2> HIDE DEF n, t, b, batch, more
    <2>3. on \in [1..n + 1 + 1 -> Nat]
      BY <1>1, <2>1
    <2>4. on[n + 1 + 1] = e /\ \A i \in 1..n + 1 : on[i] = at[i]
      BY <1>1
    <2>5. 1 \in 1..n + 1 /\ n + 1 \in 1..n + 1 /\ \A i \in 1..n : i \in 1..n + 1 /\ i + 1 \in 1..n + 1
      BY <1>1
    <2> HIDE DEF on
    <2>6. \A i \in 1..n + 1 : Link(f, k, on, i)
      <3>1. ASSUME NEW i \in 1..n PROVE Link(f, k, on, i)
        <4>1. on[i] = at[i] /\ on[i + 1] = at[i + 1] /\ k.pending[i] = j.pending[i]
          BY <1>4, <1>5, <2>4, <2>5
        <4>2. Link(f, j, at, i)
          BY <2>2
        <4> QED BY <4>1, <4>2, Zenon DEF Link
      <3>2. Link(f, k, on, n + 1)
        <4>1. on[n + 1] = t /\ on[n + 1 + 1] = e /\ k.pending[n + 1].units = From(t, e)
          BY <1>4, <1>5, <2>2, <2>4, <2>5 DEF batch
        <4>2. t < e /\ e <= t + f.batchUnits
          BY DEF t
        <4> QED BY <4>1, <4>2, Zenon DEF Link
      <3> QED BY <1>6, <3>1, <3>2
    <2>7. \A i \in 1..n + 1 + 1 : on[i] <= e /\ e <= on[i] + (n + 1 + 1 - i) * b
      <3>0. t < e /\ e <= t + b
        BY DEF t, b
      <3>1. ASSUME NEW i \in 1..n + 1 PROVE on[i] <= e /\ e <= on[i] + (n + 1 + 1 - i) * b
        <4> DEFINE m == n + 1 - i
                   s == m * b
                   a == at[i]
        <4>1. m \in Nat /\ n + 1 + 1 - i = m + 1 /\ a \in Nat
          BY <1>1, <2>1, PlaceIs
        <4> HIDE DEF m
        <4>2. s \in Nat /\ (m + 1) * b = s + b
          BY <1>1, <4>1, OneMore
        <4>3. a <= t /\ t <= a + s
          BY <2>2 DEF m
        <4> HIDE DEF s, a
        <4>4. a <= e /\ e <= a + (s + b)
          BY <1>1, <3>0, <4>1, <4>2, <4>3, Further
        <4>5. on[i] = a
          BY <2>4 DEF a
        <4> QED BY <4>1, <4>2, <4>4, <4>5, Zenon
      <3>2. on[n + 1 + 1] <= e /\ e <= on[n + 1 + 1] + (n + 1 + 1 - (n + 1 + 1)) * b
        <4>1. n + 1 + 1 - (n + 1 + 1) = 0 /\ 0 * b = 0 /\ e <= e /\ e <= e + 0
          BY <1>1
        <4> QED BY <2>4, <4>1, Zenon
      <3>3. \A i \in 1..n + 1 + 1 : i = n + 1 + 1 \/ i \in 1..n + 1
        BY <1>1
      <3> QED BY <3>1, <3>2, <3>3
    <2>8. Len(k.pending) = n + 1 /\ k.taken = e /\ on[1] = Len(k.out) + Len(k.ready)
      BY <1>4, <1>5, <2>2, <2>4, <2>5
    <2>9. \A i \in 1..n + 1 + 1 : Reach(f, k, on, i)
      BY <2>7, <2>8 DEF Reach, b
    <2>10. Links(f, k, on)
      BY <2>4, <2>6, <2>8, <2>9, Zenon DEF Links
    <2> QED BY <2>3, <2>8, <2>10, Zenon DEF Linked
  <1>11. Told(f, k) /\ Joined(k)
    BY <1>0, <1>5 DEF Told, Joined, Places
  <1>12. Places(f, k)
    BY <1>0, <1>5, <1>10 DEF Places
  <1> QED BY <1>0, <1>5, <1>7, <1>8, <1>9, <1>11, <1>12 DEF Projecting

\* The oldest batch follows what was given.
LEMMA OldestIs ==
  ASSUME NEW f, Parallel!IsInput(f), NEW j, Projecting(f, j), j.pc \in {"read", "drain"}, j.ready = <<>>, j.pending # <<>>
  PROVE  /\ Len(j.pending) \in Nat \ {0}
         /\ \E at \in [1..Len(j.pending) + 1 -> Nat] :
              /\ Links(f, j, at) /\ at[1] = Len(j.out) /\ at[1] < at[2] /\ at[2] <= at[1] + f.batchUnits /\ at[2] <= j.taken
              /\ Head(j.pending).units = From(at[1], at[2])
  <1>0. j \in Job /\ Places(f, j)
    BY DEF Projecting
  <1>1. j.pending \in Seq(BatchRecord) /\ Len(j.pending) \in Nat \ {0} /\ Head(j.pending) = j.pending[1]
    BY <1>0, JobIs, EmptyIs DEF Head
  <1> DEFINE n == Len(j.pending)
  <1>2. PICK at \in [1..n + 1 -> Nat] : Links(f, j, at)
    BY <1>0 DEF Places, Linked
  <1>3. /\ at[1] = Len(j.out) + Len(j.ready)
        /\ \A i \in 1..n : Link(f, j, at, i)
        /\ \A i \in 1..n + 1 : Reach(f, j, at, i)
    BY <1>2 DEF Links
  <1>4. 1 \in 1..n /\ 2 \in 1..n + 1 /\ 1 + 1 = 2
    <2> HIDE DEF n
    <2> QED BY <1>1 DEF n
  <1>5. Link(f, j, at, 1) /\ Reach(f, j, at, 2)
    BY <1>3, <1>4
  <1>6. at[1] < at[2] /\ at[2] <= at[1] + f.batchUnits /\ at[2] <= j.taken /\ j.pending[1].units = From(at[1], at[2])
    BY <1>4, <1>5 DEF Link, Reach
  <1>7. Len(j.out) + Len(j.ready) = Len(j.out)
    <2>1. Len(j.out) \in Nat /\ Len(j.ready) = 0
      BY <1>0, JobIs, EmptyIs
    <2> DEFINE o == Len(j.out)
    <2>2. o + 0 = o
      <3>1. o \in Nat
        BY <2>1
      <3> HIDE DEF o
      <3> QED BY <3>1
    <2> QED BY <2>1, <2>2
  <1> QED BY <1>1, <1>2, <1>3, <1>6, <1>7

\* The oldest batch becomes what is ready.
LEMMA TakeKeeps ==
  ASSUME NEW f, Parallel!IsInput(f), NEW j, Projecting(f, j), j.pc \in {"read", "drain"}, j.ready = <<>>, j.pending # <<>>,
         Head(j.pending).state = "done", NEW k,
         k = [j EXCEPT !.pending = Tail(@), !.ready = Head(j.pending).units]
  PROVE  Projecting(f, k)
  <1>0. /\ f \in Projections /\ j \in Job /\ Room(f, j) /\ Batches(f, j) /\ Given(f, j) /\ Places(f, j) /\ Told(f, j)
    BY DEF Projecting
  <1> DEFINE n == Len(j.pending)
             o == Len(j.out)
             rest == Tail(j.pending)
             units == Head(j.pending).units
             b == f.batchUnits
             t == j.taken
  <1>1. n \in Nat \ {0} /\ o \in Nat /\ t \in Nat /\ j.pending \in Seq(BatchRecord) /\ DOMAIN j.pending = 1..n
    BY <1>0, JobIs, EmptyIs
  <1>2. PICK at \in [1..n + 1 -> Nat] :
          /\ Links(f, j, at) /\ at[1] = o /\ at[1] < at[2] /\ at[2] <= t
          /\ units = From(at[1], at[2])
    BY OldestIs
  <1> DEFINE c == at[2]
  <1>3. c \in Nat /\ o < c /\ c <= t
    <2>1. 2 \in 1..n + 1
      <3>1. n \in Nat \ {0}
        BY <1>1
      <3> HIDE DEF n
      <3> QED BY <3>1
    <2> QED BY <1>2, <2>1
  <1>4. /\ units \in Seq(Nat) /\ Len(units) = c - o /\ units # <<>> /\ DOMAIN units = 1..c - o
        /\ \A i \in 1..c - o : units[i] = o + i
    <2>1. units = From(o, c)
      BY <1>2
    <2> HIDE DEF units, o, c
    <2> QED BY <1>1, <1>3, <2>1, FromIs
  <1>5. /\ rest \in Seq(BatchRecord) /\ Len(rest) = n - 1 /\ DOMAIN rest = 1..n - 1
        /\ \A i \in 1..n - 1 : rest[i] = j.pending[i + 1]
    <2>1. rest \in Seq(BatchRecord) /\ Len(rest) = n - 1 /\ \A i \in 1..Len(rest) : rest[i] = j.pending[i + 1]
      BY <1>1, HeadTailProperties
    <2>2. DOMAIN rest = 1..Len(rest)
      <3> HIDE DEF rest
      <3> QED BY <2>1, LenProperties
    <2> QED BY <2>1, <2>2
  <1>6. /\ k \in Job /\ k.pc = j.pc /\ k.ready = units /\ k.out = j.out /\ k.taken = t /\ k.pending = rest
        /\ k.outcome = j.outcome
    <2>1. k = [j EXCEPT !.pending = rest, !.ready = units]
      OBVIOUS
    <2> HIDE DEF rest, units
    <2> QED BY <1>0, <1>4, <1>5, <2>1 DEF Job
  <1>7. /\ 1 \in 1..n /\ n - 1 + 1 = n /\ o + (c - o) = c
        /\ \A i \in 1..n - 1 : i \in 1..n /\ i + 1 \in 1..n
        /\ \A i \in 1..n : i \in 1..n + 1 /\ i + 1 \in 1..n + 1 /\ n + 1 - (i + 1) = n - i
    <2>1. o + (c - o) = c
      <3> HIDE DEF o, c
      <3> QED BY <1>1, <1>3
    <2> HIDE DEF n, o, c
    <2> QED BY <1>1, <2>1, OneLess
  <1>8. Batches(f, k)
    <2>1. \A i \in 1..n : Batched(f, j.pending[i])
      BY <1>0, <1>1 DEF Batches
    <2> HIDE DEF n, rest
    <2>2. \A i \in DOMAIN rest : Batched(f, rest[i])
      BY <1>5, <1>7, <2>1, Zenon
    <2> QED BY <1>6, <2>2, Zenon DEF Batches
  <1>9. Room(f, k)
    <2> DEFINE x == IF k.ready = <<>> THEN 0 ELSE 1
               m == f.maxPending
    <2>1. x \in {0, 1} /\ m \in Nat /\ n + 0 <= m
      BY <1>0, InputIs DEF Room
    <2> HIDE DEF n, x, m
    <2>2. n - 1 + x <= m
      BY <1>1, <2>1
    <2>3. Len(k.pending) = n - 1
      BY <1>5, <1>6
    <2> QED BY <2>2, <2>3 DEF Room, x, m
  <1>10. Given(f, k)
    <2>1. \A i \in 1..c : ~Bad(f, i)
      <3>1. \A i \in 1..o + 0 : ~Bad(f, i)
        BY <1>0, EmptyIs DEF Given
      <3>2. Head(j.pending) = j.pending[1]
        BY DEF Head
      <3>3. \A i \in 1..c - o : ~Bad(f, units[i])
        BY <1>0, <1>1, <1>4, <1>7, <3>2 DEF Batches, Batched
      <3>4. \A i \in 1..c - o : ~Bad(f, o + i)
        BY <1>4, <3>3
      <3>5. \A i \in 1..c : i \in 1..o + 0 \/ (i - o \in 1..c - o /\ o + (i - o) = i)
        <4> HIDE DEF o, c
        <4> QED BY <1>1, <1>3
      <3> HIDE DEF o, c
      <3> QED BY <3>1, <3>4, <3>5, Zenon
    <2>2. j.out = [i \in 1..o |-> i] /\ t <= LastOf(f)
      BY <1>0 DEF Given
    <2>3. Len(k.out) = o /\ Len(k.ready) = c - o
      BY <1>4, <1>6
    <2> HIDE DEF o, c, units, t
    <2> QED BY <1>3, <1>4, <1>6, <1>7, <2>1, <2>2, <2>3, Zenon DEF Given
  <1>11. Linked(f, k)
    <2>1. /\ at[n + 1] = t
          /\ \A i \in 1..n : Link(f, j, at, i)
          /\ \A i \in 1..n + 1 : at[i] <= t /\ t <= at[i] + (n + 1 - i) * b
      BY <1>2 DEF Links, Reach
    <2> DEFINE on == [i \in 1..n |-> at[i + 1]]
    <2>2. \A i \in 1..n : on[i] = at[i + 1]
      OBVIOUS
    <2>3. on \in [1..n -> Nat]
      <3>1. \A i \in 1..n : at[i + 1] \in Nat
        BY <1>2, <1>7
      <3> HIDE DEF n
      <3> QED BY <3>1
    <2>4. Len(k.pending) = n - 1 /\ k.taken = t /\ Len(k.out) = o /\ Len(k.ready) = c - o
      BY <1>4, <1>5, <1>6
    <2> HIDE DEF on, n, o, c, t, rest, units, b
    <2>5. on[1] = c /\ on[n] = t
      <3>1. 1 + 1 = 2 /\ n \in 1..n
        BY <1>1
      <3> QED BY <1>7, <2>1, <2>2, <3>1 DEF c
    <2>6. ASSUME NEW i \in 1..n - 1 PROVE Link(f, k, on, i)
      <3>1. on[i] = at[i + 1] /\ on[i + 1] = at[i + 1 + 1] /\ k.pending[i] = j.pending[i + 1]
        BY <1>5, <1>6, <1>7, <2>2
      <3>2. Link(f, j, at, i + 1)
        BY <1>7, <2>1
      <3> QED BY <3>1, <3>2, Zenon DEF Link
    <2>7. ASSUME NEW i \in 1..n PROVE Reach(f, k, on, i)
      <3>1. at[i + 1] <= t /\ t <= at[i + 1] + (n - i) * b
        BY <1>7, <2>1
      <3>2. n - 1 + 1 - i = n - i
        BY <1>1, <1>7, PlaceIs
      <3>3. on[i] <= k.taken /\ k.taken <= on[i] + (Len(k.pending) + 1 - i) * b
        BY <2>2, <2>4, <3>1, <3>2
      <3> QED BY <3>3 DEF Reach, b
    <2>8. Links(f, k, on)
      BY <1>7, <2>4, <2>5, <2>6, <2>7, Zenon DEF Links
    <2> QED BY <1>7, <2>3, <2>4, <2>8, Zenon DEF Linked
  <1>12. Told(f, k) /\ Joined(k)
    BY <1>0, <1>6 DEF Told, Joined, Places
  <1>13. Places(f, k)
    BY <1>0, <1>6, <1>11 DEF Places
  <1> QED BY <1>0, <1>6, <1>8, <1>9, <1>10, <1>12, <1>13 DEF Projecting

-----------------------------------------------------------------------------
(***************************************************************************)
(* The ends of a projection: what the error, and the end, have told.       *)
(***************************************************************************)
\* An error is told of within what may be pending
LEMMA FailureIs ==
  ASSUME NEW f, Parallel!IsInput(f)
  PROVE  /\ f.failAt > 0 => f.failAt \in FailuresOf(f) /\ f.failAt = LastOf(f) + 1
         /\ \A i \in 1..LastOf(f) : Bad(f, i) => i \in FailuresOf(f)
         /\ f.batchUnits <= f.maxPending * f.batchUnits /\ f.maxPending * f.batchUnits \in Nat
  <1>1. f.failAt > 0 => f.failAt \in FailuresOf(f) /\ f.failAt = LastOf(f) + 1
    <2>1. f.failAt \in Nat
      BY InputIs
    <2> QED BY <2>1 DEF FailuresOf, LastOf
  <1>2. ASSUME NEW i \in 1..LastOf(f), Bad(f, i) PROVE i \in FailuresOf(f)
    <2> DEFINE n == Len(f.units)
               m == LastOf(f)
    <2>1. n \in Nat /\ m \in Nat /\ m <= n /\ i \in 1..m /\ DOMAIN f.units = 1..n
      BY InputIs
    <2> HIDE DEF n, m
    <2>2. i \in 1..n
      BY <2>1
    <2> QED BY <1>2, <2>1, <2>2 DEF FailuresOf, Bad
  <1>3. f.batchUnits <= f.maxPending * f.batchUnits /\ f.maxPending * f.batchUnits \in Nat
    <2> DEFINE b == f.batchUnits
               m == f.maxPending
    <2>1. b \in Nat /\ m \in Nat /\ 1 <= m
      BY InputIs
    <2> HIDE DEF b, m
    <2>2. 1 * b = b /\ 1 * b <= m * b /\ m * b \in Nat
      BY <2>1, MoreTimes, OneMore
    <2>3. b <= m * b /\ m * b \in Nat
      BY <2>2
    <2> QED BY <2>3 DEF b, m
  <1> QED BY <1>1, <1>2, <1>3

\* A failure within one batch of what was given is told of as an error.
LEMMA ToldError ==
  ASSUME NEW f, Parallel!IsInput(f), NEW k, k.outcome = "error", Len(k.out) \in Nat,
         NEW n \in FailuresOf(f), n \in Nat, NEW d \in Nat, d < f.maxPending, n <= Len(k.out) + (d + 1) * f.batchUnits
  PROVE  Told(f, k)
  <1> DEFINE b == f.batchUnits
             m == f.maxPending
             o == Len(k.out)
  <1>1. b \in Nat /\ m \in Nat /\ d + 1 <= m /\ d + 1 \in Nat
    <2>1. b \in Nat /\ m \in Nat /\ d < m
      BY InputIs
    <2> HIDE DEF b, m
    <2> QED BY <2>1
  <1>2. n <= o + (d + 1) * b /\ o \in Nat
    OBVIOUS
  <1> HIDE DEF b, m, o
  <1> DEFINE s == (d + 1) * b
             u == m * b
  <1>3. s <= u /\ s \in Nat /\ u \in Nat
    BY <1>1, MoreTimes, OneMore
  <1>4. n <= o + s
    BY <1>2
  <1> HIDE DEF s, u
  <1>5. n <= o + u
    BY <1>2, <1>3, <1>4
  <1>6. \E i \in FailuresOf(f) : i <= Len(k.out) + f.maxPending * f.batchUnits
    BY <1>5 DEF o, u, m, b
  <1> QED BY <1>6 DEF Told

\* Nothing bad was given: at the end of a file that does not fail it was everything.
LEMMA ToldEnd ==
  ASSUME NEW f, Parallel!IsInput(f), NEW j, j \in Job, Given(f, j), f.failAt = 0, Len(j.out) = LastOf(f), NEW k,
         k.outcome = "end", k.out = j.out
  PROVE  Told(f, k)
  <1> DEFINE o == Len(j.out)
             r == Len(j.ready)
  <1>1. o \in Nat /\ r \in Nat /\ o = Len(f.units) /\ DOMAIN f.units = 1..o
    BY JobIs, InputIs DEF LastOf
  <1>2. \A i \in 1..o + r : ~Bad(f, i)
    BY DEF Given
  <1>3. \A i \in 1..o : i \in 1..o + r
    <2> HIDE DEF o, r
    <2> QED BY <1>1
  <1>4. FailuresOf(f) = {}
    BY <1>1, <1>2, <1>3 DEF FailuresOf, Bad
  <1> QED BY <1>1, <1>4 DEF Told

\* What is taken is at most one batch further than what is given, for each batch pending.
LEMMA TakenIs ==
  ASSUME NEW f, Parallel!IsInput(f), NEW j, Projecting(f, j), j.pc \in {"read", "drain"}, j.ready = <<>>
  PROVE  /\ Len(j.pending) \in Nat /\ Len(j.out) \in Nat /\ j.taken \in Nat
         /\ j.taken <= Len(j.out) + Len(j.pending) * f.batchUnits
         /\ j.pending = <<>> => j.taken = Len(j.out)
  <1>0. j \in Job /\ Places(f, j)
    BY DEF Projecting
  <1> DEFINE n == Len(j.pending)
             o == Len(j.out)
  <1>1. n \in Nat /\ o \in Nat /\ j.taken \in Nat /\ Len(j.ready) = 0
    BY <1>0, JobIs, EmptyIs
  <1>2. PICK at \in [1..n + 1 -> Nat] : Links(f, j, at)
    BY <1>0 DEF Places, Linked
  <1>3. at[1] = o + 0 /\ at[n + 1] = j.taken /\ \A i \in 1..n + 1 : j.taken <= at[i] + (n + 1 - i) * f.batchUnits
    BY <1>1, <1>2 DEF Links, Reach
  <1>4. o + 0 = o /\ 1 \in 1..n + 1 /\ n + 1 - 1 = n
    <2> HIDE DEF o, n
    <2> QED BY <1>1
  <1>5. j.taken <= o + n * f.batchUnits
    <2> HIDE DEF o, n
    <2>1. j.taken <= at[1] + (n + 1 - 1) * f.batchUnits
      BY <1>3, <1>4
    <2> QED BY <1>3, <1>4, <2>1
  <1>6. j.pending = <<>> => j.taken = o
    <2>1. j.pending = <<>> => n + 1 = 1
      BY EmptyIs
    <2> HIDE DEF o, n
    <2> QED BY <1>3, <1>4, <2>1
  <1> QED BY <1>1, <1>5, <1>6

\* An oldest batch that failed has a bad unit, within one batch of what was given.
LEMMA FailedIs ==
  ASSUME NEW f, Parallel!IsInput(f), NEW j, Projecting(f, j), j.pc \in {"read", "drain"}, j.ready = <<>>, j.pending # <<>>,
         Head(j.pending).state = "failed", NEW k, k.outcome = "error", k.out = j.out
  PROVE  Told(f, k)
  <1>0. j \in Job /\ Batches(f, j) /\ Given(f, j)
    BY DEF Projecting
  <1> DEFINE o == Len(j.out)
             units == Head(j.pending).units
             b == f.batchUnits
             t == j.taken
             last == LastOf(f)
  <1>1. PICK at \in [1..Len(j.pending) + 1 -> Nat] : at[1] = o /\ at[1] < at[2] /\ at[2] <= at[1] + b /\ at[2] <= t
          /\ units = From(at[1], at[2])
    BY OldestIs
  <1> DEFINE c == at[2]
  <1>2. c \in Nat /\ o \in Nat /\ t \in Nat /\ b \in Nat /\ last \in Nat /\ t <= last /\ o < c /\ c <= o + b /\ c <= t
    <2> DEFINE n == Len(j.pending)
    <2>1. n \in Nat \ {0} /\ at \in [1..n + 1 -> Nat]
      BY OldestIs, <1>1
    <2> HIDE DEF n
    <2>2. 2 \in 1..n + 1
      BY <2>1
    <2>3. at[2] \in Nat
      BY <2>1, <2>2
    <2> QED BY <1>0, <1>1, <2>3, JobIs, InputIs DEF Given
  <1>3. DOMAIN units = 1..c - o /\ \A i \in 1..c - o : units[i] = o + i
    <2>1. units = From(o, c)
      BY <1>1
    <2> HIDE DEF units, o, c
    <2> QED BY <1>2, <2>1, FromIs
  <1>4. PICK i \in DOMAIN units : Bad(f, units[i])
    <2>1. 1 \in DOMAIN j.pending /\ Head(j.pending) = j.pending[1]
      <3> DEFINE n == Len(j.pending)
      <3>1. n \in Nat \ {0} /\ DOMAIN j.pending = 1..n
        BY <1>0, OldestIs, JobIs
      <3> HIDE DEF n
      <3> QED BY <3>1 DEF Head
    <2> QED BY <1>0, <2>1 DEF Batches, Batched
  <1> DEFINE u == o + i
  <1>5. u \in 1..last /\ u <= o + b
    <2>1. i \in 1..c - o
      BY <1>3
    <2> HIDE DEF o, c, t, b, last
    <2> QED BY <1>2, <2>1
  <1>6. Bad(f, u)
    BY <1>3, <1>4
  <1>7. u \in FailuresOf(f)
    BY <1>5, <1>6, FailureIs
  <1>8. (0 + 1) * b = b /\ 0 < f.maxPending
    <2>1. f.maxPending \in Nat \ {0}
      BY InputIs
    <2>2. 0 < f.maxPending
      BY <2>1
    <2> HIDE DEF b
    <2> QED BY <1>2, <2>2
  <1>9. u \in Nat
    <2> HIDE DEF u, last
    <2> QED BY <1>5, <1>2
  <1> HIDE DEF u
  <1> QED BY <1>2, <1>5, <1>7, <1>8, <1>9, ToldError

-----------------------------------------------------------------------------
(***************************************************************************)
(* The batches _iter_batches makes.                                        *)
(***************************************************************************)
LEMMA LastIs == Parallel!Last = LastOf(input)
  BY DEF Parallel!Last, LastOf

\* A batch is not empty, has no more units than batch_units, and fits.
LEMMA BatchEndIs ==
  ASSUME Parallel!IsInput(input), NEW t \in Nat, t < LastOf(input)
  PROVE  /\ Parallel!BatchEnd(t + 1) \in Nat /\ t < Parallel!BatchEnd(t + 1) /\ Parallel!BatchEnd(t + 1) <= t + input.batchUnits
         /\ Parallel!BatchEnd(t + 1) <= LastOf(input)
         /\ Parallel!BatchEnd(t + 1) = t + 1 \/ Parallel!Bytes(t + 1, Parallel!BatchEnd(t + 1)) <= input.batchBytes
  <1> DEFINE first == t + 1
             last == LastOf(input)
             b == input.batchUnits
             Ends == {x \in first..last : x = last \/ Parallel!Full(first, x) \/ Parallel!Bytes(first, x + 1) > input.batchBytes}
             e == Parallel!BatchEnd(t + 1)
  <1>1. last \in Nat /\ b \in Nat \ {0} /\ input.batchBytes \in Nat /\ last <= Len(input.units)
    BY InputIs
  <1>2. Parallel!Min(Ends) = e
    BY LastIs DEF Parallel!BatchEnd
  <1>3. e \in Ends /\ \A x \in Ends : e <= x
    <2>1. first \in Nat /\ last \in first..last /\ first..last \subseteq Nat
      <3>0. t < last
        OBVIOUS
      <3> HIDE DEF last
      <3> QED BY <1>1, <3>0
    <2>2. Ends \subseteq Nat /\ last \in Ends
      <3> HIDE DEF last, first
      <3> QED BY <2>1
    <2> HIDE DEF Ends, e
    <2> QED BY <1>2, <2>2, MinIs
  <1>4. e \in first..last
    BY <1>3
  <1>5. e # first => /\ e - 1 \in first..last /\ ~Parallel!Full(first, e - 1) /\ ~(Parallel!Bytes(first, e - 1 + 1) > input.batchBytes)
    <2> SUFFICES ASSUME e # first PROVE e - 1 \in first..last /\ e - 1 \notin Ends
      BY DEF Ends
    <2>1. e - 1 \in first..last /\ ~(e <= e - 1)
      <3> HIDE DEF last, e
      <3> QED BY <1>1, <1>4
    <2> HIDE DEF Ends
    <2> QED BY <1>3, <2>1
  <1>6. e \in Nat /\ t < e /\ e <= last /\ (e # first => e - 1 + 1 = e /\ e <= Len(input.units))
    <2> DEFINE n == Len(input.units)
    <2>1. n \in Nat /\ last <= n
      BY InputIs
    <2> HIDE DEF last, e, n
    <2>2. e \in Nat /\ t < e /\ e <= last /\ (e # first => e - 1 + 1 = e /\ e <= n)
      BY <1>1, <1>4, <2>1
    <2> QED BY <2>2 DEF n
  <1>7. e = first \/ Parallel!Bytes(first, e) <= input.batchBytes
    <2> SUFFICES ASSUME e # first PROVE Parallel!Bytes(first, e) <= input.batchBytes
      OBVIOUS
    <2>1. first \in Nat \ {0}
      OBVIOUS
    <2>2. Parallel!Bytes(first, e) \in Nat
      <3> HIDE DEF first, e
      <3> QED BY <1>6, <2>1, BytesType
    <2>3. ~(Parallel!Bytes(first, e) > input.batchBytes)
      BY <1>5, <1>6
    <2> DEFINE x == Parallel!Bytes(first, e)
               y == input.batchBytes
    <2>4. x \in Nat /\ y \in Nat /\ ~(x > y)
      BY <1>1, <2>2, <2>3
    <2> HIDE DEF x, y
    <2>5. x <= y
      BY <2>4
    <2> QED BY <2>5 DEF x, y
  <1>8. e <= t + b
    <2>1. e # first => ~(e - 1 - first + 1 >= b)
      BY <1>5 DEF Parallel!Full
    <2> HIDE DEF e, b
    <2> QED BY <1>1, <1>6, <2>1
  <1> QED BY <1>6, <1>7, <1>8

LEMMA BatchIs ==
  ASSUME Parallel!IsInput(input), NEW t \in Nat, t < LastOf(input)
  PROVE  \E e \in Nat :
           /\ t < e /\ e <= t + input.batchUnits /\ e <= LastOf(input) /\ Fits(input, From(t, e))
           /\ Parallel!BatchEnd(t + 1) = e /\ Parallel!Batch(t + 1) = [units |-> From(t, e), state |-> "queued"]
  <1> DEFINE e == Parallel!BatchEnd(t + 1)
  <1>1. /\ e \in Nat /\ t < e /\ e <= t + input.batchUnits /\ e <= LastOf(input)
        /\ e = t + 1 \/ Parallel!Bytes(t + 1, e) <= input.batchBytes
    BY BatchEndIs
  <1> HIDE DEF e
  <1>2. From(t, e) = [i \in 1..(e - (t + 1) + 1) |-> (t + 1) + i - 1]
    <2>1. e - (t + 1) + 1 = e - t
      BY <1>1
    <2>2. \A i \in 1..e - t : (t + 1) + i - 1 = t + i
      BY <1>1
    <2> QED BY <2>1, <2>2 DEF From
  <1>3. Parallel!Batch(t + 1) = [units |-> From(t, e), state |-> "queued"]
    BY <1>2 DEF Parallel!Batch, e
  <1>4. Fits(input, From(t, e))
    <2> DEFINE units == From(t, e)
    <2>1. Len(units) = e - t /\ \A i \in 1..e - t : units[i] = t + i
      BY <1>1, FromIs
    <2>2. 1 \in 1..e - t /\ e - t \in 1..e - t /\ t + (e - t) = e /\ (e = t + 1 => e - t = 1)
      BY <1>1
    <2> HIDE DEF units
    <2>3. units[1] = t + 1 /\ units[Len(units)] = e /\ (e = t + 1 => Len(units) = 1)
      BY <2>1, <2>2
    <2>4. Parallel!Bytes(t + 1, e) = SumOf(input.units, t + 1..e)
      BY DEF Parallel!Bytes, SumOf
    <2>5. Fits(input, units)
      BY <1>1, <2>3, <2>4 DEF Fits
    <2> QED BY <2>5 DEF units
  <1> QED BY <1>1, <1>3, <1>4 DEF e

\* Reading fails within one batch of what is taken.
LEMMA FailsInIs ==
  ASSUME Parallel!IsInput(input), NEW t \in Nat, t <= LastOf(input)
  PROVE  /\ Parallel!FailsIn(t + 1) => input.failAt > 0 /\ input.failAt <= t + input.batchUnits
         /\ ~Parallel!FailsIn(t + 1) /\ t = LastOf(input) => input.failAt = 0
  <1> DEFINE last == LastOf(input)
             b == input.batchUnits
             at == input.failAt
  <1>1. last \in Nat /\ b \in Nat \ {0} /\ at \in Nat /\ (at > 0 => at = last + 1) /\ t <= last
    BY InputIs, FailureIs
  <1>2. Parallel!FailsIn(t + 1) => at > 0 /\ (t + 1 > last \/ ~(last - (t + 1) + 1 >= b))
    BY LastIs DEF Parallel!FailsIn, Parallel!Full
  <1>3. at > 0 /\ t + 1 > last => Parallel!FailsIn(t + 1)
    BY LastIs DEF Parallel!FailsIn
  <1> HIDE DEF last, b, at
  <1>4. Parallel!FailsIn(t + 1) => at > 0 /\ at <= t + b
    BY <1>1, <1>2
  <1>5. ~Parallel!FailsIn(t + 1) /\ t = last => at = 0
    BY <1>1, <1>3
  <1> QED BY <1>4, <1>5 DEF last, b, at

LEMMA SampleFailsIs ==
  ASSUME Parallel!IsInput(input), SampleUnits \in Nat, Parallel!SampleFails
  PROVE  input.failAt > 0 /\ input.failAt <= input.batchUnits
  <1> DEFINE last == LastOf(input)
             b == input.batchUnits
             at == input.failAt
             m == Parallel!Min({SampleUnits, b})
  <1>1. last \in Nat /\ b \in Nat /\ at \in Nat /\ (at > 0 => at = last + 1)
    BY InputIs, FailureIs
  <1>2. at > 0 /\ last < m
    BY LastIs DEF Parallel!SampleFails
  <1>3. m \in Nat /\ m <= b
    <2> DEFINE T == {SampleUnits, b}
    <2>1. T \subseteq Nat /\ T # {} /\ b \in T
      BY <1>1
    <2>2. Parallel!Min(T) \in T /\ \A y \in T : Parallel!Min(T) <= y
      <3> HIDE DEF T
      <3> QED BY <2>1, MinIs
    <2> QED BY <2>1, <2>2
  <1> HIDE DEF last, b, at, m
  <1>4. at > 0 /\ at <= b
    BY <1>1, <1>2, <1>3
  <1> QED BY <1>4 DEF at, b

-----------------------------------------------------------------------------
(***************************************************************************)
(* The steps keep the invariant.                                           *)
(***************************************************************************)
LEMMA LeaveIs ==
  ASSUME NEW j \in Job, NEW outcome \in {"end", "error", "closed"}
  PROVE  /\ Parallel!Leave(j, outcome) \in Job
         /\ Parallel!Leave(j, outcome).pc = "closing" /\ Parallel!Leave(j, outcome).ready = <<>> /\ Parallel!Leave(j, outcome).out = j.out
         /\ Parallel!Leave(j, outcome).taken = j.taken /\ Parallel!Leave(j, outcome).outcome = outcome
         /\ Parallel!Leave(j, outcome).pending = j.pending
  <1>1. <<>> \in Seq(Nat)
    BY EmptyIs
  <1> QED BY <1>1 DEF Parallel!Leave, Job

LEMMA LeaveGood ==
  ASSUME NEW f, Parallel!IsInput(f), NEW j, Projecting(f, j), NEW outcome \in {"end", "error", "closed"}, Told(f, Parallel!Leave(j, outcome))
  PROVE  Projecting(f, Parallel!Leave(j, outcome))
  <1> DEFINE k == Parallel!Leave(j, outcome)
  <1>1. /\ k \in Job /\ k.pc = "closing" /\ k.ready = <<>> /\ k.out = j.out /\ k.taken = j.taken
        /\ k.outcome # "none" /\ k.pending = j.pending
    BY LeaveIs DEF Projecting
  <1> HIDE DEF k
  <1>2. Told(f, k)
    BY DEF k
  <1>3. Projecting(f, k)
    BY <1>1, <1>2, LeaveKeeps
  <1> QED BY <1>3 DEF k

LEMMA InitGood ==
  ASSUME Parallel!InputsAssumption, Parallel!Init
  PROVE  ProjectingInv
  <1>1. input \in Projections /\ job = Parallel!Idle /\ Parallel!IsInput(input)
    BY DEF Parallel!Init, Parallel!InputsAssumption
  <1>2. job \in Job
    BY <1>1, EmptyIs DEF Parallel!Idle, Job
  <1>3. /\ job.pc = "new" /\ job.pending = <<>> /\ job.ready = <<>> /\ job.out = <<>> /\ job.taken = 0
        /\ job.outcome = "none"
    BY <1>1 DEF Parallel!Idle
  <1>4. Batches(input, job) /\ Places(input, job) /\ Told(input, job) /\ Joined(job)
    BY <1>1, <1>3 DEF Batches, Places, Told, Joined
  <1>5. Room(input, job)
    <2>1. Len(job.pending) = 0 /\ (IF job.ready = <<>> THEN 0 ELSE 1) = 0 /\ input.maxPending \in Nat /\ 0 + 0 = 0
      BY <1>1, <1>3, EmptyIs, InputIs
    <2> DEFINE m == input.maxPending
    <2>2. 0 <= m
      <3>1. m \in Nat
        BY <2>1
      <3> HIDE DEF m
      <3> QED BY <3>1
    <2> QED BY <2>1, <2>2 DEF Room
  <1>6. Given(input, job)
    <2>1. Len(job.out) = 0 /\ Len(job.ready) = 0 /\ DOMAIN job.ready = {} /\ job.taken = 0 /\ job.out = <<>>
      BY <1>3, EmptyIs
    <2>2. 0 + 0 = 0 /\ 0 <= 0 /\ 1..0 = {} /\ 0 <= LastOf(input)
      <3>1. LastOf(input) \in Nat
        BY <1>1, InputIs
      <3> QED BY <3>1
    <2>3. [i \in 1..0 |-> i] = <<>>
      OBVIOUS
    <2> QED BY <2>1, <2>2, <2>3 DEF Given
  <1> QED BY <1>1, <1>2, <1>4, <1>5, <1>6 DEF ProjectingInv, Projecting

\* The job after opening the reader
LEMMA StartGood ==
  ASSUME Parallel!InputsAssumption, Parallel!IsInput(input), ProjectingInv, Parallel!Start
  PROVE  Projecting(input, job')
  <1>0. /\ Projecting(input, job) /\ job \in Job /\ job.pc = "new" /\ Places(input, job) /\ SampleUnits \in Nat
        /\ Room(input, job) /\ Batches(input, job) /\ Given(input, job)
    BY DEF ProjectingInv, Projecting, Parallel!Start, Parallel!InputsAssumption
  <1> DEFINE opened == [job EXCEPT !.reader = "open", !.caller = "waits"]
  <1>1. opened \in Job /\ opened.out = job.out /\ opened.taken = job.taken /\ opened.pending = job.pending
    BY <1>0 DEF Job
  <1>2. \/ job' = [opened EXCEPT !.pc = "serial"]
        \/ job' = [opened EXCEPT !.pc = "read"]
        \/ Parallel!SampleFails /\ job' = Parallel!Leave(opened, "error")
    BY DEF Parallel!Start
  <1>3. CASE job' = [opened EXCEPT !.pc = "serial"] \/ job' = [opened EXCEPT !.pc = "read"]
    <2> DEFINE k == job'
    <2>1. \/ k = [job EXCEPT !.reader = "open", !.caller = "waits", !.pc = "serial"]
          \/ k = [job EXCEPT !.reader = "open", !.caller = "waits", !.pc = "read"]
      BY <1>3
    <2> HIDE DEF k
    <2>2. Projecting(input, k)
      BY <1>0, <2>1, OpenKeeps
    <2> QED BY <2>2 DEF k
  <1>4. CASE Parallel!SampleFails /\ job' = Parallel!Leave(opened, "error")
    <2> DEFINE k == Parallel!Leave(opened, "error")
    <2> HIDE DEF opened
    <2>1. /\ k \in Job /\ k.pc = "closing" /\ k.ready = <<>> /\ k.out = job.out /\ k.taken = job.taken
          /\ k.outcome = "error" /\ k.pending = job.pending
      BY <1>1, LeaveIs
    <2>2. input.failAt > 0 /\ input.failAt <= input.batchUnits
      BY <1>0, <1>4, SampleFailsIs
    <2> HIDE DEF k
    <2>3. Told(input, k)
      <3> DEFINE at == input.failAt
                 b == input.batchUnits
                 o == Len(k.out)
                 m == input.maxPending
      <3>1. at \in Nat /\ b \in Nat /\ m \in Nat \ {0} /\ at > 0 /\ at <= b
        BY <2>2, InputIs
      <3>2. o \in Nat
        BY <2>1, JobIs
      <3>3. at \in FailuresOf(input)
        BY <2>2, FailureIs
      <3> HIDE DEF at, b, o, m
      <3>4. 0 < m /\ (0 + 1) * b = b /\ at <= o + b
        BY <3>1, <3>2
      <3>5. at <= o + (0 + 1) * b
        BY <3>4
      <3> QED BY <2>1, <3>1, <3>2, <3>3, <3>4, <3>5, ToldError DEF b, o, m
    <2>4. Projecting(input, k)
      BY <1>0, <2>1, <2>3, LeaveKeeps
    <2> QED BY <1>4, <2>4 DEF k
  <1> QED BY <1>2, <1>3, <1>4

\* A failure at the next unit
LEMMA NextFails ==
  ASSUME NEW f, Parallel!IsInput(f), NEW j, Projecting(f, j), j.taken = Len(j.out),
         \/ j.taken = LastOf(f) /\ f.failAt > 0
         \/ j.taken # LastOf(f) /\ Bad(f, j.taken + 1)
  PROVE  Told(f, Parallel!Leave(j, "error"))
  <1> DEFINE k == Parallel!Leave(j, "error")
             t == j.taken
             last == LastOf(f)
             b == f.batchUnits
             m == f.maxPending
             n == t + 1
  <1>0. j \in Job /\ Given(f, j)
    BY DEF Projecting
  <1>1. k.out = j.out /\ k.outcome = "error"
    BY <1>0, LeaveIs
  <1>2. t \in Nat /\ last \in Nat /\ t <= last /\ b \in Nat \ {0} /\ m \in Nat \ {0}
    BY <1>0, JobIs, InputIs DEF Given
  <1>3. n \in FailuresOf(f)
    <2>1. CASE t = last /\ f.failAt > 0
      BY <2>1, FailureIs
    <2>2. CASE t # last /\ Bad(f, n)
      <3>1. n \in 1..last
        <4> HIDE DEF last, t
        <4> QED BY <1>2, <2>2
      <3> HIDE DEF n
      <3> QED BY <2>2, <3>1, FailureIs
    <2> QED BY <2>1, <2>2
  <1> HIDE DEF k
  <1>4. n \in Nat /\ 0 < m /\ (0 + 1) * b = b /\ n <= t + b
    <2> HIDE DEF t, b, m
    <2> QED BY <1>2
  <1>5. n \in Nat /\ 0 < m /\ n <= Len(k.out) + (0 + 1) * b /\ Len(k.out) \in Nat
    BY <1>1, <1>2, <1>4
  <1> HIDE DEF n
  <1>6. Told(f, k)
    BY <1>1, <1>3, <1>5, ToldError
  <1> QED BY <1>6 DEF k

LEMMA SerialNextGood ==
  ASSUME Parallel!IsInput(input), ProjectingInv, Parallel!SerialNext
  PROVE  Projecting(input, job')
  <1>0. Projecting(input, job) /\ job.pc = "serial" /\ job \in Job /\ Given(input, job) /\ Places(input, job)
    BY DEF ProjectingInv, Projecting, Parallel!SerialNext
  <1>1. job.taken = Len(job.out) /\ job.taken \in Nat
    BY <1>0, JobIs DEF Places
  <1>2. CASE job.taken = LastOf(input)
    <2>1. job' = Parallel!Leave(job, IF input.failAt > 0 THEN "error" ELSE "end")
      BY <1>2, LastIs DEF Parallel!SerialNext
    <2>2. CASE input.failAt > 0
      BY <1>0, <1>1, <1>2, <2>1, <2>2, NextFails, LeaveGood
    <2>3. CASE ~(input.failAt > 0)
      <3>1. input.failAt = 0
        <4> DEFINE at == input.failAt
        <4>1. at \in Nat /\ ~(at > 0)
          BY <2>3, InputIs
        <4> HIDE DEF at
        <4>2. at = 0
          BY <4>1
        <4> QED BY <4>2 DEF at
      <3>2. Parallel!Leave(job, "end").outcome = "end" /\ Parallel!Leave(job, "end").out = job.out
        BY <1>0, LeaveIs
      <3>3. Told(input, Parallel!Leave(job, "end"))
        BY <1>0, <1>1, <1>2, <3>1, <3>2, ToldEnd
      <3> QED BY <1>0, <2>1, <2>3, <3>3, LeaveGood
    <2> QED BY <2>2, <2>3
  <1>3. CASE job.taken # LastOf(input) /\ input.units[job.taken + 1].bad
    <2>1. job' = Parallel!Leave(job, "error")
      BY <1>3, LastIs DEF Parallel!SerialNext
    <2>2. Told(input, Parallel!Leave(job, "error"))
      BY <1>0, <1>1, <1>3, NextFails DEF Bad
    <2> QED BY <1>0, <2>1, <2>2, LeaveGood
  <1>4. CASE job.taken # LastOf(input) /\ ~input.units[job.taken + 1].bad
    <2> DEFINE k == job'
    <2>1. k = [job EXCEPT !.taken = job.taken + 1, !.out = Append(@, job.taken + 1), !.caller = "holds"]
      BY <1>4, LastIs DEF Parallel!SerialNext
    <2>2. ~Bad(input, job.taken + 1)
      BY <1>4 DEF Bad
    <2> HIDE DEF k
    <2>3. Projecting(input, k)
      BY <1>0, <1>4, <2>1, <2>2, SerialKeeps
    <2> QED BY <2>3 DEF k
  <1> QED BY <1>2, <1>3, <1>4

LEMMA SubmitGood ==
  ASSUME Parallel!IsInput(input), ProjectingInv, Parallel!Submit
  PROVE  Projecting(input, job')
  <1>0. /\ Projecting(input, job) /\ job.pc = "read" /\ job.ready = <<>> /\ Len(job.pending) < input.maxPending
        /\ job \in Job /\ Given(input, job)
    BY DEF ProjectingInv, Projecting, Parallel!Submit
  <1> DEFINE t == job.taken
             n == Len(job.pending)
             o == Len(job.out)
             b == input.batchUnits
  <1>1. n \in Nat /\ o \in Nat /\ t \in Nat /\ t <= o + n * b /\ t <= LastOf(input) /\ b \in Nat
    BY <1>0, TakenIs, InputIs DEF Given
  <1>2. CASE Parallel!FailsIn(job.taken + 1)
    <2>1. job' = Parallel!Leave(job, "error")
      BY <1>2 DEF Parallel!Submit
    <2> DEFINE k == Parallel!Leave(job, "error")
               at == input.failAt
               s == n * b
    <2>2. k.out = job.out /\ k.outcome = "error"
      BY <1>0, LeaveIs
    <2>3. at > 0 /\ at <= t + b /\ at \in Nat /\ at \in FailuresOf(input)
      BY <1>1, <1>2, FailsInIs, FailureIs, InputIs
    <2> HIDE DEF k
    <2>4. at <= o + (n + 1) * b
      <3> HIDE DEF t, n, o, b, at
      <3>1. s \in Nat /\ (n + 1) * b = s + b /\ t <= o + s
        BY <1>1, OneMore
      <3> HIDE DEF s
      <3>2. at <= o + (s + b)
        BY <1>1, <2>3, <3>1
      <3> QED BY <3>1, <3>2
    <2>5. Told(input, k)
      <3> HIDE DEF at
      <3> QED BY <1>0, <1>1, <2>2, <2>3, <2>4, ToldError
    <2> QED BY <1>0, <2>1, <2>5, LeaveGood DEF k
  <1>3. CASE ~Parallel!FailsIn(job.taken + 1) /\ job.taken = LastOf(input)
    <2> DEFINE k == job'
    <2>1. k = [job EXCEPT !.pc = "drain"]
      BY <1>3, LastIs DEF Parallel!Submit
    <2>2. input.failAt = 0
      BY <1>1, <1>3, FailsInIs
    <2> HIDE DEF k
    <2>3. Projecting(input, k)
      BY <1>0, <1>3, <2>1, <2>2, DrainKeeps
    <2> QED BY <2>3 DEF k
  <1>4. CASE ~Parallel!FailsIn(job.taken + 1) /\ job.taken # LastOf(input)
    <2> DEFINE k == job'
               last == LastOf(input)
    <2>1. k = [job EXCEPT !.taken = Parallel!BatchEnd(t + 1), !.pending = Append(@, Parallel!Batch(t + 1))]
      BY <1>4, LastIs DEF Parallel!Submit
    <2>2. t < last
      <3>1. t <= last /\ t # last /\ t \in Nat /\ last \in Nat
        BY <1>1, <1>4, InputIs
      <3> HIDE DEF t, last
      <3> QED BY <3>1
    <2>3. PICK e \in Nat :
            /\ t < e /\ e <= t + input.batchUnits /\ e <= LastOf(input) /\ Fits(input, From(t, e))
            /\ Parallel!BatchEnd(t + 1) = e /\ Parallel!Batch(t + 1) = [units |-> From(t, e), state |-> "queued"]
      BY <1>1, <2>2, BatchIs
    <2>4. k = [job EXCEPT !.taken = e, !.pending = Append(@, [units |-> From(job.taken, e), state |-> "queued"])]
      BY <2>1, <2>3
    <2> HIDE DEF k
    <2>5. Projecting(input, k)
      BY <1>0, <2>3, <2>4, SubmitKeeps
    <2> QED BY <2>5 DEF k
  <1> QED BY <1>2, <1>3, <1>4

LEMMA TakeGood ==
  ASSUME Parallel!IsInput(input), ProjectingInv, Parallel!Take
  PROVE  Projecting(input, job')
  <1>0. /\ Projecting(input, job) /\ job.pc \in {"read", "drain"} /\ job.ready = <<>> /\ job.pending # <<>> /\ job \in Job
    BY DEF ProjectingInv, Projecting, Parallel!Take
  <1> DEFINE rest == [job EXCEPT !.pending = Tail(@)]
             k == job'
  <1>1. \/ Head(job.pending).state = "failed" /\ k = Parallel!Leave(rest, "error")
        \/ Head(job.pending).state = "done" /\ k = [rest EXCEPT !.ready = Head(job.pending).units]
    BY DEF Parallel!Take
  <1>2. CASE Head(job.pending).state = "failed" /\ k = Parallel!Leave(rest, "error")
    <2>1. rest \in Job /\ rest.out = job.out /\ rest.taken = job.taken /\ rest.pending = Tail(job.pending)
      <3> DEFINE p == Tail(job.pending)
      <3>1. p \in Seq(BatchRecord)
        BY <1>0, JobIs, HeadTailProperties
      <3>2. rest = [job EXCEPT !.pending = p]
        OBVIOUS
      <3> HIDE DEF p
      <3>3. rest \in Job /\ rest.out = job.out /\ rest.taken = job.taken /\ rest.pending = p
        BY <1>0, <3>1, <3>2 DEF Job
      <3> QED BY <3>3 DEF p
    <2> HIDE DEF rest, k
    <2>2. /\ k \in Job /\ k.pc = "closing" /\ k.ready = <<>> /\ k.out = job.out /\ k.taken = job.taken
          /\ k.outcome = "error" /\ k.pending = Tail(job.pending)
      BY <1>2, <2>1, LeaveIs
    <2>3. Told(input, k)
      BY <1>0, <1>2, <2>2, FailedIs
    <2>4. Projecting(input, k)
      BY <1>0, <2>2, <2>3, LeaveKeeps
    <2> QED BY <2>4 DEF k
  <1>3. CASE Head(job.pending).state = "done" /\ k = [rest EXCEPT !.ready = Head(job.pending).units]
    <2>1. k = [job EXCEPT !.pending = Tail(@), !.ready = Head(job.pending).units]
      BY <1>3
    <2> HIDE DEF k
    <2>2. Projecting(input, k)
      BY <1>0, <1>3, <2>1, TakeKeeps
    <2> QED BY <2>2 DEF k
  <1> QED BY <1>1, <1>2, <1>3

LEMMA DeliverGood ==
  ASSUME Parallel!IsInput(input), ProjectingInv, Parallel!Deliver
  PROVE  Projecting(input, job')
  <1> DEFINE k == job'
  <1>1. /\ Projecting(input, job) /\ job.ready # <<>>
        /\ k = [job EXCEPT !.out = Append(@, Head(job.ready)), !.ready = Tail(@), !.caller = "holds"]
    BY DEF ProjectingInv, Parallel!Deliver
  <1> HIDE DEF k
  <1>2. Projecting(input, k)
    BY <1>1, DeliverKeeps
  <1> QED BY <1>2 DEF k

LEMMA DrainedGood ==
  ASSUME Parallel!IsInput(input), ProjectingInv, Parallel!Drained
  PROVE  Projecting(input, job')
  <1>1. /\ Projecting(input, job) /\ job \in Job /\ job.pc = "drain" /\ job.ready = <<>> /\ job.pending = <<>>
        /\ Given(input, job) /\ Places(input, job) /\ job' = Parallel!Leave(job, "end")
    BY DEF ProjectingInv, Projecting, Parallel!Drained
  <1>2. job.taken = LastOf(input) /\ input.failAt = 0 /\ job.taken = Len(job.out)
    BY <1>1, TakenIs DEF Places
  <1>3. Parallel!Leave(job, "end").outcome = "end" /\ Parallel!Leave(job, "end").out = job.out
    BY <1>1, LeaveIs
  <1>4. Told(input, Parallel!Leave(job, "end"))
    BY <1>1, <1>2, <1>3, ToldEnd
  <1> QED BY <1>1, <1>4, LeaveGood

LEMMA AskGood ==
  ASSUME Parallel!IsInput(input), ProjectingInv, Parallel!Ask
  PROVE  Projecting(input, job')
  <1> DEFINE k == job'
  <1>1. /\ Projecting(input, job) /\ job \in Job /\ job.pc \in {"serial", "read", "drain"} /\ Batches(input, job)
        /\ k = [job EXCEPT !.caller = "waits"]
    BY DEF ProjectingInv, Projecting, Parallel!Ask
  <1> HIDE DEF k
  <1>2. /\ k \in Job /\ k.pending = job.pending /\ k.ready = job.ready /\ k.out = job.out /\ k.taken = job.taken
        /\ k.outcome = job.outcome /\ k.pc = job.pc
    BY <1>1 DEF Job
  <1>3. \A i \in 1..Len(job.pending) : Batched(input, k.pending[i])
    BY <1>1, <1>2, JobIs DEF Batches
  <1>4. Joined(k)
    BY <1>1, <1>2 DEF Joined
  <1>5. Projecting(input, k)
    BY <1>1, <1>2, <1>3, <1>4, SameBatches
  <1> QED BY <1>5 DEF k

LEMMA DropGood ==
  ASSUME Parallel!IsInput(input), ProjectingInv, Parallel!Drop
  PROVE  Projecting(input, job')
  <1>1. /\ Projecting(input, job) /\ job \in Job /\ Room(input, job) /\ Batches(input, job) /\ Given(input, job)
        /\ Places(input, job) /\ input \in Projections
    BY DEF ProjectingInv, Projecting
  <1>2. CASE job.pc = "new"
    <2> DEFINE k == job'
    <2>1. k = [job EXCEPT !.pc = "done", !.outcome = "closed"] /\ job = Parallel!Idle
      BY <1>1, <1>2 DEF Parallel!Drop, Places
    <2> HIDE DEF k
    <2>2. k \in Job
      BY <1>1, <2>1 DEF Job
    <2>3. /\ k.pending = <<>> /\ k.ready = <<>> /\ k.out = job.out /\ k.taken = job.taken /\ k.reader = "none"
          /\ k.pc = "done" /\ k.outcome = "closed" /\ job.ready = <<>> /\ job.pending = <<>>
      BY <2>1 DEF Parallel!Idle
    <2>4. Room(input, k) /\ Batches(input, k) /\ Given(input, k) /\ Places(input, k) /\ Told(input, k) /\ Joined(k)
      BY <1>1, <2>3 DEF Room, Batches, Given, Places, Told, Joined
    <2>5. Projecting(input, k)
      BY <1>1, <2>2, <2>4 DEF Projecting
    <2> QED BY <2>5 DEF k
  <1>3. CASE job.pc # "new"
    <2>1. job' = Parallel!Leave(job, "closed")
      BY <1>3 DEF Parallel!Drop
    <2>2. Parallel!Leave(job, "closed").outcome = "closed"
      BY <1>1, LeaveIs
    <2>3. Told(input, Parallel!Leave(job, "closed"))
      BY <2>2 DEF Told
    <2> QED BY <1>1, <2>1, <2>3, LeaveGood
  <1> QED BY <1>2, <1>3

\* One batch gets another state
LEMMA StateOf ==
  ASSUME NEW j \in Job, NEW m \in 1..Len(j.pending), NEW state \in States, NEW k,
         k = [j EXCEPT !.pending[m].state = state]
  PROVE  /\ k \in Job /\ Len(k.pending) = Len(j.pending) /\ DOMAIN k.pending = 1..Len(j.pending)
         /\ k.pc = j.pc /\ k.ready = j.ready /\ k.out = j.out /\ k.taken = j.taken /\ k.outcome = j.outcome
         /\ k.reader = j.reader
         /\ k.pending[m].units = j.pending[m].units /\ k.pending[m].state = state
         /\ \A i \in 1..Len(j.pending) : i # m => k.pending[i] = j.pending[i]
  <1> DEFINE old == j.pending[m]
             batch == [old EXCEPT !.state = state]
             p == [j.pending EXCEPT ![m] = batch]
  <1>1. j.pending \in Seq(BatchRecord) /\ old \in BatchRecord
    BY JobIs
  <1>2. batch \in BatchRecord /\ batch.units = old.units /\ batch.state = state
    <2> HIDE DEF old
    <2> QED BY <1>1 DEF BatchRecord
  <1>3. k = [j EXCEPT !.pending = p]
    OBVIOUS
  <1> HIDE DEF batch
  <1>4. p \in Seq(BatchRecord) /\ Len(p) = Len(j.pending) /\ \A i \in 1..Len(j.pending) : p[i] = IF i = m THEN batch ELSE j.pending[i]
    BY <1>1, <1>2, ExceptSeq
  <1> HIDE DEF p
  <1>5. /\ k \in Job /\ k.pending = p /\ k.pc = j.pc /\ k.ready = j.ready /\ k.out = j.out /\ k.taken = j.taken
        /\ k.outcome = j.outcome /\ k.reader = j.reader
    BY <1>3, <1>4 DEF Job
  <1>6. DOMAIN p = 1..Len(p)
    BY <1>4, LenProperties
  <1> QED BY <1>2, <1>4, <1>5, <1>6 DEF old

\* A batch that is pending: there is a pool, and its results are still waited for, or given up.
LEMMA PendingIs ==
  ASSUME NEW f, NEW j, Projecting(f, j), NEW m \in DOMAIN j.pending
  PROVE  j \in Job /\ m \in 1..Len(j.pending) /\ j.pc # "new" /\ Batches(f, j) /\ Joined(j)
  <1>1. j \in Job /\ Places(f, j) /\ Batches(f, j) /\ Joined(j)
    BY DEF Projecting
  <1>2. DOMAIN j.pending = 1..Len(j.pending)
    BY <1>1, JobIs
  <1>3. j.pc # "new"
    <2> SUFFICES ASSUME j.pc = "new" PROVE FALSE
      OBVIOUS
    <2>1. j.pending = <<>>
      BY <1>1 DEF Places, Parallel!Idle
    <2> QED BY <2>1, EmptyIs
  <1> QED BY <1>1, <1>2, <1>3

LEMMA StartBatchGood ==
  ASSUME Parallel!IsInput(input), ProjectingInv, Parallel!StartBatch
  PROVE  Projecting(input, job')
  <1> DEFINE k == job'
             m == Parallel!Min(Parallel!In("queued"))
  <1>1. Projecting(input, job) /\ Parallel!In("queued") # {} /\ k = [job EXCEPT !.pending[m].state = "running"]
    BY DEF ProjectingInv, Parallel!StartBatch
  <1>2. m \in Parallel!In("queued")
    <2>1. Parallel!In("queued") \subseteq Nat
      <3>1. job \in Job
        BY <1>1 DEF Projecting
      <3>2. DOMAIN job.pending = 1..Len(job.pending) /\ Len(job.pending) \in Nat
        BY <3>1, JobIs
      <3> QED BY <3>2 DEF Parallel!In
    <2> DEFINE S == Parallel!In("queued")
    <2>2. S \subseteq Nat /\ S # {}
      BY <1>1, <2>1
    <2> HIDE DEF S
    <2>3. Parallel!Min(S) \in S
      BY <2>2, MinIs
    <2> QED BY <2>3 DEF S
  <1>3. m \in DOMAIN job.pending /\ job.pending[m].state = "queued"
    BY <1>2 DEF Parallel!In
  <1>4. /\ job \in Job /\ m \in 1..Len(job.pending) /\ job.pc # "new" /\ Batches(input, job) /\ Joined(job)
        /\ DOMAIN job.pending = 1..Len(job.pending)
    <2> HIDE DEF m
    <2> QED BY <1>1, <1>3, PendingIs, JobIs
  <1> HIDE DEF k, m
  <1>5. /\ k \in Job /\ Len(k.pending) = Len(job.pending)
        /\ k.pc = job.pc /\ k.ready = job.ready /\ k.out = job.out /\ k.taken = job.taken /\ k.outcome = job.outcome
        /\ k.pending[m].units = job.pending[m].units /\ k.pending[m].state = "running"
        /\ \A i \in 1..Len(job.pending) : i # m => k.pending[i] = job.pending[i]
    BY <1>1, <1>4, StateOf, SMTT(30) DEF States
  <1>6. \A i \in 1..Len(job.pending) : k.pending[i].units = job.pending[i].units
    BY <1>5
  <1>7. \A i \in 1..Len(job.pending) : Batched(input, k.pending[i])
    <2>1. \A i \in 1..Len(job.pending) : Batched(input, job.pending[i])
      BY <1>4 DEF Batches
    <2>2. Batched(input, k.pending[m])
      BY <1>4, <1>5, <2>1 DEF Batched
    <2> QED BY <1>5, <2>1, <2>2
  <1>8. Joined(k)
    <2>1. job.pc \notin {"joining", "done"}
      BY <1>3, <1>4 DEF Joined
    <2> QED BY <1>5, <2>1 DEF Joined
  <1>9. Projecting(input, k)
    BY <1>1, <1>4, <1>5, <1>6, <1>7, <1>8, SameBatches
  <1> QED BY <1>9 DEF k

LEMMA EndBatchGood ==
  ASSUME Parallel!IsInput(input), ProjectingInv, Parallel!EndBatch
  PROVE  Projecting(input, job')
  <1> DEFINE k == job'
             Spoils(m) == \E n \in DOMAIN job.pending[m].units : input.units[job.pending[m].units[n]].bad
             Told1(m) == IF Spoils(m) THEN "failed" ELSE "done"
  <1>1. Projecting(input, job)
    BY DEF ProjectingInv
  <1>2. PICK m \in Parallel!In("running") : k = [job EXCEPT !.pending[m].state = Told1(m)]
    BY DEF Parallel!EndBatch
  <1> DEFINE state == Told1(m)
  <1>3. m \in DOMAIN job.pending /\ job.pending[m].state = "running"
    BY <1>2 DEF Parallel!In
  <1>4. /\ job \in Job /\ m \in 1..Len(job.pending) /\ job.pc # "new" /\ Batches(input, job) /\ Joined(job)
        /\ DOMAIN job.pending = 1..Len(job.pending)
    BY <1>1, <1>3, PendingIs, JobIs
  <1>5. /\ state \in {"failed", "done"} /\ state \in States
        /\ state = "failed" => \E n \in DOMAIN job.pending[m].units : Bad(input, job.pending[m].units[n])
        /\ state = "done" => \A n \in DOMAIN job.pending[m].units : ~Bad(input, job.pending[m].units[n])
    BY DEF States, Bad
  <1>6. k = [job EXCEPT !.pending[m].state = state]
    BY <1>2
  <1> HIDE DEF k, state
  <1>7. /\ k \in Job /\ Len(k.pending) = Len(job.pending) /\ DOMAIN k.pending = 1..Len(job.pending)
        /\ k.pc = job.pc /\ k.ready = job.ready /\ k.out = job.out /\ k.taken = job.taken /\ k.outcome = job.outcome
        /\ k.reader = job.reader
        /\ k.pending[m].units = job.pending[m].units /\ k.pending[m].state = state
        /\ \A i \in 1..Len(job.pending) : i # m => k.pending[i] = job.pending[i]
    BY <1>4, <1>5, <1>6, StateOf
  <1>8. \A i \in 1..Len(job.pending) : k.pending[i].units = job.pending[i].units
    BY <1>7
  <1>9. \A i \in 1..Len(job.pending) : Batched(input, k.pending[i])
    <2>1. \A i \in 1..Len(job.pending) : Batched(input, job.pending[i])
      BY <1>4 DEF Batches
    <2>2. Batched(input, k.pending[m])
      BY <1>4, <1>5, <1>7, <2>1 DEF Batched
    <2> QED BY <1>7, <2>1, <2>2
  <1>10. Joined(k)
    <2>1. job.pc # "done"
      BY <1>3, <1>4 DEF Joined
    <2>2. ASSUME job.pc = "joining", NEW i \in 1..Len(job.pending) PROVE k.pending[i].state # "queued"
      <3>1. job.pending[i].state # "queued"
        BY <1>4, <2>2 DEF Joined
      <3> QED BY <1>5, <1>7, <3>1
    <2>3. job.pc = "joining" => job.reader # "open"
      BY <1>4 DEF Joined
    <2> QED BY <1>7, <2>1, <2>2, <2>3 DEF Joined
  <1>11. Projecting(input, k)
    BY <1>1, <1>4, <1>7, <1>8, <1>9, <1>10, SameBatches
  <1> QED BY <1>11 DEF k

LEMMA CloseGood ==
  ASSUME Parallel!IsInput(input), ProjectingInv, Parallel!Close
  PROVE  Projecting(input, job')
  <1> DEFINE k == job'
             After(batch) == IF batch.state = "queued" THEN [batch EXCEPT !.state = "cancelled"] ELSE batch
             p == [i \in DOMAIN job.pending |-> After(job.pending[i])]
  <1>1. Projecting(input, job) /\ job.pc = "closing" /\ job \in Job /\ Batches(input, job)
    BY DEF ProjectingInv, Projecting, Parallel!Close
  <1>2. k = [job EXCEPT !.pc = "joining", !.reader = "closed", !.pending = p]
    BY DEF Parallel!Close
  <1>3. job.pending \in Seq(BatchRecord) /\ Len(job.pending) \in Nat /\ DOMAIN job.pending = 1..Len(job.pending)
    BY <1>1, JobIs
  <1>4. ASSUME NEW batch \in BatchRecord
        PROVE  /\ After(batch) \in BatchRecord /\ After(batch).units = batch.units
               /\ After(batch).state # "queued" /\ (Batched(input, batch) => Batched(input, After(batch)))
    <2>1. CASE batch.state = "queued"
      <3> DEFINE after == [batch EXCEPT !.state = "cancelled"]
      <3>1. after \in BatchRecord /\ after.units = batch.units /\ after.state = "cancelled"
        BY DEF BatchRecord, States
      <3>2. After(batch) = after
        BY <2>1
      <3> HIDE DEF after, After
      <3> QED BY <3>1, <3>2 DEF Batched
    <2>2. CASE batch.state # "queued"
      BY <2>2
    <2> QED BY <2>1, <2>2
  <1>5. \A i \in 1..Len(job.pending) : job.pending[i] \in BatchRecord
    BY <1>1, JobIs
  <1>6. \A i \in 1..Len(job.pending) : p[i] = After(job.pending[i])
    BY <1>3
  <1>7. p \in Seq(BatchRecord) /\ Len(p) = Len(job.pending)
    <2> DEFINE n == Len(job.pending)
    <2>1. n \in Nat /\ DOMAIN p = 1..n /\ p = [i \in 1..n |-> p[i]] /\ \A i \in 1..n : p[i] \in BatchRecord
      <3>1. DOMAIN p = 1..n /\ p = [i \in 1..n |-> p[i]]
        BY <1>3
      <3> HIDE DEF p, After
      <3> QED BY <1>3, <1>4, <1>5, <1>6, <3>1
    <2> HIDE DEF n, p
    <2>2. p \in [1..n -> BatchRecord]
      BY <2>1
    <2>3. p \in Seq(BatchRecord) /\ Len(p) = n
      BY <2>1, <2>2
    <2> QED BY <2>3 DEF n
  <1> HIDE DEF k, p, After
  <1>8. /\ k \in Job /\ k.pending = p /\ k.pc = "joining" /\ k.reader = "closed" /\ k.ready = job.ready /\ k.out = job.out
        /\ k.taken = job.taken /\ k.outcome = job.outcome
    BY <1>1, <1>2, <1>7 DEF Job
  <1>9. \A i \in 1..Len(job.pending) : k.pending[i].units = job.pending[i].units /\ Batched(input, k.pending[i])
    BY <1>1, <1>3, <1>4, <1>5, <1>6, <1>8 DEF Batches
  <1>10. Joined(k)
    <2>1. DOMAIN p = 1..Len(job.pending)
      BY <1>7, LenProperties
    <2>2. \A i \in DOMAIN p : p[i].state # "queued"
      BY <1>4, <1>5, <1>6, <2>1
    <2> QED BY <1>8, <2>2 DEF Joined
  <1>11. Projecting(input, k)
    BY <1>1, <1>7, <1>8, <1>9, <1>10, SameBatches
  <1> QED BY <1>11 DEF k

LEMMA JoinGood ==
  ASSUME Parallel!IsInput(input), ProjectingInv, Parallel!Join
  PROVE  Projecting(input, job')
  <1> DEFINE k == job'
  <1>1. /\ Projecting(input, job) /\ job.pc = "joining" /\ job \in Job /\ Batches(input, job) /\ Joined(job)
        /\ Parallel!In("running") = {} /\ k = [job EXCEPT !.pc = "done"]
    BY DEF ProjectingInv, Projecting, Parallel!Join
  <1> HIDE DEF k
  <1>2. /\ k \in Job /\ k.pending = job.pending /\ k.pc = "done" /\ k.reader = job.reader /\ k.ready = job.ready
        /\ k.out = job.out /\ k.taken = job.taken /\ k.outcome = job.outcome
    BY <1>1 DEF Job
  <1>3. \A i \in 1..Len(job.pending) : Batched(input, k.pending[i])
    BY <1>1, <1>2, JobIs DEF Batches
  <1>4. Joined(k)
    <2>1. \A i \in DOMAIN job.pending : job.pending[i].state # "running"
      BY <1>1 DEF Parallel!In
    <2> QED BY <1>1, <1>2, <2>1 DEF Joined
  <1>5. Projecting(input, k)
    BY <1>1, <1>2, <1>3, <1>4, SameBatches
  <1> QED BY <1>5 DEF k

LEMMA NextGood ==
  ASSUME Parallel!InputsAssumption, ProjectingInv, [Parallel!Next]_(Parallel!vars)
  PROVE  ProjectingInv'
  <1>1. Parallel!IsInput(input)
    BY DEF ProjectingInv, Projecting, Parallel!InputsAssumption
  <1>2. ASSUME input' = input, Projecting(input, job') PROVE ProjectingInv'
    BY <1>2 DEF ProjectingInv
  <1>3. CASE Parallel!Next
    <2>1. input' = input
      BY <1>3 DEF Parallel!Next, Parallel!Start, Parallel!SerialNext, Parallel!Submit, Parallel!Take, Parallel!Deliver, Parallel!Drained, Parallel!Ask, Parallel!Drop, Parallel!StartBatch, Parallel!EndBatch, Parallel!Close, Parallel!Join
    <2>2. Projecting(input, job')
      BY <1>1, <1>3, StartGood, SerialNextGood, SubmitGood, TakeGood, DeliverGood, DrainedGood, AskGood, DropGood,
         StartBatchGood, EndBatchGood, CloseGood, JoinGood DEF Parallel!Next
    <2> QED BY <1>2, <2>1, <2>2
  <1>4. CASE UNCHANGED Parallel!vars
    BY <1>4 DEF Parallel!vars, ProjectingInv
  <1> QED BY <1>3, <1>4

-----------------------------------------------------------------------------
(***************************************************************************)
(* The results.                                                            *)
(***************************************************************************)
\* extract_tmx_parallel: the inductive invariant holds in every behaviour.
THEOREM ProjectionInvariant ==
  ASSUME Parallel!InputsAssumption
  PROVE  Parallel!Spec => []ProjectingInv
  <1>1. Parallel!Init => ProjectingInv
    BY InitGood
  <1>2. ProjectingInv /\ [Parallel!Next]_(Parallel!vars) => ProjectingInv'
    BY NextGood
  <1> QED BY <1>1, <1>2, PTL DEF Parallel!Spec

LEMMA SumIsBytes == \A a, b : Parallel!Bytes(a, b) = SumOf(input.units, a..b)
  BY DEF Parallel!Bytes, SumOf

LEMMA ProjectionFits ==
  ASSUME ProjectingInv
  PROVE  Parallel!ProjectionIsBounded
  BY SumIsBytes DEF ProjectingInv, Projecting, Room, Batches, Batched, Fits, Parallel!ProjectionIsBounded

\* The pending batches are within max_pending_batches, and a batch of several units within
\* batch_bytes (TmxParallelOptions, _iter_batches).
THEOREM ProjectionBounded ==
  ASSUME Parallel!InputsAssumption
  PROVE  Parallel!Spec => []Parallel!ProjectionIsBounded
  <1>1. ProjectingInv => Parallel!ProjectionIsBounded
    BY ProjectionFits
  <1> QED BY <1>1, ProjectionInvariant, PTL

\* The batches that no thread has begun are the last ones, and none is cancelled before the end.
InTurn(j) ==
  /\ \A i, n \in 1..Len(j.pending) : i < n /\ j.pending[i].state = "queued" => j.pending[n].state = "queued"
  /\ j.pc \in {"read", "drain"} => \A i \in 1..Len(j.pending) : j.pending[i].state # "cancelled"

LEMMA SameTurn ==
  ASSUME NEW j, InTurn(j), NEW k, k.pending = j.pending, k.pc \in {"read", "drain"} => j.pc \in {"read", "drain"}
  PROVE  InTurn(k)
  BY DEF InTurn

LEMMA NoTurn ==
  ASSUME NEW k, k.pending = <<>>
  PROVE  InTurn(k)
  <1>1. Len(k.pending) = 0 /\ 1..0 = {}
    BY EmptyIs
  <1> QED BY <1>1 DEF InTurn

\* A new batch is the last one.
LEMMA LastTurn ==
  ASSUME NEW j \in Job, InTurn(j), j.pc = "read", NEW batch \in BatchRecord, batch.state = "queued",
         NEW k, k.pending = Append(j.pending, batch)
  PROVE  InTurn(k)
  <1> DEFINE n == Len(j.pending)
             p == k.pending
  <1>1. /\ n \in Nat /\ Len(p) = n + 1 /\ p[n + 1] = batch
        /\ \A i \in 1..n : p[i] = j.pending[i]
    BY JobIs, AppendProperties
  <1>2. /\ \A i, m \in 1..n : i < m /\ j.pending[i].state = "queued" => j.pending[m].state = "queued"
        /\ \A i \in 1..n : j.pending[i].state # "cancelled"
    BY DEF InTurn
  <1> HIDE DEF n, p
  <1>3. \A i \in 1..n + 1 : i \in 1..n \/ i = n + 1
    BY <1>1
  <1>4. \A i \in 1..n + 1 : p[i].state # "cancelled"
    BY <1>1, <1>2, <1>3
  <1>5. \A i, m \in 1..n + 1 : i < m /\ p[i].state = "queued" => p[m].state = "queued"
    BY <1>1, <1>2, <1>3
  <1> QED BY <1>1, <1>4, <1>5 DEF InTurn, p

\* The others move up.
LEMMA NextTurn ==
  ASSUME NEW j \in Job, InTurn(j), j.pc \in {"read", "drain"}, j.pending # <<>>, NEW k, k.pending = Tail(j.pending)
  PROVE  InTurn(k)
  <1> DEFINE n == Len(j.pending)
             p == k.pending
  <1>1. /\ n \in Nat \ {0} /\ Len(p) = n - 1
        /\ \A i \in 1..n - 1 : p[i] = j.pending[i + 1]
    <2>1. j.pending \in Seq(BatchRecord) /\ n \in Nat \ {0}
      BY JobIs, EmptyIs
    <2> QED BY <2>1, HeadTailProperties
  <1>2. /\ \A i, m \in 1..n : i < m /\ j.pending[i].state = "queued" => j.pending[m].state = "queued"
        /\ \A i \in 1..n : j.pending[i].state # "cancelled"
    BY DEF InTurn
  <1> HIDE DEF n, p
  <1>3. \A i \in 1..n - 1 : i + 1 \in 1..n
    BY <1>1
  <1>4. \A i \in 1..n - 1 : p[i].state # "cancelled"
    BY <1>1, <1>2, <1>3
  <1>5. ASSUME NEW i \in 1..n - 1, NEW m \in 1..n - 1, i < m, p[i].state = "queued"
        PROVE  p[m].state = "queued"
    <2>1. i + 1 < m + 1
      BY <1>1, <1>5
    <2> QED BY <1>1, <1>2, <1>3, <1>5, <2>1
  <1> QED BY <1>1, <1>4, <1>5 DEF InTurn, p

\* A batch before which none is queued leaves the queue.
LEMMA TakesTurn ==
  ASSUME NEW j \in Job, InTurn(j), NEW m \in 1..Len(j.pending), NEW state \in {"running", "done", "failed"},
         \A i \in 1..Len(j.pending) : j.pending[i].state = "queued" => m <= i,
         NEW k, k = [j EXCEPT !.pending[m].state = state]
  PROVE  InTurn(k)
  <1> DEFINE n == Len(j.pending)
             p == k.pending
  <1>1. /\ n \in Nat /\ m \in 1..n /\ Len(p) = n /\ k.pc = j.pc /\ p[m].state = state
        /\ \A i \in 1..n : i # m => p[i] = j.pending[i]
    BY JobIs, StateOf DEF States
  <1>2. /\ \A i, l \in 1..n : i < l /\ j.pending[i].state = "queued" => j.pending[l].state = "queued"
        /\ j.pc \in {"read", "drain"} => \A i \in 1..n : j.pending[i].state # "cancelled"
        /\ \A i \in 1..n : j.pending[i].state = "queued" => m <= i
    BY DEF InTurn
  <1> HIDE DEF n, p
  <1>3. k.pc \in {"read", "drain"} => \A i \in 1..n : p[i].state # "cancelled"
    BY <1>1, <1>2
  <1>4. ASSUME NEW i \in 1..n, NEW l \in 1..n, i < l, p[i].state = "queued"
        PROVE  p[l].state = "queued"
    <2>1. i # m /\ j.pending[i].state = "queued" /\ m <= i
      BY <1>1, <1>2, <1>4
    <2>2. l # m
      BY <1>4, <2>1
    <2> QED BY <1>1, <1>2, <1>4, <2>1, <2>2
  <1> QED BY <1>1, <1>3, <1>4 DEF InTurn, p

LEMMA StartBatchTurn ==
  ASSUME ProjectingInv, InTurn(job), Parallel!StartBatch
  PROVE  InTurn(job')
  <1> DEFINE S == Parallel!In("queued")
             n == Len(job.pending)
  <1>1. job \in Job /\ DOMAIN job.pending = 1..n /\ n \in Nat
    BY JobIs DEF ProjectingInv, Projecting
  <1>2. S # {} /\ S = {i \in 1..n : job.pending[i].state = "queued"}
    BY <1>1 DEF Parallel!StartBatch, Parallel!In
  <1>3. S \subseteq Nat
    <2> HIDE DEF n
    <2> QED BY <1>1, <1>2
  <1>4. job' = [job EXCEPT !.pending[Parallel!Min(S)].state = "running"]
    BY DEF Parallel!StartBatch
  <1> HIDE DEF S
  <1>5. Parallel!Min(S) \in S /\ \A i \in S : Parallel!Min(S) <= i
    BY <1>2, <1>3, MinIs
  <1> DEFINE m == Parallel!Min(S)
  <1>6. m \in 1..n /\ \A i \in 1..n : job.pending[i].state = "queued" => m <= i
    BY <1>2, <1>5
  <1>7. job' = [job EXCEPT !.pending[m].state = "running"]
    BY <1>4
  <1> HIDE DEF m
  <1> QED BY <1>1, <1>6, <1>7, TakesTurn

LEMMA EndBatchTurn ==
  ASSUME ProjectingInv, InTurn(job), Parallel!EndBatch
  PROVE  InTurn(job')
  <1>1. job \in Job /\ DOMAIN job.pending = 1..Len(job.pending) /\ Len(job.pending) \in Nat
    BY JobIs DEF ProjectingInv, Projecting
  <1>2. PICK m \in DOMAIN job.pending, state \in {"done", "failed"} :
               job.pending[m].state = "running" /\ job' = [job EXCEPT !.pending[m].state = state]
    <2>1. PICK m \in Parallel!In("running") :
                 LET bad == \E n \in DOMAIN job.pending[m].units : input.units[job.pending[m].units[n]].bad
                 IN job' = [job EXCEPT !.pending[m].state = IF bad THEN "failed" ELSE "done"]
      BY DEF Parallel!EndBatch
    <2>2. m \in DOMAIN job.pending /\ job.pending[m].state = "running"
      BY <2>1 DEF Parallel!In
    <2> DEFINE bad == \E n \in DOMAIN job.pending[m].units : input.units[job.pending[m].units[n]].bad
    <2>3. job' = [job EXCEPT !.pending[m].state = IF bad THEN "failed" ELSE "done"]
      BY <2>1
    <2> HIDE DEF bad
    <2>4. CASE bad
      BY <2>2, <2>3, <2>4
    <2>5. CASE ~bad
      BY <2>2, <2>3, <2>5
    <2> QED BY <2>4, <2>5
  <1> DEFINE n == Len(job.pending)
  <1>3. \A i \in 1..n : job.pending[i].state = "queued" => m <= i
    <2>1. \A i, l \in 1..n : i < l /\ job.pending[i].state = "queued" => job.pending[l].state = "queued"
      BY DEF InTurn
    <2>2. n \in Nat /\ m \in 1..n
      BY <1>1
    <2> HIDE DEF n
    <2>3. ASSUME NEW i \in 1..n, job.pending[i].state = "queued" PROVE m <= i
      <3>1. ~(i < m)
        BY <1>2, <2>1, <2>2, <2>3
      <3> QED BY <2>2, <2>3, <3>1
    <2> QED BY <2>3
  <1> QED BY <1>1, <1>2, <1>3, TakesTurn

\* Closing takes all of them out of the queue.
LEMMA CloseTurn ==
  ASSUME ProjectingInv, InTurn(job), Parallel!Close
  PROVE  InTurn(job')
  <1> DEFINE p == [i \in DOMAIN job.pending |-> IF job.pending[i].state = "queued"
                     THEN [job.pending[i] EXCEPT !.state = "cancelled"] ELSE job.pending[i]]
             n == Len(job.pending)
  <1>1. /\ job \in Job /\ DOMAIN job.pending = 1..n /\ n \in Nat
        /\ \A i \in 1..n : job.pending[i] \in BatchRecord
    BY JobIs DEF ProjectingInv, Projecting
  <1>2. job'.pending = p /\ job'.pc = "joining"
    BY <1>1 DEF Parallel!Close, Job
  <1>3. Len(p) = n /\ \A i \in 1..n : p[i].state # "queued"
    <2>1. \A i \in 1..n : p[i].state # "queued"
      <3> SUFFICES ASSUME NEW i \in 1..n PROVE p[i].state # "queued"
        OBVIOUS
      <3> DEFINE b == job.pending[i]
      <3>1. b \in BatchRecord /\ p[i] = IF b.state = "queued" THEN [b EXCEPT !.state = "cancelled"] ELSE b
        BY <1>1
      <3> HIDE DEF b, p
      <3> QED BY <3>1 DEF BatchRecord
    <2>2. p = [i \in 1..n |-> p[i]]
      BY <1>1
    <2>3. Len(p) = n
      <3> HIDE DEF p, n
      <3> QED BY <1>1, <2>2
    <2> QED BY <2>1, <2>3
  <1> HIDE DEF p
  <1> QED BY <1>2, <1>3 DEF InTurn

LEMMA NextInTurn ==
  ASSUME Parallel!IsInput(input), ProjectingInv, InTurn(job), Parallel!Next
  PROVE  InTurn(job')
  <1>1. job \in Job /\ Places(input, job)
    BY DEF ProjectingInv, Projecting
  <1>2. CASE Parallel!Start
    <2>1. job.pending = <<>>
      BY <1>1, <1>2 DEF Parallel!Start, Places, Parallel!Idle
    <2>2. job'.pending = <<>>
      BY <1>1, <1>2, <2>1 DEF Parallel!Start, Parallel!Leave, Job
    <2> QED BY <2>2, NoTurn
  <1>3. CASE Parallel!SerialNext \/ Parallel!Deliver \/ Parallel!Drained \/ Parallel!Ask \/ Parallel!Drop \/ Parallel!Join
    <2>1. job'.pending = job.pending /\ (job'.pc \in {"read", "drain"} => job.pc \in {"read", "drain"})
      BY <1>1, <1>3 DEF Parallel!SerialNext, Parallel!Deliver, Parallel!Drained, Parallel!Ask, Parallel!Drop, Parallel!Join, Parallel!Leave, Job
    <2> DEFINE k == job'
    <2>2. k.pending = job.pending /\ (k.pc \in {"read", "drain"} => job.pc \in {"read", "drain"})
      BY <2>1
    <2> HIDE DEF k
    <2>3. InTurn(k)
      BY <2>2, SameTurn
    <2> QED BY <2>3 DEF k
  <1>4. CASE Parallel!Submit
    <2> DEFINE k == job'
               batch == Parallel!Batch(job.taken + 1)
    <2>1. \/ k.pending = job.pending
          \/ k.pending = Append(job.pending, batch)
      BY <1>1, <1>4 DEF Parallel!Submit, Parallel!Leave, Job
    <2>2. job.pc = "read" /\ (Parallel!FailsIn(job.taken + 1) \/ job.taken = Parallel!Last \/ k = [job EXCEPT !.taken = Parallel!BatchEnd(job.taken + 1), !.pending = Append(@, batch)])
      BY <1>4 DEF Parallel!Submit
    <2>3. CASE k.pending = job.pending
      <3> HIDE DEF k
      <3>1. InTurn(k)
        BY <2>2, <2>3, SameTurn
      <3> QED BY <3>1 DEF k
    <2>4. CASE k.pending # job.pending
      <3>1. /\ k.pending = Append(job.pending, batch) /\ job.ready = <<>>
            /\ ~Parallel!FailsIn(job.taken + 1) /\ job.taken # Parallel!Last
        BY <1>1, <1>4, <2>1, <2>4 DEF Parallel!Submit, Parallel!Leave, Job
      <3>2. batch \in BatchRecord /\ batch.state = "queued"
        <4>1. job.taken \in Nat /\ job.taken < LastOf(input)
          BY <1>1, <3>1, InputIs, JobIs, LastIs DEF ProjectingInv, Projecting, Given
        <4>2. PICK e \in Nat : job.taken < e /\ batch = [units |-> From(job.taken, e), state |-> "queued"]
          BY <4>1, BatchIs
        <4> QED BY <4>1, <4>2, FromIs DEF BatchRecord, States
      <3> HIDE DEF k, batch
      <3>3. InTurn(k)
        BY <1>1, <2>2, <3>1, <3>2, LastTurn
      <3> QED BY <3>3 DEF k
    <2> QED BY <2>3, <2>4
  <1>5. CASE Parallel!Take
    <2> DEFINE k == job'
    <2>1. k.pending = Tail(job.pending) /\ job.pending # <<>> /\ job.pc \in {"read", "drain"}
      BY <1>1, <1>5 DEF Parallel!Take, Parallel!Leave, Job
    <2> HIDE DEF k
    <2>2. InTurn(k)
      BY <1>1, <2>1, NextTurn
    <2> QED BY <2>2 DEF k
  <1> QED BY <1>2, <1>3, <1>4, <1>5, StartBatchTurn, EndBatchTurn, CloseTurn DEF Parallel!Next

\* The model counts as the library does.
LEMMA CardinalityIs == \A S : Parallel!Cardinality(S) = Cardinality(S)
  BY DEF Parallel!Cardinality, Cardinality

\* The oldest batch is begun first, so that a thread is free for it while it is queued.
LEMMA OldestInTurn ==
  ASSUME Parallel!InputsAssumption, ProjectingInv, InTurn(job)
  PROVE  Parallel!ResultWillCome
  <1> DEFINE n == Len(job.pending)
  <1>1. job \in Job /\ Parallel!IsInput(input) /\ DOMAIN job.pending = 1..n /\ n \in Nat /\ \A i \in 1..n : job.pending[i] \in BatchRecord
    BY JobIs DEF ProjectingInv, Projecting, Parallel!InputsAssumption
  <1> SUFFICES ASSUME job.pc \in {"read", "drain"}, job.pending # <<>>
               PROVE  \/ Head(job.pending).state \in {"running", "done", "failed"}
                      \/ Head(job.pending).state = "queued" /\ Cardinality(Parallel!In("running")) < Parallel!Workers
    BY CardinalityIs DEF Parallel!ResultWillCome
  <1>2. n # 0 /\ Head(job.pending) = job.pending[1]
    BY <1>1, EmptyIs DEF Head
  <1>3. 1 \in 1..n /\ \A i \in 1..n : i = 1 \/ 1 < i
    <2> HIDE DEF n
    <2> QED BY <1>1, <1>2
  <1>4. job.pending[1].state \in States /\ job.pending[1].state # "cancelled"
    BY <1>1, <1>3 DEF InTurn, BatchRecord
  <1>5. ASSUME job.pending[1].state = "queued" PROVE Cardinality(Parallel!In("running")) < Parallel!Workers
    <2>1. \A i \in 1..n : job.pending[i].state = "queued"
      BY <1>3, <1>5 DEF InTurn
    <2>2. Parallel!In("running") = {}
      BY <1>1, <2>1 DEF Parallel!In
    <2>3. Cardinality(Parallel!In("running")) = 0
      BY <2>2, FS_EmptySet
    <2>4. Parallel!Workers \in Nat /\ Parallel!Workers > 0
      BY <1>1 DEF Parallel!Workers, Parallel!IsInput, Parallel!InputsAssumption
    <2> QED BY <2>3, <2>4
  <1> QED BY <1>2, <1>4, <1>5 DEF States

\* extract_tmx_parallel: the batch that its caller waits for is with a thread or has been, or a
\* thread is free to take it.
THEOREM ResultsCome ==
  ASSUME Parallel!InputsAssumption
  PROVE  Parallel!Spec => []Parallel!ResultWillCome
  <1>1. Parallel!Init => ProjectingInv /\ InTurn(job)
    <2> SUFFICES ASSUME Parallel!Init PROVE ProjectingInv /\ InTurn(job)
      OBVIOUS
    <2>1. job.pending = <<>>
      BY DEF Parallel!Init, Parallel!Idle
    <2> QED BY <2>1, InitGood, NoTurn
  <1>2. ProjectingInv /\ InTurn(job) /\ [Parallel!Next]_(Parallel!vars) => (ProjectingInv /\ InTurn(job))'
    <2> SUFFICES ASSUME ProjectingInv, InTurn(job), [Parallel!Next]_(Parallel!vars) PROVE ProjectingInv' /\ InTurn(job')
      OBVIOUS
    <2>1. Parallel!IsInput(input)
      BY DEF ProjectingInv, Projecting, Parallel!InputsAssumption
    <2>2. CASE Parallel!Next
      BY <2>1, <2>2, NextGood, NextInTurn
    <2>3. CASE UNCHANGED Parallel!vars
      BY <2>3, NextGood DEF Parallel!vars
    <2> QED BY <2>2, <2>3
  <1>3. ProjectingInv /\ InTurn(job) => Parallel!ResultWillCome
    BY OldestInTurn
  <1> QED BY <1>1, <1>2, <1>3, PTL DEF Parallel!Spec

LEMMA ProjectionJoins ==
  ASSUME ProjectingInv
  PROVE  Parallel!ThreadsJoined
  BY DEF ProjectingInv, Projecting, Joined, Parallel!ThreadsJoined, Parallel!In

\* The finally of extract_tmx_parallel: when it is over, the reader is closed and no thread is left.
THEOREM ThreadsJoin ==
  ASSUME Parallel!InputsAssumption
  PROVE  Parallel!Spec => []Parallel!ThreadsJoined
  <1>1. ProjectingInv => Parallel!ThreadsJoined
    BY ProjectionJoins
  <1> QED BY <1>1, ProjectionInvariant, PTL

LEMMA ProjectionGives ==
  ASSUME Parallel!InputsAssumption, ProjectingInv
  PROVE  Parallel!OrderedAndComplete
  <1>1. /\ Parallel!IsInput(input) /\ job \in Job /\ Given(input, job) /\ Told(input, job) /\ Parallel!Failures = FailuresOf(input)
    BY DEF ProjectingInv, Projecting, Parallel!InputsAssumption, Parallel!Failures, FailuresOf
  <1> DEFINE F == FailuresOf(input)
             o == Len(job.out)
             r == Len(job.ready)
             p == input.maxPending * input.batchUnits
             n == Len(input.units)
             last == LastOf(input)
  <1>2. o \in Nat /\ r \in Nat /\ p \in Nat /\ n \in Nat /\ last \in Nat /\ job.taken \in Nat /\ input.failAt \in Nat
        /\ o + r <= job.taken /\ job.taken <= last
    BY <1>1, JobIs, InputIs, FailureIs DEF Given
  <1>3. F \subseteq Nat /\ \A x \in F : x = input.failAt \/ (x \in 1..n /\ Bad(input, x))
    <2>1. DOMAIN input.units = 1..n
      BY <1>1, InputIs
    <2> HIDE DEF n
    <2> QED BY <1>2, <2>1 DEF FailuresOf, Bad
  <1>4. \A x \in F : o < x
    <2> SUFFICES ASSUME NEW x \in F PROVE o < x
      OBVIOUS
    <2>1. \A i \in 1..o + r : ~Bad(input, i)
      BY <1>1 DEF Given
    <2>2. x = input.failAt => x > 0 /\ x = last + 1
      <3>1. x = input.failAt => x > 0
        <4>1. input.failAt = 0 => \A y \in F : y \in 1..n
          <5>1. DOMAIN input.units = 1..n
            BY <1>1, InputIs
          <5> HIDE DEF n
          <5> QED BY <5>1 DEF FailuresOf
        <4>2. 0 \notin 1..n
          <5> HIDE DEF n
          <5> QED BY <1>2
        <4> DEFINE at == input.failAt
        <4>3. at \in Nat /\ (x = at => at # 0)
          BY <1>2, <4>1, <4>2
        <4> HIDE DEF at
        <4>4. x = at => x > 0
          BY <4>3
        <4> QED BY <4>4 DEF at
      <3> QED BY <1>1, <3>1, FailureIs
    <2>3. x \in Nat /\ (x = input.failAt \/ (x \in 1..n /\ Bad(input, x)))
      BY <1>3
    <2> HIDE DEF F, o, r, p, n, last
    <2>4. CASE x = input.failAt
      <3>1. x = last + 1
        BY <2>2, <2>4
      <3> DEFINE t == job.taken
      <3>2. t \in Nat /\ o + r <= t /\ t <= last
        BY <1>2
      <3> HIDE DEF t
      <3> QED BY <1>2, <3>1, <3>2
    <2>5. CASE x \in 1..n /\ Bad(input, x)
      <3>1. x \notin 1..o + r
        BY <2>1, <2>5
      <3>2. x \in 1..n
        BY <2>5
      <3> QED BY <1>2, <3>1, <3>2
    <2> QED BY <2>3, <2>4, <2>5
  <1>5. job.outcome = "error" => F # {} /\ o < Parallel!Min(F) /\ o + p >= Parallel!Min(F)
    <2> SUFFICES ASSUME job.outcome = "error" PROVE F # {} /\ o < Parallel!Min(F) /\ o + p >= Parallel!Min(F)
      OBVIOUS
    <2>1. PICK x \in F : x <= o + p
      BY <1>1 DEF Told
    <2> HIDE DEF F, o, p
    <2>2. Parallel!Min(F) \in F /\ \A y \in F : Parallel!Min(F) <= y
      BY <1>3, <2>1, MinIs
    <2> DEFINE least == Parallel!Min(F)
    <2>3. least \in Nat /\ least <= x /\ x \in Nat /\ o < least
      BY <1>3, <1>4, <2>1, <2>2
    <2> HIDE DEF least
    <2>4. o + p >= least
      BY <1>2, <2>1, <2>3
    <2> QED BY <2>1, <2>3, <2>4 DEF least
  <1>6. job.out = [i \in 1..o |-> i] /\ (job.outcome = "end" => F = {} /\ o = n)
    BY <1>1 DEF Given, Told
  <1> QED BY <1>1, <1>5, <1>6 DEF Parallel!OrderedAndComplete

\* The units come in the order of the file; a normal end has given all of them, and an error
\* comes no later than the units that may be pending.
THEOREM ProjectionOrdered ==
  ASSUME Parallel!InputsAssumption
  PROVE  Parallel!Spec => []Parallel!OrderedAndComplete
  <1>1. ProjectingInv => Parallel!OrderedAndComplete
    BY ProjectionGives
  <1> QED BY <1>1, ProjectionInvariant, PTL

-----------------------------------------------------------------------------
(***************************************************************************)
(* Units that are loaded and read (db/serialization.py): the row of a unit *)
(* is that of its last load, and what stays of the JSON payloads of older  *)
(* loads is under keys that the last one did not have.                     *)
(***************************************************************************)
\* What a row keeps of the reserved values of a unit (serialize_unit).
ReservedOf(d) ==
  [_lokit_meta |-> Unit!MetaPayload(d),
   _lokit_plural_present |-> IF Unit!None(d.plural) THEN Absent ELSE TRUE,
   _lokit_plural_extensions |-> Unit!PluralExtensions(d),
   _lokit_previous_context |-> Unit!ContextPayload(d.previous),
   _lokit_tag_original_text_presence |-> Unit!OriginalTextPresence(d.tags)]

LEMMA PayloadIs ==
  ASSUME NEW f
  PROVE  /\ DOMAIN Unit!Payload(f) = {k \in DOMAIN f : f[k] # Absent}
         /\ \A k \in DOMAIN Unit!Payload(f) : Unit!Payload(f)[k] = f[k]
  BY DEF Unit!Payload, Unit!None

\* What comes back of an object that was kept if it has any key.
LEMMA ObjectReads ==
  ASSUME NEW f, NEW k \in DOMAIN f, Unit!Payload(f) # Absent
  PROVE  Unit!Get(Unit!OrObject(Unit!NonEmpty(Unit!Payload(f))), k) = f[k]
  <1> DEFINE p == Unit!Payload(f)
  <1>1. Unit!Get(p, k) = f[k]
    BY PayloadIs DEF Unit!Get
  <1>2. CASE DOMAIN p = {}
    <2>1. f[k] = Absent
      BY <1>2, PayloadIs
    <2>2. Unit!OrObject(Unit!NonEmpty(p)) = Unit!Empty
      BY <1>2 DEF Unit!OrObject, Unit!NonEmpty, Unit!None
    <2>3. Unit!Get(Unit!Empty, k) = Absent
      BY DEF Unit!Get, Unit!Empty
    <2> QED BY <2>1, <2>2, <2>3
  <1>3. CASE DOMAIN p # {}
    <2>1. Unit!OrObject(Unit!NonEmpty(p)) = p
      BY <1>3 DEF Unit!OrObject, Unit!NonEmpty, Unit!None
    <2> QED BY <1>1, <2>1
  <1> QED BY <1>2, <1>3

LEMMA ReservedIs ==
  ASSUME NEW d
  PROVE  /\ DOMAIN ReservedOf(d) = Unit!Reserved
         /\ ReservedOf(d)["_lokit_meta"] = Unit!MetaPayload(d)
         /\ ReservedOf(d)["_lokit_plural_present"] = IF Unit!None(d.plural) THEN Absent ELSE TRUE
         /\ ReservedOf(d)["_lokit_plural_extensions"] = Unit!PluralExtensions(d)
         /\ ReservedOf(d)["_lokit_previous_context"] = Unit!ContextPayload(d.previous)
         /\ ReservedOf(d)["_lokit_tag_original_text_presence"] = Unit!OriginalTextPresence(d.tags)
  BY DEF ReservedOf, Unit!Reserved

\* The JSON column of a unit: its reserved values and its own extensions.
LEMMA JsonIs ==
  ASSUME NEW d, DOMAIN d.extensions \cap Unit!Reserved = {}
  PROVE  /\ \A k \in Unit!Reserved : /\ k \in DOMAIN Unit!DataExtensions(d) <=> ReservedOf(d)[k] # Absent
                                     /\ k \in DOMAIN Unit!DataExtensions(d) => Unit!DataExtensions(d)[k] = ReservedOf(d)[k]
                                     /\ Unit!Get(Unit!DataExtensions(d), k) = ReservedOf(d)[k]
         /\ DOMAIN Unit!DataExtensions(d) \ Unit!Reserved = DOMAIN d.extensions
         /\ \A k \in DOMAIN d.extensions : Unit!DataExtensions(d)[k] = d.extensions[k]
  <1> DEFINE own == Unit!Payload(ReservedOf(d))
             json == [k \in DOMAIN own \cup DOMAIN d.extensions |-> IF k \in DOMAIN own THEN own[k] ELSE d.extensions[k]]
  <1>1. Unit!DataExtensions(d) = json
    BY DEF Unit!DataExtensions, ReservedOf
  <1>2. /\ DOMAIN own = {k \in Unit!Reserved : ReservedOf(d)[k] # Absent}
        /\ \A k \in DOMAIN own : own[k] = ReservedOf(d)[k]
    BY PayloadIs, ReservedIs
  <1> HIDE DEF own
  <1>3. DOMAIN json = DOMAIN own \cup DOMAIN d.extensions /\ \A k \in DOMAIN json : json[k] = IF k \in DOMAIN own THEN own[k] ELSE d.extensions[k]
    OBVIOUS
  <1> HIDE DEF json
  <1> QED BY <1>1, <1>2, <1>3 DEF Unit!Get

\* What the memory is loaded with.
LEMMA UnitIs ==
  ASSUME NEW d \in LoadedUnits
  PROVE  /\ Unit!None(d.usage) \/ d.usage \in Nat
         /\ Unit!Payload([usage |-> d.usage, created |-> d.created]) # Absent
         /\ ~Unit!None(d.plural) =>
              /\ d.plural = [variant |-> d.plural.variant, count |-> d.plural.count, extensions |-> d.plural.extensions]
              /\ ~Unit!None(d.plural.extensions)
              /\ d.plural.extensions = [k \in DOMAIN d.plural.extensions |-> d.plural.extensions[k]]
         /\ ~Unit!None(d.previous) =>
              /\ d.previous = [unit_id |-> d.previous.unit_id, source |-> d.previous.source]
              /\ Unit!Payload([unit_id |-> d.previous.unit_id]) # Absent
         /\ ~Unit!None(d.tags) => {id \in DOMAIN d.tags : d.tags[id].original = ""} # Absent
         /\ DOMAIN d.extensions \cap Unit!Reserved = {}
         /\ \A e \in LoadedUnits :
              /\ ~Unit!None(d.plural) => [d.plural EXCEPT !.extensions = Unit!OrObject(Unit!PluralExtensions(e))] # Absent
              /\ [unit_id |-> Unit!Get(Unit!OrObject(Unit!ContextPayload(e.previous)), "unit_id"),
                  source |-> Unit!OrAbsent(Unit!ContextSource(d.previous))] # Absent
         /\ Absent \notin {"", TRUE}
  BY MemoryAssumption DEF Unit!UnitsAssumption

\* The row of a unit.
LEMMA RowIs ==
  ASSUME NEW d
  PROVE  LET s == Unit!SerializeUnit(d) IN
         /\ s = [usage |-> s.usage, variant |-> s.variant, count |-> s.count, previous |-> s.previous, project |-> s.project,
                 json |-> s.json, tags |-> s.tags, comments |-> s.comments]
         /\ s.usage = (IF Unit!None(d.usage) THEN 0 ELSE d.usage)
         /\ s.variant = (IF Unit!None(d.plural) THEN "" ELSE d.plural.variant)
         /\ s.count = (IF Unit!None(d.plural) THEN Absent ELSE d.plural.count)
         /\ s.previous = Unit!ContextSource(d.previous)
         /\ s.project = Unit!Project(d)
         /\ s.json = Unit!DataExtensions(d)
         /\ s.tags = Unit!SerializeTags(d.tags)
         /\ s.comments = [i \in DOMAIN d.comments |->
              [timestamp |-> Unit!OrEmpty(d.comments[i].timestamp), project |-> Unit!OrEmpty(d.comments[i].project)]]
  BY DEF Unit!SerializeUnit

\* A row that is one unit's, over older ones: what stays of their JSON payloads is under keys
\* that its own does not have.
IsRowOf(r, d) ==
  LET s == Unit!SerializeUnit(d) IN
  /\ r = [usage |-> r.usage, variant |-> s.variant, count |-> s.count, previous |-> s.previous, project |-> s.project,
          json |-> r.json, tags |-> s.tags, comments |-> s.comments]
  /\ DOMAIN s.json \subseteq DOMAIN r.json
  /\ \A k \in DOMAIN s.json : r.json[k] = s.json[k]
  /\ \A k \in DOMAIN r.json \cap Unit!Reserved : \E e \in LoadedUnits : r.json[k] = ReservedOf(e)[k]

LEMMA RowOfIs ==
  ASSUME NEW d \in LoadedUnits, NEW r, IsRowOf(r, d)
  PROVE  /\ r.variant = (IF Unit!None(d.plural) THEN "" ELSE d.plural.variant)
         /\ r.count = (IF Unit!None(d.plural) THEN Absent ELSE d.plural.count)
         /\ r.previous = Unit!ContextSource(d.previous)
         /\ r.project = Unit!Project(d)
         /\ r.tags = Unit!SerializeTags(d.tags)
         /\ r.comments = [i \in DOMAIN d.comments |->
              [timestamp |-> Unit!OrEmpty(d.comments[i].timestamp), project |-> Unit!OrEmpty(d.comments[i].project)]]
         /\ DOMAIN d.extensions \subseteq DOMAIN r.json \ Unit!Reserved
         /\ \A k \in DOMAIN d.extensions : r.json[k] = d.extensions[k]
  <1> DEFINE s == Unit!SerializeUnit(d)
  <1>1. /\ r.variant = s.variant /\ r.count = s.count /\ r.previous = s.previous /\ r.project = s.project
        /\ r.tags = s.tags /\ r.comments = s.comments
    BY DEF IsRowOf
  <1>2. /\ DOMAIN s.json \subseteq DOMAIN r.json
        /\ \A k \in DOMAIN s.json : r.json[k] = s.json[k]
        /\ \A k \in DOMAIN r.json \cap Unit!Reserved : \E e \in LoadedUnits : r.json[k] = ReservedOf(e)[k]
    BY DEF IsRowOf
  <1>3. s.json = Unit!DataExtensions(d)
    BY RowIs
  <1>4. DOMAIN d.extensions \cap Unit!Reserved = {}
    BY UnitIs
  <1>5. /\ \A k \in Unit!Reserved : /\ k \in DOMAIN s.json <=> ReservedOf(d)[k] # Absent
                                    /\ k \in DOMAIN s.json => s.json[k] = ReservedOf(d)[k]
        /\ DOMAIN s.json \ Unit!Reserved = DOMAIN d.extensions
        /\ \A k \in DOMAIN d.extensions : s.json[k] = d.extensions[k]
    BY <1>3, <1>4, JsonIs
  <1>6. s.variant = (IF Unit!None(d.plural) THEN "" ELSE d.plural.variant)
         /\ s.count = (IF Unit!None(d.plural) THEN Absent ELSE d.plural.count)
         /\ s.previous = Unit!ContextSource(d.previous)
         /\ s.project = Unit!Project(d)
         /\ s.tags = Unit!SerializeTags(d.tags)
         /\ s.comments = [i \in DOMAIN d.comments |->
              [timestamp |-> Unit!OrEmpty(d.comments[i].timestamp), project |-> Unit!OrEmpty(d.comments[i].project)]]
    BY RowIs
  <1> HIDE DEF s
  <1>9. /\ DOMAIN d.extensions \subseteq DOMAIN r.json \ Unit!Reserved
        /\ \A k \in DOMAIN d.extensions : r.json[k] = d.extensions[k]
    <2>1. \A k \in DOMAIN d.extensions : k \in DOMAIN s.json /\ k \notin Unit!Reserved
      BY <1>5
    <2> QED BY <1>2, <1>5, <2>1
  <1> QED BY <1>1, <1>6, <1>9

\* Each reserved value of a row.
LEMMA KeyReads ==
  ASSUME NEW d \in LoadedUnits, NEW r, IsRowOf(r, d), NEW k \in Unit!Reserved
  PROVE  /\ ReservedOf(d)[k] # Absent => Unit!Get(r.json, k) = ReservedOf(d)[k]
         /\ \/ Unit!Get(r.json, k) = ReservedOf(d)[k]
            \/ \E e \in LoadedUnits : Unit!Get(r.json, k) = ReservedOf(e)[k]
  <1> DEFINE json == Unit!DataExtensions(d)
  <1>1. Unit!SerializeUnit(d).json = json
    BY RowIs
  <1>2. /\ DOMAIN json \subseteq DOMAIN r.json
        /\ \A i \in DOMAIN json : r.json[i] = json[i]
        /\ \A i \in DOMAIN r.json \cap Unit!Reserved : \E e \in LoadedUnits : r.json[i] = ReservedOf(e)[i]
    BY <1>1 DEF IsRowOf
  <1>3. DOMAIN d.extensions \cap Unit!Reserved = {}
    BY UnitIs
  <1>4. (k \in DOMAIN json <=> ReservedOf(d)[k] # Absent) /\ (k \in DOMAIN json => json[k] = ReservedOf(d)[k])
    BY <1>3, JsonIs
  <1> HIDE DEF json
  <1> QED BY <1>2, <1>4 DEF Unit!Get

\* The plural form that is read.
LEMMA PluralReads ==
  ASSUME NEW d \in LoadedUnits, NEW r, IsRowOf(r, d)
  PROVE  LET p == Unit!DeserializePlural(r) IN
         /\ d.plural # Absent =>
              /\ p # Absent /\ p.variant = d.plural.variant /\ p.count = d.plural.count
              /\ Unit!PluralExtensions(d) # Absent => Unit!NonEmpty(p.extensions) = Unit!PluralExtensions(d)
         /\ (\A k \in Unit!Reserved : Unit!Get(r.json, k) = ReservedOf(d)[k]) => p = d.plural
  <1> DEFINE ext == Unit!Get(r.json, "_lokit_plural_extensions")
             p == Unit!DeserializePlural(r)
             all == \A k \in Unit!Reserved : Unit!Get(r.json, k) = ReservedOf(d)[k]
  <1>0. /\ "_lokit_plural_extensions" \in Unit!Reserved /\ "_lokit_plural_present" \in Unit!Reserved
        /\ Absent \notin {"", TRUE}
    BY UnitIs DEF Unit!Reserved
  <1>1. \A e : /\ ReservedOf(e)["_lokit_plural_extensions"] = Unit!PluralExtensions(e)
               /\ ReservedOf(e)["_lokit_plural_present"] = IF Unit!None(e.plural) THEN Absent ELSE TRUE
    BY ReservedIs
  <1>2. /\ Unit!PluralExtensions(d) # Absent => ext = Unit!PluralExtensions(d)
        /\ ext = Unit!PluralExtensions(d) \/ \E e \in LoadedUnits : ext = Unit!PluralExtensions(e)
    <2>1. /\ ReservedOf(d)["_lokit_plural_extensions"] # Absent => ext = ReservedOf(d)["_lokit_plural_extensions"]
          /\ ext = ReservedOf(d)["_lokit_plural_extensions"] \/ \E e \in LoadedUnits : ext = ReservedOf(e)["_lokit_plural_extensions"]
      BY <1>0, KeyReads
    <2> QED BY <1>1, <2>1, Zenon
  <1>3. \E e \in LoadedUnits : ext = Unit!PluralExtensions(e)
    BY <1>2
  <1>4. Unit!PluralExtensions(d) # Absent => ext = Unit!PluralExtensions(d)
    BY <1>2
  <1>5. all => ext = Unit!PluralExtensions(d) /\ Unit!Get(r.json, "_lokit_plural_present") = ReservedOf(d)["_lokit_plural_present"]
    BY <1>0, ReservedIs
  <1>6. ASSUME d.plural # Absent
        PROVE  /\ p # Absent /\ p.variant = d.plural.variant /\ p.count = d.plural.count
               /\ Unit!PluralExtensions(d) # Absent => Unit!NonEmpty(p.extensions) = Unit!PluralExtensions(d)
               /\ all => p = d.plural
    <2>0. ~Unit!None(d.plural)
      BY <1>6 DEF Unit!None
    <2>1. Unit!Get(r.json, "_lokit_plural_present") = TRUE
      <3>1. ReservedOf(d)["_lokit_plural_present"] = TRUE
        BY <1>1, <2>0
      <3>2. ReservedOf(d)["_lokit_plural_present"] # Absent => Unit!Get(r.json, "_lokit_plural_present") = ReservedOf(d)["_lokit_plural_present"]
        BY <1>0, KeyReads
      <3> QED BY <1>0, <3>1, <3>2
    <2>2. p = [variant |-> r.variant, count |-> r.count, extensions |-> Unit!OrObject(ext)]
      BY <1>0, <2>1 DEF Unit!DeserializePlural, Unit!None
    <2>3. r.variant = d.plural.variant /\ r.count = d.plural.count
      BY <2>0, RowOfIs
    <2>4. /\ d.plural = [variant |-> d.plural.variant, count |-> d.plural.count, extensions |-> d.plural.extensions]
          /\ d.plural.extensions # Absent
          /\ d.plural.extensions = [k \in DOMAIN d.plural.extensions |-> d.plural.extensions[k]]
      BY <2>0, UnitIs DEF Unit!None
    <2>5. Unit!OrObject(ext) = IF ext = Absent THEN Unit!Empty ELSE ext
      BY DEF Unit!OrObject, Unit!None
    <2>6. \E e \in LoadedUnits : Unit!OrObject(ext) = Unit!OrObject(Unit!PluralExtensions(e))
      BY <1>3
    <2>7. p # Absent
      <3>1. PICK e \in LoadedUnits : Unit!OrObject(ext) = Unit!OrObject(Unit!PluralExtensions(e))
        BY <2>6
      <3>2. [d.plural EXCEPT !.extensions = Unit!OrObject(Unit!PluralExtensions(e))] # Absent
        BY <2>0, UnitIs
      <3>3. [d.plural EXCEPT !.extensions = Unit!OrObject(Unit!PluralExtensions(e))]
              = [variant |-> d.plural.variant, count |-> d.plural.count, extensions |-> Unit!OrObject(Unit!PluralExtensions(e))]
        BY <2>4
      <3> QED BY <2>2, <2>3, <3>1, <3>2, <3>3
    <2>8. Unit!PluralExtensions(d) = IF DOMAIN d.plural.extensions = {} THEN Absent ELSE d.plural.extensions
      BY <2>0 DEF Unit!PluralExtensions, Unit!NonEmpty
    <2>9. ASSUME Unit!PluralExtensions(d) # Absent PROVE Unit!NonEmpty(p.extensions) = Unit!PluralExtensions(d)
      <3>1. p.extensions = d.plural.extensions /\ DOMAIN d.plural.extensions # {}
        BY <1>4, <2>2, <2>5, <2>8, <2>9
      <3> QED BY <2>8, <3>1 DEF Unit!NonEmpty
    <2>10. ASSUME all PROVE p = d.plural
      <3>1. ext = Unit!PluralExtensions(d)
        BY <1>5, <2>10
      <3>2. Unit!OrObject(ext) = d.plural.extensions
        <4>1. CASE DOMAIN d.plural.extensions = {}
          <5>1. Unit!OrObject(ext) = Unit!Empty
            BY <2>5, <2>8, <3>1, <4>1
          <5>2. d.plural.extensions = [k \in {} |-> d.plural.extensions[k]]
            BY <2>4, <4>1
          <5>3. \A f : [k \in {} |-> f[k]] = [x \in {} |-> x]
            OBVIOUS
          <5> HIDE DEF ext
          <5> QED BY <5>1, <5>2, <5>3 DEF Unit!Empty
        <4>2. CASE DOMAIN d.plural.extensions # {}
          BY <2>4, <2>5, <2>8, <3>1, <4>2
        <4> QED BY <4>1, <4>2
      <3> QED BY <2>2, <2>3, <2>4, <3>2
    <2> QED BY <2>2, <2>3, <2>7, <2>9, <2>10
  <1>7. ASSUME d.plural = Absent, all PROVE p = Absent
    <2>1. r.variant = "" /\ r.count = Absent
      BY <1>7, RowOfIs DEF Unit!None
    <2>2. Unit!Get(r.json, "_lokit_plural_present") = Absent
      BY <1>5, <1>7, ReservedIs DEF Unit!None
    <2> QED BY <2>1, <2>2 DEF Unit!DeserializePlural, Unit!None
  <1> QED BY <1>6, <1>7

\* A unit as it is read.
LEMMA ReadableIs ==
  ASSUME NEW d \in LoadedUnits
  PROVE  LET e == Unit!Readable(d) IN
         /\ e = [usage |-> d.usage, created |-> d.created, plural |-> d.plural, previous |-> e.previous, tags |-> e.tags,
                 comments |-> e.comments, extensions |-> e.extensions]
         /\ e.previous = (IF d.previous = Absent \/ (Unit!ContextSource(d.previous) = "" /\ d.previous.unit_id = Absent) THEN Absent
                          ELSE [unit_id |-> d.previous.unit_id, source |-> Unit!OrAbsent(Unit!OrEmpty(d.previous.source))])
         /\ e.tags = (IF d.tags = Absent \/ DOMAIN d.tags = {} THEN Absent
                      ELSE [id \in DOMAIN d.tags |->
                        [pair |-> Unit!OrAbsent(Unit!OrEmpty(d.tags[id].pair)), original |-> d.tags[id].original]])
         /\ e.comments = [i \in DOMAIN d.comments |->
              [timestamp |-> Unit!OrAbsent(Unit!OrEmpty(d.comments[i].timestamp)),
               project |-> Unit!OrAbsent(Unit!OrEmpty(d.comments[i].project))]]
         /\ e.extensions = [k \in DOMAIN d.extensions \cup (IF Unit!Project(d) = "" THEN {} ELSE {"project"}) |->
                              IF k = "project" /\ Unit!Project(d) # "" THEN Unit!Project(d) ELSE d.extensions[k]]
  <1> DEFINE p == IF d.previous = Absent \/ (Unit!ContextSource(d.previous) = "" /\ d.previous.unit_id = Absent) THEN Absent
                  ELSE [unit_id |-> d.previous.unit_id, source |-> Unit!OrAbsent(Unit!OrEmpty(d.previous.source))]
             t == IF d.tags = Absent \/ DOMAIN d.tags = {} THEN Absent
                  ELSE [id \in DOMAIN d.tags |->
                         [pair |-> Unit!OrAbsent(Unit!OrEmpty(d.tags[id].pair)), original |-> d.tags[id].original]]
             c == [i \in DOMAIN d.comments |->
                    [timestamp |-> Unit!OrAbsent(Unit!OrEmpty(d.comments[i].timestamp)),
                     project |-> Unit!OrAbsent(Unit!OrEmpty(d.comments[i].project))]]
             x == [k \in DOMAIN d.extensions \cup (IF Unit!Project(d) = "" THEN {} ELSE {"project"}) |->
                    IF k = "project" /\ Unit!Project(d) # "" THEN Unit!Project(d) ELSE d.extensions[k]]
  <1>1. Unit!Readable(d) = [usage |-> d.usage, created |-> d.created, plural |-> d.plural, previous |-> p, tags |-> t,
                            comments |-> c, extensions |-> x]
    BY DEF Unit!Readable, Unit!None
  <1> HIDE DEF p, t, c, x
  <1>2. LET e == Unit!Readable(d) IN
        /\ e = [usage |-> d.usage, created |-> d.created, plural |-> d.plural, previous |-> e.previous, tags |-> e.tags,
                comments |-> e.comments, extensions |-> e.extensions]
        /\ e.previous = p /\ e.tags = t /\ e.comments = c /\ e.extensions = x
    BY <1>1
  <1> QED BY <1>2 DEF p, t, c, x

\* The context that is read.
LEMMA ContextReads ==
  ASSUME NEW d \in LoadedUnits, NEW r, IsRowOf(r, d)
  PROVE  LET c == Unit!DeserializeContext(r.previous, Unit!OrObject(Unit!Get(r.json, "_lokit_previous_context")))
             own == Unit!Readable(d).previous
         IN
         /\ own # Absent =>
              /\ own.unit_id # Absent => c # Absent /\ c.unit_id = own.unit_id
              /\ own.source # Absent => c # Absent /\ c.source = own.source
         /\ (\A k \in Unit!Reserved : Unit!Get(r.json, k) = ReservedOf(d)[k]) => c = own
  <1> DEFINE payload == Unit!OrObject(Unit!Get(r.json, "_lokit_previous_context"))
             c == Unit!DeserializeContext(r.previous, payload)
             own == Unit!Readable(d).previous
             source == Unit!ContextSource(d.previous)
             all == \A k \in Unit!Reserved : Unit!Get(r.json, k) = ReservedOf(d)[k]
  <1>0. "_lokit_previous_context" \in Unit!Reserved /\ Absent # ""
    BY UnitIs DEF Unit!Reserved
  <1>1. \A e : ReservedOf(e)["_lokit_previous_context"] = Unit!ContextPayload(e.previous)
    BY ReservedIs
  <1>2. LET g == Unit!Get(r.json, "_lokit_previous_context") IN
        /\ Unit!ContextPayload(d.previous) # Absent => g = Unit!ContextPayload(d.previous)
        /\ g = Unit!ContextPayload(d.previous) \/ \E e \in LoadedUnits : g = Unit!ContextPayload(e.previous)
    <2> DEFINE g == Unit!Get(r.json, "_lokit_previous_context")
    <2>1. /\ ReservedOf(d)["_lokit_previous_context"] # Absent => g = ReservedOf(d)["_lokit_previous_context"]
          /\ g = ReservedOf(d)["_lokit_previous_context"] \/ \E e \in LoadedUnits : g = ReservedOf(e)["_lokit_previous_context"]
      BY <1>0, KeyReads
    <2> QED BY <1>1, <2>1, Zenon
  <1>3. \E e \in LoadedUnits : payload = Unit!OrObject(Unit!ContextPayload(e.previous))
    BY <1>2
  <1>4. Unit!ContextPayload(d.previous) # Absent => payload = Unit!OrObject(Unit!ContextPayload(d.previous))
    BY <1>2
  <1>5. all => payload = Unit!OrObject(Unit!ContextPayload(d.previous))
    BY <1>0, ReservedIs
  <1>6. r.previous = source
    BY RowOfIs
  <1>7. c = (IF source = "" /\ DOMAIN payload = {} THEN Absent
             ELSE [unit_id |-> Unit!Get(payload, "unit_id"), source |-> Unit!OrAbsent(source)])
    BY <1>6 DEF Unit!DeserializeContext
  <1>8. [unit_id |-> Unit!Get(payload, "unit_id"), source |-> Unit!OrAbsent(source)] # Absent
    <2>1. PICK e \in LoadedUnits : payload = Unit!OrObject(Unit!ContextPayload(e.previous))
      BY <1>3
    <2>2. [unit_id |-> Unit!Get(Unit!OrObject(Unit!ContextPayload(e.previous)), "unit_id"),
           source |-> Unit!OrAbsent(Unit!ContextSource(d.previous))] # Absent
      BY UnitIs
    <2> QED BY <2>1, <2>2
  <1>9. own = (IF d.previous = Absent \/ (source = "" /\ d.previous.unit_id = Absent) THEN Absent
               ELSE [unit_id |-> d.previous.unit_id, source |-> Unit!OrAbsent(Unit!OrEmpty(d.previous.source))])
    BY ReadableIs
  <1>10. ASSUME d.previous # Absent
        PROVE  /\ source = Unit!OrEmpty(d.previous.source)
               /\ Unit!ContextPayload(d.previous) = Unit!NonEmpty(Unit!Payload([unit_id |-> d.previous.unit_id]))
               /\ Unit!Payload([unit_id |-> d.previous.unit_id]) # Absent
               /\ d.previous = [unit_id |-> d.previous.unit_id, source |-> d.previous.source]
    BY <1>10, UnitIs DEF Unit!ContextSource, Unit!ContextPayload, Unit!None
  <1>11. ASSUME d.previous # Absent, payload = Unit!OrObject(Unit!ContextPayload(d.previous))
        PROVE  Unit!Get(payload, "unit_id") = d.previous.unit_id /\ (DOMAIN payload = {} <=> d.previous.unit_id = Absent)
    <2> DEFINE f == [unit_id |-> d.previous.unit_id]
    <2>1. DOMAIN f = {"unit_id"} /\ f["unit_id"] = d.previous.unit_id
      OBVIOUS
    <2>2. Unit!Payload(f) # Absent /\ payload = Unit!OrObject(Unit!NonEmpty(Unit!Payload(f)))
      BY <1>10, <1>11
    <2> HIDE DEF f, payload
    <2>3. DOMAIN Unit!Payload(f) = {} <=> f["unit_id"] = Absent
      BY <2>1, PayloadIs, ZenonT(30)
    <2>4. Unit!Get(payload, "unit_id") = d.previous.unit_id
      BY <2>1, <2>2, ObjectReads
    <2>5. DOMAIN Unit!Empty = {}
      BY DEF Unit!Empty
    <2>6. DOMAIN payload = {} <=> DOMAIN Unit!Payload(f) = {}
      BY <2>2, <2>5 DEF Unit!OrObject, Unit!NonEmpty, Unit!None
    <2> QED BY <2>1, <2>3, <2>4, <2>6
  <1>12. ASSUME own # Absent
         PROVE  /\ own = [unit_id |-> d.previous.unit_id, source |-> Unit!OrAbsent(source)]
                /\ d.previous # Absent
    <2>1. d.previous # Absent
      BY <1>9, <1>12
    <2> QED BY <1>9, <1>10, <1>12, <2>1
  <1> HIDE DEF payload, c, own, source
  <1>13. ASSUME own # Absent, own.unit_id # Absent PROVE c # Absent /\ c.unit_id = own.unit_id
    <2>1. d.previous.unit_id # Absent /\ d.previous # Absent
      BY <1>12, <1>13
    <2>2. Unit!ContextPayload(d.previous) # Absent
      <3>1. DOMAIN Unit!Payload([unit_id |-> d.previous.unit_id]) # {}
        <4> DEFINE f == [unit_id |-> d.previous.unit_id]
        <4>1. DOMAIN f = {"unit_id"} /\ f["unit_id"] # Absent
          BY <2>1
        <4> HIDE DEF f
        <4>2. "unit_id" \in DOMAIN Unit!Payload(f)
          BY <4>1, PayloadIs
        <4> QED BY <4>2 DEF f
      <3> QED BY <1>10, <2>1, <3>1 DEF Unit!NonEmpty
    <2>3. Unit!Get(payload, "unit_id") = d.previous.unit_id /\ DOMAIN payload # {}
      BY <1>4, <1>11, <2>1, <2>2
    <2> QED BY <1>7, <1>8, <1>12, <1>13, <2>3
  <1>14. ASSUME own # Absent, own.source # Absent PROVE c # Absent /\ c.source = own.source
    <2>1. Unit!OrAbsent(source) = own.source
      BY <1>12, <1>14
    <2>2. source # ""
      BY <1>14, <2>1 DEF Unit!OrAbsent
    <2> QED BY <1>7, <1>8, <2>1, <2>2
  <1>15. ASSUME all PROVE c = own
    <2>1. payload = Unit!OrObject(Unit!ContextPayload(d.previous))
      BY <1>5, <1>15
    <2>2. CASE d.previous = Absent
      <3>1. source = "" /\ Unit!ContextPayload(d.previous) = Absent
        BY <2>2 DEF source, Unit!ContextSource, Unit!ContextPayload, Unit!None
      <3>2. DOMAIN payload = {}
        BY <2>1, <3>1 DEF Unit!OrObject, Unit!Empty, Unit!None
      <3> QED BY <1>7, <1>9, <2>2, <3>1, <3>2
    <2>3. CASE d.previous # Absent
      <3>1. Unit!Get(payload, "unit_id") = d.previous.unit_id /\ (DOMAIN payload = {} <=> d.previous.unit_id = Absent)
        BY <1>11, <2>1, <2>3
      <3>2. CASE source = "" /\ d.previous.unit_id = Absent
        BY <1>7, <1>9, <3>1, <3>2
      <3>3. CASE ~(source = "" /\ d.previous.unit_id = Absent)
        <4>1. own = [unit_id |-> d.previous.unit_id, source |-> Unit!OrAbsent(source)]
          BY <1>9, <1>10, <2>3, <3>3
        <4> QED BY <1>7, <3>1, <3>3, <4>1
      <3> QED BY <3>2, <3>3
    <2> QED BY <2>2, <2>3
  <1> QED BY <1>13, <1>14, <1>15 DEF payload, c, own

\* The tags that are read.
LEMMA TagsRead ==
  ASSUME NEW d \in LoadedUnits, NEW r, IsRowOf(r, d)
  PROVE  LET read == Unit!DeserializeTags(r)
             own == Unit!Readable(d).tags
         IN
         /\ own # Absent =>
              /\ DOMAIN read = DOMAIN own
              /\ \A id \in DOMAIN own : own[id].original = Absent \/ read[id] = own[id]
         /\ (\A k \in Unit!Reserved : Unit!Get(r.json, k) = ReservedOf(d)[k]) => read = own
  <1> DEFINE presence == Unit!Get(r.json, "_lokit_tag_original_text_presence")
             empty == {id \in DOMAIN d.tags : d.tags[id].original = ""}
             read == Unit!DeserializeTags(r)
             own == Unit!Readable(d).tags
             Original(id) == IF r.tags[id].original # "" THEN r.tags[id].original
                             ELSE IF presence # Absent /\ id \in presence THEN "" ELSE Absent
             all == \A k \in Unit!Reserved : Unit!Get(r.json, k) = ReservedOf(d)[k]
  <1>0. "_lokit_tag_original_text_presence" \in Unit!Reserved /\ Absent # ""
    BY UnitIs DEF Unit!Reserved
  <1>1. r.tags = Unit!SerializeTags(d.tags)
    BY RowOfIs
  <1>2. own = (IF d.tags = Absent \/ DOMAIN d.tags = {} THEN Absent
               ELSE [id \in DOMAIN d.tags |->
                      [pair |-> Unit!OrAbsent(Unit!OrEmpty(d.tags[id].pair)), original |-> d.tags[id].original]])
    BY ReadableIs
  <1>3. read = (IF DOMAIN r.tags = {} THEN Absent
                ELSE [id \in DOMAIN r.tags |-> [pair |-> Unit!OrAbsent(r.tags[id].pair), original |-> Original(id)]])
    BY DEF Unit!DeserializeTags, Unit!None
  <1>4. CASE d.tags = Absent \/ DOMAIN d.tags = {}
    <2>1. DOMAIN r.tags = {}
      BY <1>1, <1>4 DEF Unit!SerializeTags, Unit!None
    <2> QED BY <1>2, <1>3, <1>4, <2>1
  <1>5. CASE ~(d.tags = Absent \/ DOMAIN d.tags = {})
    <2>1. r.tags = [id \in DOMAIN d.tags |-> [pair |-> Unit!OrEmpty(d.tags[id].pair), original |-> Unit!OrEmpty(d.tags[id].original)]]
      BY <1>1, <1>5 DEF Unit!SerializeTags, Unit!None
    <2>2. /\ DOMAIN r.tags = DOMAIN d.tags
          /\ \A id \in DOMAIN d.tags : /\ r.tags[id].pair = Unit!OrEmpty(d.tags[id].pair)
                                       /\ r.tags[id].original = Unit!OrEmpty(d.tags[id].original)
      BY <2>1
    <2>3. ReservedOf(d)["_lokit_tag_original_text_presence"] = IF empty = {} THEN Absent ELSE empty
      <3>1. ReservedOf(d)["_lokit_tag_original_text_presence"] = Unit!OriginalTextPresence(d.tags)
        BY ReservedIs
      <3> QED BY <1>5, <3>1 DEF Unit!OriginalTextPresence, Unit!None
    <2>4. empty # Absent
      BY <1>5, UnitIs DEF Unit!None
    <2>5. ReservedOf(d)["_lokit_tag_original_text_presence"] # Absent => presence = ReservedOf(d)["_lokit_tag_original_text_presence"]
      BY <1>0, KeyReads
    <2>6. all => presence = ReservedOf(d)["_lokit_tag_original_text_presence"]
      BY <1>0
    <2> DEFINE Fresh == [id \in DOMAIN d.tags |-> [pair |-> Unit!OrAbsent(Unit!OrEmpty(d.tags[id].pair)), original |-> Original(id)]]
               Own == [id \in DOMAIN d.tags |->
                      [pair |-> Unit!OrAbsent(Unit!OrEmpty(d.tags[id].pair)), original |-> d.tags[id].original]]
    <2>7. read = Fresh
      BY <1>3, <1>5, <2>2
    <2>8. own = Own
      BY <1>2, <1>5
    <2>9. ASSUME NEW id \in DOMAIN d.tags, d.tags[id].original # Absent PROVE Original(id) = d.tags[id].original
      <3>1. r.tags[id].original = d.tags[id].original
        BY <2>2, <2>9 DEF Unit!OrEmpty, Unit!None
      <3>2. CASE d.tags[id].original = ""
        <4>1. id \in empty
          BY <3>2
        <4>2. presence = empty
          BY <2>3, <2>4, <2>5, <4>1
        <4> QED BY <2>4, <3>1, <3>2, <4>1, <4>2
      <3> QED BY <3>1, <3>2
    <2>10. ASSUME NEW id \in DOMAIN d.tags, d.tags[id].original = Absent, all PROVE Original(id) = Absent
      <3>1. r.tags[id].original = ""
        BY <2>2, <2>10 DEF Unit!OrEmpty, Unit!None
      <3>2. id \notin empty
        BY <1>0, <2>10
      <3>3. presence = Absent \/ presence = empty
        BY <2>3, <2>6, <2>10
      <3> QED BY <3>1, <3>2, <3>3
    <2> HIDE DEF empty, presence, read, own, all, Original
    <2>11. DOMAIN read = DOMAIN own /\ \A id \in DOMAIN own : own[id].original = Absent \/ read[id] = own[id]
      BY <2>7, <2>8, <2>9
    <2>12. ASSUME all PROVE read = own
      <3>1. \A id \in DOMAIN d.tags : Original(id) = d.tags[id].original
        BY <2>9, <2>10, <2>12
      <3>2. Fresh = Own
        BY <3>1
      <3> QED BY <2>7, <2>8, <3>2
    <2> QED BY <2>11, <2>12 DEF read, own, all
  <1> QED BY <1>4, <1>5

\* The comments and the extensions that are read.
LEMMA CommentsRead ==
  ASSUME NEW d \in LoadedUnits, NEW r, IsRowOf(r, d)
  PROVE  Unit!DeserializeUnit(r).comments = Unit!Readable(d).comments
  <1> DEFINE c == [i \in DOMAIN d.comments |->
               [timestamp |-> Unit!OrEmpty(d.comments[i].timestamp), project |-> Unit!OrEmpty(d.comments[i].project)]]
             read == [i \in DOMAIN r.comments |->
               [timestamp |-> Unit!OrAbsent(r.comments[i].timestamp), project |-> Unit!OrAbsent(r.comments[i].project)]]
  <1>1. r.comments = c
    BY RowOfIs
  <1>2. /\ DOMAIN r.comments = DOMAIN d.comments
        /\ \A i \in DOMAIN d.comments : /\ r.comments[i].timestamp = Unit!OrEmpty(d.comments[i].timestamp)
                                        /\ r.comments[i].project = Unit!OrEmpty(d.comments[i].project)
    BY <1>1
  <1>3. Unit!DeserializeUnit(r).comments = read
    BY DEF Unit!DeserializeUnit
  <1>4. read = [i \in DOMAIN d.comments |->
              [timestamp |-> Unit!OrAbsent(Unit!OrEmpty(d.comments[i].timestamp)),
               project |-> Unit!OrAbsent(Unit!OrEmpty(d.comments[i].project))]]
    BY <1>2
  <1>5. Unit!Readable(d).comments = [i \in DOMAIN d.comments |->
              [timestamp |-> Unit!OrAbsent(Unit!OrEmpty(d.comments[i].timestamp)),
               project |-> Unit!OrAbsent(Unit!OrEmpty(d.comments[i].project))]]
    BY ReadableIs
  <1> QED BY <1>3, <1>4, <1>5

LEMMA ExtensionsRead ==
  ASSUME NEW d \in LoadedUnits, NEW r, IsRowOf(r, d)
  PROVE  LET read == Unit!DeserializeExtensions(r)
             own == Unit!Readable(d).extensions
         IN
         /\ DOMAIN own \subseteq DOMAIN read /\ \A k \in DOMAIN own : read[k] = own[k]
         /\ DOMAIN r.json \ Unit!Reserved = DOMAIN d.extensions => read = own
  <1> DEFINE named == Unit!Project(d)
             Names == IF named = "" THEN {} ELSE {"project"}
             Old == DOMAIN r.json \ Unit!Reserved
             read == [k \in Old \cup Names |-> IF k = "project" /\ named # "" THEN named ELSE r.json[k]]
             own == [k \in DOMAIN d.extensions \cup Names |-> IF k = "project" /\ named # "" THEN named ELSE d.extensions[k]]
  <1>1. r.project = named /\ DOMAIN d.extensions \subseteq Old /\ \A k \in DOMAIN d.extensions : r.json[k] = d.extensions[k]
    BY RowOfIs
  <1>2. Unit!DeserializeExtensions(r) = read
    BY <1>1 DEF Unit!DeserializeExtensions
  <1>3. Unit!Readable(d).extensions = own
    BY ReadableIs
  <1> HIDE DEF named
  <1>4. \A k \in DOMAIN d.extensions \cup Names : read[k] = own[k]
    BY <1>1
  <1>5. Old = DOMAIN d.extensions => read = own
    BY <1>1
  <1>6. DOMAIN own = DOMAIN d.extensions \cup Names /\ DOMAIN read = Old \cup Names
    OBVIOUS
  <1> HIDE DEF read, own
  <1> QED BY <1>1, <1>2, <1>3, <1>4, <1>5, <1>6

\* The use count and the creation that are read.
LEMMA MetaReads ==
  ASSUME NEW d \in LoadedUnits, NEW r, IsRowOf(r, d)
  PROVE  LET meta == Unit!OrObject(Unit!Get(r.json, "_lokit_meta"))
             all == \A k \in Unit!Reserved : Unit!Get(r.json, k) = ReservedOf(d)[k]
         IN
         /\ d.created # Absent => Unit!Get(meta, "created") = d.created
         /\ all => Unit!Get(meta, "created") = d.created /\ Unit!Get(meta, "usage") = d.usage
  <1> DEFINE f == [usage |-> d.usage, created |-> d.created]
             g == Unit!Get(r.json, "_lokit_meta")
             meta == Unit!OrObject(g)
             all == \A k \in Unit!Reserved : Unit!Get(r.json, k) = ReservedOf(d)[k]
  <1>1. DOMAIN f = {"usage", "created"} /\ f["usage"] = d.usage /\ f["created"] = d.created
    OBVIOUS
  <1>2. Unit!MetaPayload(d) = Unit!NonEmpty(Unit!Payload(f)) /\ Unit!Payload(f) # Absent
    BY UnitIs DEF Unit!MetaPayload
  <1>3. ReservedOf(d)["_lokit_meta"] = Unit!MetaPayload(d) /\ "_lokit_meta" \in Unit!Reserved
    BY ReservedIs DEF Unit!Reserved
  <1>4. ReservedOf(d)["_lokit_meta"] # Absent => g = ReservedOf(d)["_lokit_meta"]
    BY <1>3, KeyReads
  <1> HIDE DEF f, g
  <1>5. ASSUME g = Unit!MetaPayload(d) PROVE Unit!Get(meta, "created") = d.created /\ Unit!Get(meta, "usage") = d.usage
    <2>1. /\ Unit!Get(Unit!OrObject(Unit!NonEmpty(Unit!Payload(f))), "created") = f["created"]
          /\ Unit!Get(Unit!OrObject(Unit!NonEmpty(Unit!Payload(f))), "usage") = f["usage"]
      BY <1>1, <1>2, ObjectReads
    <2> QED BY <1>1, <1>2, <1>5, <2>1
  <1>6. ASSUME d.created # Absent PROVE Unit!MetaPayload(d) # Absent
    <2>1. "created" \in DOMAIN Unit!Payload(f)
      BY <1>1, <1>6, PayloadIs
    <2> QED BY <1>2, <2>1 DEF Unit!NonEmpty
  <1>7. d.created # Absent => Unit!Get(meta, "created") = d.created
    BY <1>3, <1>4, <1>5, <1>6
  <1>8. all => Unit!Get(meta, "created") = d.created /\ Unit!Get(meta, "usage") = d.usage
    BY <1>3, <1>5 DEF g
  <1> QED BY <1>7, <1>8 DEF g

\* What a unit's values are made of.
ValuesOf(d) ==
  [created |-> d.created,
   variant |-> IF Unit!None(d.plural) THEN Absent ELSE d.plural.variant,
   count |-> IF Unit!None(d.plural) THEN Absent ELSE d.plural.count,
   plural_extensions |-> Unit!PluralExtensions(d),
   unit_id |-> IF Unit!None(d.previous) THEN Absent ELSE d.previous.unit_id,
   source |-> IF Unit!None(d.previous) THEN Absent ELSE d.previous.source,
   comments |-> d.comments]

LEMMA ValuesRead ==
  ASSUME NEW d, NEW e, \A k \in DOMAIN ValuesOf(d) : ValuesOf(d)[k] = Absent \/ ValuesOf(e)[k] = ValuesOf(d)[k]
  PROVE  \A k \in DOMAIN Unit!Values(d) : k \in DOMAIN Unit!Values(e) /\ Unit!Values(e)[k] = Unit!Values(d)[k]
  <1>1. Unit!Values(d) = Unit!Payload(ValuesOf(d)) /\ Unit!Values(e) = Unit!Payload(ValuesOf(e))
    BY DEF Unit!Values, ValuesOf
  <1>2. DOMAIN ValuesOf(d) = DOMAIN ValuesOf(e)
    BY DEF ValuesOf
  <1>3. /\ DOMAIN Unit!Payload(ValuesOf(d)) = {k \in DOMAIN ValuesOf(d) : ValuesOf(d)[k] # Absent}
        /\ \A k \in DOMAIN Unit!Payload(ValuesOf(d)) : Unit!Payload(ValuesOf(d))[k] = ValuesOf(d)[k]
        /\ DOMAIN Unit!Payload(ValuesOf(e)) = {k \in DOMAIN ValuesOf(e) : ValuesOf(e)[k] # Absent}
        /\ \A k \in DOMAIN Unit!Payload(ValuesOf(e)) : Unit!Payload(ValuesOf(e))[k] = ValuesOf(e)[k]
    BY PayloadIs
  <1> QED BY <1>1, <1>2, <1>3

\* A row that is a unit's reads back with the unit's values.
LEMMA RowReads ==
  ASSUME NEW d \in LoadedUnits, NEW r, IsRowOf(r, d)
  PROVE  LET e == Unit!Readable(d)
             read == Unit!DeserializeUnit(r)
         IN
         /\ \A k \in DOMAIN Unit!Values(e) : k \in DOMAIN Unit!Values(read) /\ Unit!Values(read)[k] = Unit!Values(e)[k]
         /\ \A k \in DOMAIN e.extensions : k \in DOMAIN read.extensions /\ read.extensions[k] = e.extensions[k]
         /\ ~Unit!None(e.tags) =>
              /\ DOMAIN read.tags = DOMAIN e.tags
              /\ \A id \in DOMAIN e.tags : Unit!None(e.tags[id].original) \/ read.tags[id] = e.tags[id]
         /\ r = Unit!SerializeUnit(d) => read = e
  <1> DEFINE e == Unit!Readable(d)
             read == Unit!DeserializeUnit(r)
             meta == Unit!OrObject(Unit!Get(r.json, "_lokit_meta"))
             all == \A k \in Unit!Reserved : Unit!Get(r.json, k) = ReservedOf(d)[k]
  <1>1. /\ read = [usage |-> read.usage, created |-> read.created, plural |-> read.plural, previous |-> read.previous,
                   tags |-> read.tags, comments |-> read.comments, extensions |-> read.extensions]
        /\ read.usage = (IF r.usage # 0 THEN r.usage ELSE Unit!Get(meta, "usage"))
        /\ read.created = Unit!Get(meta, "created")
        /\ read.plural = Unit!DeserializePlural(r)
        /\ read.previous = Unit!DeserializeContext(r.previous, Unit!OrObject(Unit!Get(r.json, "_lokit_previous_context")))
        /\ read.tags = Unit!DeserializeTags(r)
        /\ read.extensions = Unit!DeserializeExtensions(r)
    BY DEF Unit!DeserializeUnit
  <1>2. /\ e = [usage |-> d.usage, created |-> d.created, plural |-> d.plural, previous |-> e.previous, tags |-> e.tags,
                comments |-> e.comments, extensions |-> e.extensions]
        /\ e.usage = d.usage /\ e.created = d.created /\ e.plural = d.plural
    <2>1. e = [usage |-> d.usage, created |-> d.created, plural |-> d.plural, previous |-> e.previous, tags |-> e.tags,
                comments |-> e.comments, extensions |-> e.extensions]
      BY ReadableIs
    <2> HIDE DEF e
    <2>2. e.usage = d.usage /\ e.created = d.created /\ e.plural = d.plural
      BY <2>1
    <2> QED BY <2>1, <2>2
  <1>3. read.comments = e.comments
    BY CommentsRead
  <1>4. /\ d.created # Absent => read.created = d.created
        /\ all => read.created = d.created /\ Unit!Get(meta, "usage") = d.usage
    BY <1>1, MetaReads
  <1>5. /\ d.plural # Absent =>
             /\ read.plural # Absent /\ read.plural.variant = d.plural.variant /\ read.plural.count = d.plural.count
             /\ Unit!PluralExtensions(d) # Absent => Unit!NonEmpty(read.plural.extensions) = Unit!PluralExtensions(d)
        /\ all => read.plural = d.plural
    BY <1>1, PluralReads
  <1>6. /\ e.previous # Absent =>
             /\ e.previous.unit_id # Absent => read.previous # Absent /\ read.previous.unit_id = e.previous.unit_id
             /\ e.previous.source # Absent => read.previous # Absent /\ read.previous.source = e.previous.source
        /\ all => read.previous = e.previous
    BY <1>1, ContextReads
  <1>7. /\ e.tags # Absent => /\ DOMAIN read.tags = DOMAIN e.tags
                              /\ \A id \in DOMAIN e.tags : e.tags[id].original = Absent \/ read.tags[id] = e.tags[id]
        /\ all => read.tags = e.tags
    BY <1>1, TagsRead
  <1>8. /\ DOMAIN e.extensions \subseteq DOMAIN read.extensions /\ \A k \in DOMAIN e.extensions : read.extensions[k] = e.extensions[k]
        /\ DOMAIN r.json \ Unit!Reserved = DOMAIN d.extensions => read.extensions = e.extensions
    BY <1>1, ExtensionsRead
  <1>9. r = Unit!SerializeUnit(d) => /\ all
                                     /\ DOMAIN r.json \ Unit!Reserved = DOMAIN d.extensions
                                     /\ r.usage = (IF Unit!None(d.usage) THEN 0 ELSE d.usage)
    <2>1. Unit!SerializeUnit(d).json = Unit!DataExtensions(d)
          /\ Unit!SerializeUnit(d).usage = (IF Unit!None(d.usage) THEN 0 ELSE d.usage)
      BY RowIs
    <2>2. DOMAIN d.extensions \cap Unit!Reserved = {}
      BY UnitIs
    <2>3. /\ \A k \in Unit!Reserved : Unit!Get(Unit!DataExtensions(d), k) = ReservedOf(d)[k]
          /\ DOMAIN Unit!DataExtensions(d) \ Unit!Reserved = DOMAIN d.extensions
      BY <2>2, JsonIs
    <2> QED BY <2>1, <2>3
  <1> HIDE DEF e, read, all
  <1>10. \A k \in DOMAIN Unit!Values(e) : k \in DOMAIN Unit!Values(read) /\ Unit!Values(read)[k] = Unit!Values(e)[k]
    <2>1. Unit!PluralExtensions(e) = Unit!PluralExtensions(d)
      BY <1>2 DEF Unit!PluralExtensions
    <2>2. Unit!PluralExtensions(e) = Absent \/ Unit!PluralExtensions(read) = Unit!PluralExtensions(e)
      <3>1. CASE d.plural = Absent
        BY <2>1, <3>1 DEF Unit!PluralExtensions, Unit!None
      <3>2. CASE d.plural # Absent
        <4>1. Unit!PluralExtensions(read) = Unit!NonEmpty(read.plural.extensions)
          BY <1>5, <3>2 DEF Unit!PluralExtensions, Unit!None
        <4> QED BY <1>5, <2>1, <3>2, <4>1
      <3> QED BY <3>1, <3>2
    <2>3. /\ ValuesOf(e)["created"] = e.created /\ ValuesOf(read)["created"] = read.created
          /\ ValuesOf(e)["variant"] = (IF e.plural = Absent THEN Absent ELSE e.plural.variant)
          /\ ValuesOf(read)["variant"] = (IF read.plural = Absent THEN Absent ELSE read.plural.variant)
          /\ ValuesOf(e)["count"] = (IF e.plural = Absent THEN Absent ELSE e.plural.count)
          /\ ValuesOf(read)["count"] = (IF read.plural = Absent THEN Absent ELSE read.plural.count)
          /\ ValuesOf(e)["plural_extensions"] = Unit!PluralExtensions(e)
          /\ ValuesOf(read)["plural_extensions"] = Unit!PluralExtensions(read)
          /\ ValuesOf(e)["unit_id"] = (IF e.previous = Absent THEN Absent ELSE e.previous.unit_id)
          /\ ValuesOf(read)["unit_id"] = (IF read.previous = Absent THEN Absent ELSE read.previous.unit_id)
          /\ ValuesOf(e)["source"] = (IF e.previous = Absent THEN Absent ELSE e.previous.source)
          /\ ValuesOf(read)["source"] = (IF read.previous = Absent THEN Absent ELSE read.previous.source)
          /\ ValuesOf(e)["comments"] = e.comments /\ ValuesOf(read)["comments"] = read.comments
          /\ DOMAIN ValuesOf(e) = {"created", "variant", "count", "plural_extensions", "unit_id", "source", "comments"}
      BY DEF ValuesOf, Unit!None
    <2>4. ASSUME NEW k \in DOMAIN ValuesOf(e) PROVE ValuesOf(e)[k] = Absent \/ ValuesOf(read)[k] = ValuesOf(e)[k]
      <3>1. k = "created" => ValuesOf(e)[k] = Absent \/ ValuesOf(read)[k] = ValuesOf(e)[k]
        BY <1>2, <1>4, <2>3
      <3>2. k \in {"variant", "count"} => ValuesOf(e)[k] = Absent \/ ValuesOf(read)[k] = ValuesOf(e)[k]
        BY <1>2, <1>5, <2>3
      <3>3. k = "plural_extensions" => ValuesOf(e)[k] = Absent \/ ValuesOf(read)[k] = ValuesOf(e)[k]
        BY <2>2, <2>3
      <3>4. k \in {"unit_id", "source"} => ValuesOf(e)[k] = Absent \/ ValuesOf(read)[k] = ValuesOf(e)[k]
        BY <1>6, <2>3
      <3>5. k = "comments" => ValuesOf(e)[k] = Absent \/ ValuesOf(read)[k] = ValuesOf(e)[k]
        BY <1>3, <2>3
      <3> QED BY <2>3, <3>1, <3>2, <3>3, <3>4, <3>5
    <2> QED BY <2>4, ValuesRead
  <1>11. \A k \in DOMAIN e.extensions : k \in DOMAIN read.extensions /\ read.extensions[k] = e.extensions[k]
    BY <1>8
  <1>12. ~Unit!None(e.tags) =>
           /\ DOMAIN read.tags = DOMAIN e.tags
           /\ \A id \in DOMAIN e.tags : Unit!None(e.tags[id].original) \/ read.tags[id] = e.tags[id]
    BY <1>7 DEF Unit!None
  <1>13. ASSUME r = Unit!SerializeUnit(d) PROVE read = e
    <2>1. read.usage = d.usage
      BY <1>1, <1>4, <1>9, <1>13 DEF Unit!None
    <2>2. /\ read.created = d.created /\ read.plural = d.plural /\ read.previous = e.previous /\ read.tags = e.tags
          /\ read.comments = e.comments /\ read.extensions = e.extensions
      BY <1>3, <1>4, <1>5, <1>6, <1>7, <1>8, <1>9, <1>13
    <2> QED BY <1>1, <1>2, <2>1, <2>2, Zenon
  <1> QED BY <1>10, <1>11, <1>12, <1>13 DEF e, read

\* The row that is there is the last unit's, over those that were loaded before.
UnitInv ==
  /\ loads \in Seq(LoadedUnits)
  /\ loads # <<>> =>
       /\ IsRowOf(row, loads[Len(loads)])
       /\ row.usage \in Nat /\ row.usage >= Len(loads) - 1
       /\ Len(loads) = 1 => row = Unit!SerializeUnit(loads[1])

LEMMA FirstRow ==
  ASSUME NEW d \in LoadedUnits
  PROVE  IsRowOf(Unit!SerializeUnit(d), d) /\ Unit!SerializeUnit(d).usage \in Nat
  <1> DEFINE s == Unit!SerializeUnit(d)
  <1>1. /\ s = [usage |-> s.usage, variant |-> s.variant, count |-> s.count, previous |-> s.previous, project |-> s.project,
                json |-> s.json, tags |-> s.tags, comments |-> s.comments]
        /\ s.usage = (IF Unit!None(d.usage) THEN 0 ELSE d.usage)
        /\ s.json = Unit!DataExtensions(d)
    BY RowIs
  <1>2. DOMAIN d.extensions \cap Unit!Reserved = {} /\ (Unit!None(d.usage) \/ d.usage \in Nat)
    BY UnitIs
  <1>3. \A k \in Unit!Reserved : k \in DOMAIN Unit!DataExtensions(d) => Unit!DataExtensions(d)[k] = ReservedOf(d)[k]
    BY <1>2, JsonIs
  <1> HIDE DEF s
  <1>4. s.usage \in Nat
    BY <1>1, <1>2
  <1>5. \A k \in DOMAIN s.json \cap Unit!Reserved : \E e \in LoadedUnits : s.json[k] = ReservedOf(e)[k]
    BY <1>1, <1>3
  <1> QED BY <1>1, <1>4, <1>5 DEF s, IsRowOf

LEMMA OverwrittenIs ==
  ASSUME NEW old, NEW d
  PROVE  LET s == Unit!SerializeUnit(d)
             o == Unit!Overwrite(old, s)
         IN
         /\ o = [usage |-> o.usage, variant |-> s.variant, count |-> s.count, previous |-> s.previous, project |-> s.project,
                 json |-> o.json, tags |-> s.tags, comments |-> s.comments]
         /\ o.usage = (IF old.usage > s.usage THEN old.usage ELSE s.usage) + 1
         /\ o.json = [k \in DOMAIN s.json \cup DOMAIN old.json |-> IF k \in DOMAIN s.json THEN s.json[k] ELSE old.json[k]]
  <1> DEFINE s == Unit!SerializeUnit(d)
             u == (IF old.usage > s.usage THEN old.usage ELSE s.usage) + 1
             j == [k \in DOMAIN s.json \cup DOMAIN old.json |-> IF k \in DOMAIN s.json THEN s.json[k] ELSE old.json[k]]
             first == [s EXCEPT !.usage = u]
  <1>1. s = [usage |-> s.usage, variant |-> s.variant, count |-> s.count, previous |-> s.previous, project |-> s.project,
             json |-> s.json, tags |-> s.tags, comments |-> s.comments]
    BY RowIs
  <1> HIDE DEF s
  <1>2. Unit!Overwrite(old, s) = [first EXCEPT !.json = j]
    BY <1>1 DEF Unit!Overwrite
  <1> HIDE DEF u, j
  <1>3. first = [usage |-> u, variant |-> s.variant, count |-> s.count, previous |-> s.previous, project |-> s.project,
                 json |-> s.json, tags |-> s.tags, comments |-> s.comments]
    BY <1>1
  <1> HIDE DEF first
  <1>4. Unit!Overwrite(old, s) = [usage |-> u, variant |-> s.variant, count |-> s.count, previous |-> s.previous, project |-> s.project,
                                  json |-> j, tags |-> s.tags, comments |-> s.comments]
    BY <1>2, <1>3
  <1> QED BY <1>4 DEF s, u, j

LEMMA LaterRow ==
  ASSUME NEW d \in LoadedUnits, NEW old, NEW e \in LoadedUnits, IsRowOf(old, e), old.usage \in Nat
  PROVE  LET o == Unit!Overwrite(old, Unit!SerializeUnit(d)) IN
         IsRowOf(o, d) /\ o.usage \in Nat /\ o.usage >= old.usage + 1
  <1> DEFINE s == Unit!SerializeUnit(d)
             o == Unit!Overwrite(old, s)
  <1>1. IsRowOf(s, d) /\ s.usage \in Nat
    BY FirstRow
  <1>2. /\ o = [usage |-> o.usage, variant |-> s.variant, count |-> s.count, previous |-> s.previous, project |-> s.project,
                json |-> o.json, tags |-> s.tags, comments |-> s.comments]
        /\ o.usage = (IF old.usage > s.usage THEN old.usage ELSE s.usage) + 1
        /\ o.json = [k \in DOMAIN s.json \cup DOMAIN old.json |-> IF k \in DOMAIN s.json THEN s.json[k] ELSE old.json[k]]
    BY OverwrittenIs
  <1>3. /\ \A k \in DOMAIN s.json \cap Unit!Reserved : \E b \in LoadedUnits : s.json[k] = ReservedOf(b)[k]
        /\ \A k \in DOMAIN old.json \cap Unit!Reserved : \E b \in LoadedUnits : old.json[k] = ReservedOf(b)[k]
    BY <1>1 DEF IsRowOf
  <1> HIDE DEF s, o
  <1>4. o.usage \in Nat /\ o.usage >= old.usage + 1
    BY <1>1, <1>2
  <1>5. /\ DOMAIN s.json \subseteq DOMAIN o.json
        /\ \A k \in DOMAIN s.json : o.json[k] = s.json[k]
        /\ \A k \in DOMAIN o.json : k \in DOMAIN s.json \/ (k \in DOMAIN old.json /\ o.json[k] = old.json[k])
    BY <1>2
  <1>6. \A k \in DOMAIN o.json \cap Unit!Reserved : \E b \in LoadedUnits : o.json[k] = ReservedOf(b)[k]
    BY <1>3, <1>5
  <1> QED BY <1>2, <1>4, <1>5, <1>6 DEF IsRowOf, s, o

LEMMA UnitNext ==
  ASSUME UnitInv, [Unit!Next]_(Unit!vars)
  PROVE  UnitInv'
  <1>1. CASE UNCHANGED Unit!vars
    BY <1>1 DEF Unit!vars, UnitInv
  <1>2. ASSUME NEW d \in LoadedUnits, Unit!Load(d) PROVE UnitInv'
    <2>1. /\ loads' = Append(loads, d) /\ loads \in Seq(LoadedUnits)
          /\ row' = IF loads = <<>> THEN Unit!SerializeUnit(d) ELSE Unit!Overwrite(row, Unit!SerializeUnit(d))
      BY <1>2 DEF Unit!Load, UnitInv
    <2>2. /\ loads' \in Seq(LoadedUnits) /\ Len(loads') = Len(loads) + 1 /\ Len(loads) \in Nat
          /\ loads'[Len(loads')] = d /\ loads' # <<>> /\ (loads = <<>> <=> Len(loads) = 0)
      BY <2>1
    <2>3. CASE loads = <<>>
      <3>1. row' = Unit!SerializeUnit(d)
        BY <2>1, <2>3
      <3>2. IsRowOf(row', d) /\ row'.usage \in Nat
        BY <3>1, FirstRow
      <3> QED BY <2>2, <2>3, <3>1, <3>2 DEF UnitInv
    <2>4. CASE loads # <<>>
      <3>1. /\ IsRowOf(row, loads[Len(loads)]) /\ row.usage \in Nat /\ row.usage >= Len(loads) - 1
            /\ loads[Len(loads)] \in LoadedUnits
        BY <2>1, <2>2, <2>4 DEF UnitInv
      <3>2. row' = Unit!Overwrite(row, Unit!SerializeUnit(d))
        BY <2>1, <2>4
      <3>3. IsRowOf(row', d) /\ row'.usage \in Nat /\ row'.usage >= row.usage + 1
        BY <3>1, <3>2, LaterRow
      <3>4. Len(loads') # 1 /\ row'.usage >= Len(loads') - 1
        BY <2>2, <2>4, <3>1, <3>3
      <3> QED BY <2>2, <3>3, <3>4 DEF UnitInv
    <2> QED BY <2>3, <2>4
  <1> QED BY <1>1, <1>2 DEF Unit!Next

LEMMA UnitReads ==
  ASSUME UnitInv
  PROVE  Unit!ReadsLastLoad
  <1> SUFFICES ASSUME loads # <<>> PROVE Unit!ReadsLastLoad
    BY DEF Unit!ReadsLastLoad
  <1> DEFINE d == loads[Len(loads)]
  <1>1. /\ d \in LoadedUnits /\ IsRowOf(row, d) /\ row.usage >= Len(loads) - 1
        /\ Len(loads) = 1 => row = Unit!SerializeUnit(d)
    BY DEF UnitInv
  <1>2. Unit!Last(loads) = d
    BY DEF Unit!Last
  <1> HIDE DEF d
  <1>3. LET e == Unit!Readable(d)
            read == Unit!DeserializeUnit(row)
        IN
        /\ \A k \in DOMAIN Unit!Values(e) : k \in DOMAIN Unit!Values(read) /\ Unit!Values(read)[k] = Unit!Values(e)[k]
        /\ \A k \in DOMAIN e.extensions : k \in DOMAIN read.extensions /\ read.extensions[k] = e.extensions[k]
        /\ ~Unit!None(e.tags) =>
             /\ DOMAIN read.tags = DOMAIN e.tags
             /\ \A id \in DOMAIN e.tags : Unit!None(e.tags[id].original) \/ read.tags[id] = e.tags[id]
        /\ Len(loads) = 1 => read = e
    BY <1>1, RowReads
  <1> QED BY <1>1, <1>2, <1>3 DEF Unit!ReadsLastLoad

-----------------------------------------------------------------------------
(***************************************************************************)
(* Documents of several locales (db/operations.py): every row of a query   *)
(* is in the unit of its first row, and the units' keys are different, as  *)
(* one suffix in as many as there are keys is free.                        *)
(***************************************************************************)
\* What a query returned.
DocumentInv == rows \in Seq(Document!Row) /\ Len(rows) <= ResultRows

LEMMA RowsOf ==
  ASSUME DocumentInv
  PROVE  /\ DOMAIN rows = 1..Len(rows) /\ Len(rows) \in Nat /\ ResultRows \in Nat
         /\ \A i \in DOMAIN rows : rows[i].key \in Seq(Nat)
  <1>1. ResultRows \in Nat /\ \A key \in ResultKeys : key \in Seq(Nat)
    BY MemoryAssumption DEF Document!KeysAssumption
  <1>2. \A r \in Document!Row : r.key \in ResultKeys
    BY DEF Document!Row
  <1>3. rows \in Seq(Document!Row)
    BY DEF DocumentInv
  <1>4. DOMAIN rows = 1..Len(rows) /\ Len(rows) \in Nat /\ \A i \in DOMAIN rows : rows[i] \in Document!Row
    BY <1>3
  <1> QED BY <1>1, <1>2, <1>4

LEMMA IntervalIs ==
  ASSUME NEW a \in Int, NEW b \in Int
  PROVE  IsFiniteSet(a..b) /\ (a <= b => Cardinality(a..b) = b - a + 1)
  BY FS_Interval

LEMMA RowsCount ==
  ASSUME DocumentInv
  PROVE  IsFiniteSet(DOMAIN rows) /\ Cardinality(DOMAIN rows) = Len(rows)
  <1>1. DOMAIN rows = 1..Len(rows) /\ Len(rows) \in Int /\ 1 \in Int /\ Len(rows) \in Nat
    BY RowsOf
  <1>2. IsFiniteSet(1..Len(rows)) /\ Cardinality(1..Len(rows)) = IF 1 > Len(rows) THEN 0 ELSE Len(rows) - 1 + 1
    BY <1>1, FS_Interval
  <1> QED BY <1>1, <1>2

LEMMA LastOfIs ==
  ASSUME NEW i
  PROVE  i \in Nat => Document!LastOf({i}) = i
  BY DEF Document!LastOf

LEMMA FirstIs ==
  ASSUME NEW S, S \subseteq Nat, S # {}
  PROVE  Document!First(S) \in S /\ \A j \in S : Document!First(S) <= j
  <1>1. \E x \in S : \A y \in S : x <= y
    BY LeastIs
  <1> QED BY <1>1 DEF Document!First

\* The rows of a unit, and those of them that become a unit of the document.
LEMMA GroupIs ==
  ASSUME NEW i \in DOMAIN rows
  PROVE  /\ i \in Document!Group(i) /\ Document!Group(i) \subseteq DOMAIN rows
         /\ \A j \in Document!Group(i) : Document!Group(j) = Document!Group(i) /\ Document!SameIdentity(i, j)
  BY DEF Document!Group, Document!SameIdentity

LEMMA ChunkIs ==
  ASSUME NEW i \in DOMAIN rows
  PROVE  /\ i \in Document!Chunk(i) /\ Document!Chunk(i) \subseteq Document!Group(i)
         /\ \A j \in Document!Chunk(i) : Document!Chunk(j) = Document!Chunk(i)
         /\ \A a, b \in Document!Chunk(i) : rows[a].locale = rows[b].locale => a = b
  <1> DEFINE G == Document!Group(i)
             Twice(S) == \E a, b \in S : a # b /\ rows[a].locale = rows[b].locale
  <1>1. i \in G /\ \A j \in G : Document!Group(j) = G /\ j \in DOMAIN rows
    BY GroupIs
  <1>2. \A j \in DOMAIN rows : Document!Chunk(j) = IF Twice(Document!Group(j)) THEN {j} ELSE Document!Group(j)
    BY DEF Document!Chunk
  <1>3. \A j \in G : Document!Chunk(j) = IF Twice(G) THEN {j} ELSE G
    BY <1>1, <1>2
  <1> HIDE DEF G
  <1>4. CASE Twice(G)
    BY <1>1, <1>3, <1>4 DEF G
  <1>5. CASE ~Twice(G)
    BY <1>1, <1>3, <1>5 DEF G
  <1> QED BY <1>4, <1>5

\* The first row of a unit of the document.
Lead(i) == Document!First(Document!Chunk(i))

LEMMA LeadIs ==
  ASSUME DocumentInv, NEW i \in DOMAIN rows
  PROVE  /\ Lead(i) \in Document!Leads /\ Lead(i) \in Document!Chunk(i) /\ \A j \in Document!Chunk(i) : Lead(i) <= j
         /\ Document!Chunk(Lead(i)) = Document!Chunk(i)
  <1>1. Document!Chunk(i) \subseteq Nat /\ Document!Chunk(i) # {}
    BY RowsOf, GroupIs, ChunkIs
  <1>2. Lead(i) \in Document!Chunk(i) /\ \A j \in Document!Chunk(i) : Lead(i) <= j
    BY <1>1, FirstIs DEF Lead
  <1> QED BY <1>2, ChunkIs DEF Lead, Document!Leads

LEMMA LeadsAre ==
  ASSUME DocumentInv
  PROVE  /\ Document!Leads \subseteq DOMAIN rows
         /\ \A i \in Document!Leads : Lead(i) = i
         /\ IsFiniteSet(Document!Leads) /\ Cardinality(Document!Leads) \in Nat /\ Cardinality(Document!Leads) <= Len(rows)
  <1>1. ASSUME NEW i \in Document!Leads PROVE i \in DOMAIN rows /\ Lead(i) = i
    <2>1. PICK j \in DOMAIN rows : i = Lead(j)
      BY DEF Document!Leads, Lead
    <2>2. i \in Document!Chunk(j) /\ Document!Chunk(i) = Document!Chunk(j)
      BY <2>1, LeadIs
    <2> QED BY <2>1, <2>2, GroupIs, ChunkIs DEF Lead
  <1>2. IsFiniteSet(DOMAIN rows) /\ Cardinality(DOMAIN rows) = Len(rows)
    BY RowsCount
  <1>3. Document!Leads \in SUBSET DOMAIN rows
    BY <1>1
  <1>4. IsFiniteSet(Document!Leads) /\ Cardinality(Document!Leads) <= Len(rows)
    BY <1>2, <1>3, FS_Subset
  <1> QED BY <1>1, <1>4, FS_CardinalityType

LEMMA DocumentCounts == \A S : Document!Cardinality(S) = Cardinality(S)
  BY DEF Document!Cardinality, Cardinality

\* The order of the units.
Comes == {p \in Document!Leads \X Document!Leads : Document!Before(p[1], p[2])}

LEMMA OrderIs ==
  ASSUME DocumentInv
  PROVE  /\ Document!Order = Ranked(Comes, Document!Leads)
         /\ IsOrder(Comes, Document!Leads)
  <1> DEFINE S == Document!Leads
  <1>1. \A i, j \in S : <<i, j>> \in Comes <=> Document!Before(i, j)
    BY DEF Comes
  <1>2. \A x \in S : Preds(Comes, S, x) = {j \in S : Document!Before(j, x)}
    BY <1>1 DEF Preds
  <1> DEFINE L(n) == CHOOSE i \in S : Document!Cardinality({j \in S : Document!Before(j, i)}) = n - 1
             M(n) == CHOOSE i \in S : Cardinality(Preds(Comes, S, i)) = n - 1
  <1>3. Document!Order = Ranked(Comes, S)
    <2>1. \A x \in S : Document!Cardinality({j \in S : Document!Before(j, x)}) = Cardinality(Preds(Comes, S, x))
      BY <1>2, DocumentCounts
    <2>2. \A n : L(n) = M(n)
      <3> HIDE DEF S
      <3> QED BY <2>1, Zenon
    <2>3. Document!Order = [n \in 1..Document!Cardinality(S) |-> L(n)] /\ Ranked(Comes, S) = [n \in 1..Cardinality(S) |-> M(n)]
      BY Zenon DEF Document!Order, Ranked
    <2>4. Document!Cardinality(S) = Cardinality(S)
      BY DocumentCounts
    <2> HIDE DEF L, M, S
    <2> QED BY <2>2, <2>3, <2>4
  <1>4. \A i \in S : i \in Nat /\ Document!First(Document!Group(i)) \in Nat
    <2> TAKE i \in S
    <2>1. i \in DOMAIN rows
      BY LeadsAre
    <2>2. Document!Group(i) \subseteq Nat /\ Document!Group(i) # {}
      BY <2>1, RowsOf, GroupIs
    <2> QED BY <2>1, <2>2, RowsOf, FirstIs
  <1>5. IsOrder(Comes, S)
    <2> HIDE DEF S
    <2>1. \A x \in S : <<x, x>> \notin Comes
      BY <1>1, <1>4 DEF Document!Before
    <2>2. \A x, y, z \in S : <<x, y>> \in Comes /\ <<y, z>> \in Comes => <<x, z>> \in Comes
      BY <1>1, <1>4 DEF Document!Before
    <2>3. \A x, y \in S : x # y => <<x, y>> \in Comes \/ <<y, x>> \in Comes
      BY <1>1, <1>4 DEF Document!Before
    <2> QED BY <2>1, <2>2, <2>3 DEF IsOrder
  <1> QED BY <1>3, <1>5

LEMMA OrderHas ==
  ASSUME DocumentInv
  PROVE  LET C == Cardinality(Document!Leads) IN
         /\ \A n \in 1..C : Document!Order[n] \in Document!Leads
         /\ \A m, n \in 1..C : m < n => Document!Order[m] # Document!Order[n] /\ Document!Before(Document!Order[m], Document!Order[n])
         /\ \A i \in Document!Leads : \E n \in 1..C : Document!Order[n] = i
  <1> DEFINE C == Cardinality(Document!Leads)
             r == Document!Order
  <1>1. /\ Len(r) = C /\ r \in Seq(Document!Leads) /\ Chain(r, Comes)
        /\ \A x \in Document!Leads : \E n \in 1..Len(r) : r[n] = x
    <2> DEFINE S == Document!Leads
               q == Ranked(Comes, S)
    <2>1. r = q /\ IsOrder(Comes, S) /\ IsFiniteSet(S)
      BY OrderIs, LeadsAre
    <2>2. Len(q) = C /\ q \in Seq(S) /\ Chain(q, Comes) /\ \A x \in S : \E n \in 1..Len(q) : q[n] = x
      <3> HIDE DEF S
      <3> QED BY <2>1, RankedIs DEF S
    <2> HIDE DEF q
    <2> QED BY <2>1, <2>2
  <1> HIDE DEF r, C
  <1>2. \A n \in 1..C : r[n] \in Document!Leads
    BY <1>1
  <1>3. \A m, n \in 1..C : m < n => <<r[m], r[n]>> \in Comes
    BY <1>1 DEF Chain
  <1>4. \A x \in Document!Leads : <<x, x>> \notin Comes
    BY OrderIs DEF IsOrder
  <1>5. \A m, n \in 1..C : m < n => r[m] # r[n] /\ Document!Before(r[m], r[n])
    <2> TAKE m, n \in 1..C
    <2> HAVE m < n
    <2>1. <<r[m], r[n]>> \in Comes
      BY <1>3
    <2>2. Document!Before(r[m], r[n])
      BY <2>1 DEF Comes
    <2> QED BY <1>2, <1>4, <2>1, <2>2
  <1> QED BY <1>1, <1>2, <1>5 DEF r, C

\* The keys that are given: the unit's own, or a suffix that no row and no unit has.
LEMMA SuffixIsFree ==
  ASSUME DocumentInv, NEW key \in Seq(Nat), NEW used, IsFiniteSet(used), Cardinality(used) <= Len(rows), NEW from \in Nat
  PROVE  \E n \in from..from + 2 * ResultRows : Append(key, n) \notin Document!reserved_keys \cup used
  <1> DEFINE S == from..from + 2 * ResultRows
             T == Document!reserved_keys \cup used
             f == [n \in S |-> Append(key, n)]
  <1> SUFFICES ASSUME \A n \in S : Append(key, n) \in T PROVE FALSE
    OBVIOUS
  <1>1. Len(rows) \in Nat /\ ResultRows \in Nat /\ Len(rows) <= ResultRows /\ DOMAIN rows = 1..Len(rows)
    BY RowsOf DEF DocumentInv
  <1>2. IsFiniteSet(S) /\ Cardinality(S) = 2 * ResultRows + 1
    <2> DEFINE to == from + 2 * ResultRows
    <2>1. from \in Int /\ to \in Int /\ from <= to /\ to - from + 1 = 2 * ResultRows + 1
      BY <1>1
    <2> HIDE DEF to
    <2>2. IsFiniteSet(from..to) /\ Cardinality(from..to) = to - from + 1
      BY <2>1, IntervalIs
    <2> QED BY <2>1, <2>2 DEF to
  <1>3. IsFiniteSet(Document!reserved_keys) /\ Cardinality(Document!reserved_keys) <= Len(rows)
    <2> DEFINE g == [i \in DOMAIN rows |-> rows[i].key]
    <2>1. g \in Surjection(DOMAIN rows, Document!reserved_keys)
      BY DEF Surjection, Document!reserved_keys
    <2>2. IsFiniteSet(DOMAIN rows) /\ Cardinality(DOMAIN rows) = Len(rows)
      BY RowsCount
    <2> HIDE DEF g
    <2> QED BY <2>1, <2>2, FS_Surjection
  <1>4. IsFiniteSet(T) /\ Cardinality(T) <= 2 * ResultRows /\ Cardinality(T) \in Nat
    <2>1. /\ IsFiniteSet(T)
          /\ Cardinality(T) = Cardinality(Document!reserved_keys) + Cardinality(used) - Cardinality(Document!reserved_keys \cap used)
      BY <1>3, FS_Union
    <2>2. IsFiniteSet(Document!reserved_keys \cap used)
      BY <1>3, FS_Intersection
    <2>3. /\ Cardinality(Document!reserved_keys) \in Nat /\ Cardinality(used) \in Nat
          /\ Cardinality(Document!reserved_keys \cap used) \in Nat
      BY <1>3, <2>2, FS_CardinalityType
    <2> DEFINE a == Cardinality(Document!reserved_keys)
               b == Cardinality(used)
               c == Cardinality(Document!reserved_keys \cap used)
    <2>4. a <= ResultRows /\ b <= ResultRows /\ a \in Nat /\ b \in Nat /\ c \in Nat
      BY <1>1, <1>3, <2>3
    <2>5. Cardinality(T) \in Nat
      BY <2>1, FS_CardinalityType
    <2>6. Cardinality(T) = a + b - c
      BY <2>1
    <2> HIDE DEF a, b, c
    <2>7. Cardinality(T) <= 2 * ResultRows
      BY <1>1, <2>4, <2>6
    <2> QED BY <2>1, <2>5, <2>7
  <1>5. f \in [S -> T]
    OBVIOUS
  <1>6. Cardinality(T) < Cardinality(S)
    BY <1>1, <1>2, <1>4
  <1> HIDE DEF S, T
  <1>7. PICK x, y \in S : x # y /\ f[x] = f[y]
    <2> HIDE DEF f
    <2> QED BY <1>2, <1>4, <1>5, <1>6, FS_PigeonHole
  <1>8. Append(key, x) = Append(key, y)
    BY <1>7
  <1>9. x \in Nat /\ y \in Nat
    BY <1>1 DEF S
  <1>10. Append(key, x)[Len(key) + 1] = x /\ Append(key, y)[Len(key) + 1] = y
    BY <1>9
  <1> QED BY <1>7, <1>8, <1>10

LEMMA AllocateIs ==
  ASSUME DocumentInv, NEW key \in Document!reserved_keys, NEW used, NEW next, NEW last,
         IsFiniteSet(used), Cardinality(used) <= Len(rows), \A k \in DOMAIN next : next[k] \in Nat
  PROVE  LET a == Document!Allocate([used |-> used, next |-> next, last |-> last], key) IN
         /\ a.last \notin used /\ a.used = used \cup {a.last}
         /\ \A k \in DOMAIN a.next : a.next[k] \in Nat
         /\ key \notin used => a.last = key
         /\ key \in used => a.last \notin Document!reserved_keys
  <1> DEFINE keys == [used |-> used, next |-> next, last |-> last]
             a == Document!Allocate(keys, key)
  <1>1. CASE key \notin used
    <2>1. a = [used |-> used \cup {key}, next |-> next, last |-> key]
      BY <1>1 DEF Document!Allocate
    <2> QED BY <1>1, <2>1
  <1>2. CASE key \in used
    <2> DEFINE from == IF key \in DOMAIN next THEN next[key] ELSE 2
               R == from..from + 2 * ResultRows
               Free(n) == Append(key, n) \notin Document!reserved_keys \cup used
               suffix == CHOOSE n \in R : Free(n) /\ \A m \in from..n - 1 : ~Free(m)
    <2>1. from \in Nat
      OBVIOUS
    <2>2. key \in Seq(Nat)
      BY RowsOf DEF Document!reserved_keys
    <2>3. \E n \in R : Free(n)
      BY <2>1, <2>2, SuffixIsFree
    <2>4. a = [used |-> used \cup {Append(key, suffix)}, last |-> Append(key, suffix),
               next |-> [k \in DOMAIN next \cup {key} |-> IF k = key THEN suffix + 1 ELSE next[k]]]
      BY <1>2 DEF Document!Allocate
    <2>5. suffix \in Nat /\ Free(suffix)
      <3> DEFINE F == {n \in R : Free(n)}
      <3>1. F \subseteq Nat /\ F # {}
        BY <2>1, <2>3, RowsOf
      <3>2. PICK n \in F : \A m \in F : n <= m
        <4> HIDE DEF F
        <4> QED BY <3>1, LeastIs
      <3>3. n \in R /\ Free(n) /\ \A m \in from..n - 1 : ~Free(m)
        BY <2>1, <3>2, RowsOf
      <3> HIDE DEF Free
      <3>4. suffix \in R /\ Free(suffix)
        BY <3>3, Zenon
      <3> QED BY <2>1, <3>4, RowsOf
    <2> HIDE DEF suffix
    <2>6. /\ a.last = Append(key, suffix) /\ a.used = used \cup {a.last}
          /\ a.next = [k \in DOMAIN next \cup {key} |-> IF k = key THEN suffix + 1 ELSE next[k]]
      BY <2>4, SMTT(30)
    <2> HIDE DEF a
    <2>7. \A k \in DOMAIN a.next : a.next[k] \in Nat
      BY <2>5, <2>6
    <2> QED BY <1>2, <2>5, <2>6, <2>7 DEF a
  <1> QED BY <1>1, <1>2

\* The units are added one by one.
IsAdding(g, M) == g = [n \in 0..M |-> IF n = 0 THEN Document!Start ELSE Document!Add(g[n - 1], Document!Order[n])]

LEMMA AddingExists ==
  ASSUME NEW N \in Nat
  PROVE  \E g : IsAdding(g, N)
  <1> DEFINE Met == {n \in Nat : \E g : IsAdding(g, n)}
  <1>1. 0 \in Met
    <2> DEFINE g == [n \in 0..0 |-> Document!Start]
    <2>1. g = [n \in 0..0 |-> IF n = 0 THEN Document!Start ELSE Document!Add(g[n - 1], Document!Order[n])]
      OBVIOUS
    <2> HIDE DEF g
    <2>2. IsAdding(g, 0)
      BY <2>1 DEF IsAdding
    <2> QED BY <2>2
  <1>2. \A M \in 0..N - 1 : M \in Met => M + 1 \in Met
    <2> SUFFICES ASSUME NEW M \in Nat, NEW g, IsAdding(g, M) PROVE \E k : IsAdding(k, M + 1)
      OBVIOUS
    <2> DEFINE Step(f, n) == IF n = 0 THEN Document!Start ELSE Document!Add(f[n - 1], Document!Order[n])
               k == [n \in 0..M + 1 |-> IF n = M + 1 THEN Step(g, n) ELSE g[n]]
    <2>1. \A n \in 0..M : g[n] = Step(g, n)
      BY DEF IsAdding
    <2>2. ASSUME NEW n \in 0..M + 1 PROVE k[n] = Step(k, n)
      <3> HIDE DEF Step
      <3>1. \A f, h, m \in {n} : m = 0 \/ f[m - 1] = h[m - 1] => Step(f, m) = Step(h, m)
        BY DEF Step
      <3>2. n = 0 \/ (n - 1 \in 0..M /\ n - 1 # M + 1)
        OBVIOUS
      <3>3. n = 0 \/ k[n - 1] = g[n - 1]
        BY <3>2
      <3>4. Step(k, n) = Step(g, n)
        <4> HIDE DEF k
        <4> QED BY <3>3 DEF Step
      <3>5. k[n] = Step(g, n)
        <4>1. CASE n = M + 1
          BY <4>1
        <4>2. CASE n # M + 1
          <5>1. n \in 0..M
            BY <4>2
          <5> QED BY <2>1, <4>2, <5>1
        <4> QED BY <4>1, <4>2
      <3> QED BY <3>4, <3>5
    <2>3. k = [n \in 0..M + 1 |-> k[n]]
      OBVIOUS
    <2> HIDE DEF k
    <2>4. IsAdding(k, M + 1)
      BY <2>2, <2>3 DEF IsAdding
    <2> QED BY <2>4
  <1>3. N \in 0..N
    OBVIOUS
  <1> HIDE DEF Met
  <1>4. N \in Met
    BY <1>1, <1>2, <1>3, UpTo
  <1> QED BY <1>4 DEF Met

LEMMA AddedIs ==
  ASSUME DocumentInv
  PROVE  LET C == Cardinality(Document!Leads) IN
         /\ Document!Added[0] = Document!Start
         /\ \A n \in 1..C : Document!Added[n] = Document!Add(Document!Added[n - 1], Document!Order[n])
         /\ Document!Multilingual = Document!Added[C].data
  <1> DEFINE C == Cardinality(Document!Leads)
  <1>1. C \in Nat /\ Document!Cardinality(Document!Leads) = C
    BY LeadsAre, DocumentCounts
  <1>2. \E g : IsAdding(g, C)
    BY <1>1, AddingExists
  <1>3. Document!Added = CHOOSE g : IsAdding(g, C)
    <2> HIDE DEF C
    <2> QED BY <1>1, Zenon DEF Document!Added, IsAdding
  <1>4. IsAdding(Document!Added, C)
    BY <1>2, <1>3
  <1> HIDE DEF C
  <1>5. /\ Document!Added[0] = Document!Start
        /\ \A n \in 1..C : Document!Added[n] = Document!Add(Document!Added[n - 1], Document!Order[n])
    <2>1. 0 \in 0..C /\ \A n \in 1..C : n \in 0..C /\ n # 0
      BY <1>1
    <2> QED BY <1>4, <2>1 DEF IsAdding
  <1>6. Document!Multilingual = Document!Added[C].data
    BY <1>1 DEF Document!Multilingual
  <1> QED BY <1>5, <1>6 DEF C

\* What is known of the first units: 'Named' is the key of each, 'Own' that of its rows.
Named(m) == Document!Added[m].last
Own(m) == rows[Document!Order[m]].key

AddedWell(n) ==
  LET acc == Document!Added[n] IN
  /\ acc.used = {Named(m) : m \in 1..n} /\ IsFiniteSet(acc.used) /\ Cardinality(acc.used) <= n
  /\ \A k \in DOMAIN acc.next : acc.next[k] \in Nat
  /\ DOMAIN acc.data = acc.used
  /\ \A m \in 1..n : acc.data[Named(m)] = Document!Targets(Document!Order[m])
  /\ \A m \in 1..n : \A l \in 1..m - 1 : Named(l) # Named(m)
  /\ \A m \in 1..n : IF \E l \in 1..m - 1 : Own(l) = Own(m) THEN Named(m) \notin Document!reserved_keys
                     ELSE Named(m) = Own(m)

LEMMA AddIs ==
  ASSUME DocumentInv, NEW n \in 1..Cardinality(Document!Leads), AddedWell(n - 1)
  PROVE  LET old == Document!Added[n - 1]
             acc == Document!Added[n]
         IN
         /\ acc.last = Named(n) /\ Named(n) \notin old.used /\ acc.used = old.used \cup {Named(n)}
         /\ \A k \in DOMAIN acc.next : acc.next[k] \in Nat
         /\ acc.data = [k \in DOMAIN old.data \cup {Named(n)} |->
                          IF k = Named(n) THEN Document!Targets(Document!Order[n]) ELSE old.data[k]]
         /\ Own(n) \notin old.used => Named(n) = Own(n)
         /\ Own(n) \in old.used => Named(n) \notin Document!reserved_keys
  <1> DEFINE old == Document!Added[n - 1]
             acc == Document!Added[n]
             keys == Document!Allocate([used |-> old.used, next |-> old.next, last |-> old.last], Own(n))
  <1>1. acc = Document!Add(old, Document!Order[n])
    BY AddedIs
  <1>2. acc = [used |-> keys.used, next |-> keys.next, last |-> keys.last,
               data |-> [k \in DOMAIN old.data \cup {keys.last} |->
                           IF k = keys.last THEN Document!Targets(Document!Order[n]) ELSE old.data[k]]]
    BY <1>1 DEF Document!Add, Own
  <1>3. Document!Order[n] \in DOMAIN rows
    BY OrderHas, LeadsAre
  <1>4. Own(n) \in Document!reserved_keys
    BY <1>3 DEF Own, Document!reserved_keys
  <1>5. IsFiniteSet(old.used) /\ Cardinality(old.used) <= Len(rows) /\ \A k \in DOMAIN old.next : old.next[k] \in Nat
    <2>1. /\ IsFiniteSet(old.used) /\ Cardinality(old.used) <= n - 1 /\ \A k \in DOMAIN old.next : old.next[k] \in Nat
      BY DEF AddedWell
    <2>2. Cardinality(Document!Leads) \in Nat /\ Cardinality(Document!Leads) <= Len(rows) /\ Len(rows) \in Nat
      BY LeadsAre, RowsOf
    <2>3. Cardinality(old.used) \in Nat
      BY <2>1, FS_CardinalityType
    <2> QED BY <2>1, <2>2, <2>3
  <1> HIDE DEF old
  <1>6. /\ keys.last \notin old.used /\ keys.used = old.used \cup {keys.last}
        /\ \A k \in DOMAIN keys.next : keys.next[k] \in Nat
        /\ Own(n) \notin old.used => keys.last = Own(n)
        /\ Own(n) \in old.used => keys.last \notin Document!reserved_keys
    BY <1>4, <1>5, AllocateIs
  <1> HIDE DEF keys
  <1>7. acc.last = keys.last /\ acc.used = keys.used /\ acc.next = keys.next
        /\ acc.data = [k \in DOMAIN old.data \cup {keys.last} |->
                           IF k = keys.last THEN Document!Targets(Document!Order[n]) ELSE old.data[k]]
    BY <1>2
  <1>8. Named(n) = keys.last
    BY <1>7 DEF Named
  <1> QED BY <1>6, <1>7, <1>8 DEF old

LEMMA AddKeepsWell ==
  ASSUME DocumentInv, NEW n \in 1..Cardinality(Document!Leads), AddedWell(n - 1)
  PROVE  AddedWell(n)
  <1> DEFINE old == Document!Added[n - 1]
             acc == Document!Added[n]
  <1>0. n \in Nat /\ n - 1 \in Nat /\ 1..n = (1..n - 1) \cup {n} /\ n \notin 1..n - 1
    BY LeadsAre
  <1>1. /\ old.used = {Named(m) : m \in 1..n - 1} /\ IsFiniteSet(old.used) /\ Cardinality(old.used) <= n - 1
        /\ DOMAIN old.data = old.used
        /\ \A m \in 1..n - 1 : old.data[Named(m)] = Document!Targets(Document!Order[m])
        /\ \A m \in 1..n - 1 : \A l \in 1..m - 1 : Named(l) # Named(m)
        /\ \A m \in 1..n - 1 : IF \E l \in 1..m - 1 : Own(l) = Own(m) THEN Named(m) \notin Document!reserved_keys
                               ELSE Named(m) = Own(m)
    BY DEF AddedWell
  <1>2. /\ Named(n) \notin old.used /\ acc.used = old.used \cup {Named(n)}
        /\ \A k \in DOMAIN acc.next : acc.next[k] \in Nat
        /\ acc.data = [k \in DOMAIN old.data \cup {Named(n)} |->
                          IF k = Named(n) THEN Document!Targets(Document!Order[n]) ELSE old.data[k]]
        /\ Own(n) \notin old.used => Named(n) = Own(n)
        /\ Own(n) \in old.used => Named(n) \notin Document!reserved_keys
    BY AddIs
  <1> HIDE DEF old, acc
  <1>3. acc.used = {Named(m) : m \in 1..n}
    BY <1>0, <1>1, <1>2
  <1>4. IsFiniteSet(acc.used) /\ Cardinality(acc.used) <= n
    <2>1. IsFiniteSet(acc.used) /\ Cardinality(acc.used) = Cardinality(old.used) + 1 /\ Cardinality(old.used) \in Nat
      <3>1. /\ IsFiniteSet(old.used \cup {Named(n)})
            /\ Cardinality(old.used \cup {Named(n)}) = IF Named(n) \in old.used THEN Cardinality(old.used) ELSE Cardinality(old.used) + 1
        BY <1>1, FS_AddElement
      <3>2. Cardinality(old.used) \in Nat
        BY <1>1, FS_CardinalityType
      <3> QED BY <1>2, <3>1, <3>2
    <2> QED BY <1>0, <1>1, <2>1
  <1>5. DOMAIN acc.data = acc.used
    BY <1>1, <1>2
  <1>6. ASSUME NEW m \in 1..n PROVE acc.data[Named(m)] = Document!Targets(Document!Order[m])
    <2>1. CASE m = n
      BY <1>2, <2>1
    <2>2. CASE m # n
      <3>1. m \in 1..n - 1 /\ Named(m) \in old.used
        BY <1>0, <1>1, <2>2
      <3> QED BY <1>1, <1>2, <3>1
    <2> QED BY <2>1, <2>2
  <1>7. ASSUME NEW m \in 1..n, NEW l \in 1..m - 1 PROVE Named(l) # Named(m)
    <2>1. CASE m = n
      BY <1>1, <1>2, <2>1
    <2>2. CASE m # n
      BY <1>0, <1>1, <2>2
    <2> QED BY <2>1, <2>2
  <1>8. ASSUME NEW m \in 1..n
        PROVE  IF \E l \in 1..m - 1 : Own(l) = Own(m) THEN Named(m) \notin Document!reserved_keys ELSE Named(m) = Own(m)
    <2>1. CASE m = n
      <3>1. Own(n) \in Document!reserved_keys
        BY OrderHas, LeadsAre DEF Own, Document!reserved_keys
      <3>2. Own(n) \in old.used <=> \E l \in 1..n - 1 : Own(l) = Own(n)
        <4>1. ASSUME Own(n) \in old.used PROVE \E l \in 1..n - 1 : Own(l) = Own(n)
          <5>1. PICK l \in 1..n - 1 : Named(l) = Own(n)
            BY <1>1, <4>1
          <5>2. Named(l) = Own(l)
            BY <1>1, <3>1, <5>1
          <5> QED BY <5>1, <5>2
        <4>2. ASSUME NEW l \in 1..n - 1, Own(l) = Own(n) PROVE Own(n) \in old.used
          <5> DEFINE T == {i \in 1..n - 1 : Own(i) = Own(n)}
          <5>1. T \subseteq Nat /\ T # {}
            BY <4>2
          <5>2. PICK i \in T : \A j \in T : i <= j
            <6> HIDE DEF T
            <6> QED BY <5>1, LeastIs
          <5>3. i \in 1..n - 1 /\ ~\E j \in 1..i - 1 : Own(j) = Own(i)
            BY <1>0, <5>2
          <5>4. Named(i) = Own(n)
            BY <1>1, <5>2, <5>3
          <5> QED BY <1>1, <5>3, <5>4
        <4> QED BY <4>1, <4>2
      <3> QED BY <1>2, <2>1, <3>2
    <2>2. CASE m # n
      BY <1>0, <1>1, <2>2
    <2> QED BY <2>1, <2>2
  <1> QED BY <1>2, <1>3, <1>4, <1>5, <1>6, <1>7, <1>8 DEF AddedWell, acc

LEMMA AllAreAdded ==
  ASSUME DocumentInv
  PROVE  AddedWell(Cardinality(Document!Leads))
  <1> DEFINE C == Cardinality(Document!Leads)
             Met == {n \in Nat : AddedWell(n)}
  <1>1. C \in Nat
    BY LeadsAre
  <1>2. 0 \in Met
    <2>1. Document!Added[0] = [used |-> {}, next |-> [x \in {} |-> x], last |-> <<>>, data |-> [x \in {} |-> x]]
      BY AddedIs DEF Document!Start
    <2>2. /\ Document!Added[0].used = {} /\ DOMAIN Document!Added[0].next = {} /\ DOMAIN Document!Added[0].data = {}
      BY <2>1
    <2>3. 1..0 = {} /\ IsFiniteSet({}) /\ Cardinality({}) = 0
      BY FS_EmptySet
    <2>4. AddedWell(0)
      BY <2>2, <2>3 DEF AddedWell
    <2> QED BY <2>4
  <1>3. \A n \in 0..C - 1 : n \in Met => n + 1 \in Met
    <2> SUFFICES ASSUME NEW n \in 0..C - 1, AddedWell(n) PROVE AddedWell(n + 1)
      BY <1>1
    <2>1. n + 1 \in 1..C /\ (n + 1) - 1 = n
      BY <1>1
    <2> HIDE DEF C
    <2>2. AddedWell((n + 1) - 1)
      BY <2>1
    <2> QED BY <2>1, <2>2, AddKeepsWell DEF C
  <1> HIDE DEF Met, C
  <1>4. C \in Met
    BY <1>1, <1>2, <1>3, UpTo
  <1> QED BY <1>4 DEF Met, C

\* The targets of a unit are its rows, by their locales.
LEMMA TargetsAre ==
  ASSUME DocumentInv, NEW i \in DOMAIN rows
  PROVE  /\ DOMAIN Document!Targets(i) = {rows[j].locale : j \in Document!Chunk(i)}
         /\ \A j \in Document!Chunk(i) : Document!Targets(i)[rows[j].locale] = j
  <1> DEFINE L == {rows[j].locale : j \in Document!Chunk(i)}
             Under(l) == {j \in Document!Chunk(i) : rows[j].locale = l}
  <1>1. Document!Targets(i) = [l \in L |-> Document!LastOf(Under(l))]
    BY DEF Document!Targets
  <1>2. ASSUME NEW j \in Document!Chunk(i) PROVE Document!LastOf(Under(rows[j].locale)) = j
    <2>1. Under(rows[j].locale) = {j}
      BY ChunkIs
    <2>2. j \in Nat
      BY RowsOf, GroupIs, ChunkIs
    <2> QED BY <2>1, <2>2, LastOfIs
  <1> HIDE DEF Under
  <1> QED BY <1>1, <1>2

\* The place of a row's unit in the document.
LEMMA PlaceOfRow ==
  ASSUME DocumentInv, NEW i \in DOMAIN rows
  PROVE  \E m \in 1..Cardinality(Document!Leads) : Document!Order[m] = Lead(i)
  BY LeadIs, OrderHas

\* What is under a key of the document.
LEMMA KeysAre ==
  ASSUME DocumentInv
  PROVE  LET C == Cardinality(Document!Leads)
             data == Document!Multilingual
         IN
         /\ \A k \in DOMAIN data : \E m \in 1..C : k = Named(m)
         /\ \A m \in 1..C : Named(m) \in DOMAIN data /\ data[Named(m)] = Document!Targets(Document!Order[m])
         /\ \A m \in 1..C : (\A l \in 1..m - 1 : Own(l) # Own(m)) => Named(m) = Own(m)
  <1> DEFINE C == Cardinality(Document!Leads)
             acc == Document!Added[C]
  <1>1. AddedWell(C)
    BY AllAreAdded
  <1> HIDE DEF C
  <1>2. /\ acc.used = {Named(m) : m \in 1..C} /\ DOMAIN acc.data = acc.used
        /\ \A m \in 1..C : acc.data[Named(m)] = Document!Targets(Document!Order[m])
        /\ \A m \in 1..C : IF \E l \in 1..m - 1 : Own(l) = Own(m) THEN Named(m) \notin Document!reserved_keys
                           ELSE Named(m) = Own(m)
    BY <1>1 DEF AddedWell
  <1>3. Document!Multilingual = acc.data
    BY AddedIs DEF C
  <1> HIDE DEF acc
  <1> QED BY <1>2, <1>3 DEF C

InUnit(data, k, i) == rows[i].locale \in DOMAIN data[k] /\ data[k][rows[i].locale] = i

\* A row is in the unit of its lead, and in no other.
LEMMA RowIsIn ==
  ASSUME DocumentInv, NEW i \in DOMAIN rows, NEW m \in 1..Cardinality(Document!Leads)
  PROVE  InUnit(Document!Multilingual, Named(m), i) <=> Document!Order[m] = Lead(i)
  <1> DEFINE lead == Document!Order[m]
             data == Document!Multilingual
  <1>1. lead \in Document!Leads /\ lead \in DOMAIN rows /\ Lead(lead) = lead
    BY OrderHas, LeadsAre
  <1>2. data[Named(m)] = Document!Targets(lead)
    BY KeysAre
  <1>3. /\ DOMAIN Document!Targets(lead) = {rows[j].locale : j \in Document!Chunk(lead)}
        /\ \A j \in Document!Chunk(lead) : Document!Targets(lead)[rows[j].locale] = j
    BY <1>1, TargetsAre
  <1> HIDE DEF lead, data
  <1>4. ASSUME InUnit(data, Named(m), i) PROVE lead = Lead(i)
    <2>1. rows[i].locale \in DOMAIN Document!Targets(lead) /\ Document!Targets(lead)[rows[i].locale] = i
      BY <1>2, <1>4 DEF InUnit
    <2>2. PICK j \in Document!Chunk(lead) : rows[j].locale = rows[i].locale
      BY <1>3, <2>1
    <2>3. i \in Document!Chunk(lead)
      BY <1>3, <2>1, <2>2
    <2>4. Document!Chunk(i) = Document!Chunk(lead)
      BY <1>1, <2>3, ChunkIs
    <2> QED BY <1>1, <2>4 DEF Lead
  <1>5. ASSUME lead = Lead(i) PROVE InUnit(data, Named(m), i)
    <2>1. Document!Chunk(lead) = Document!Chunk(i) /\ i \in Document!Chunk(i)
      BY <1>5, LeadIs, ChunkIs
    <2> QED BY <1>2, <1>3, <2>1 DEF InUnit
  <1> QED BY <1>4, <1>5 DEF lead, data

\* The first row of a key leads a unit, which keeps the key.
LEMMA FirstKeeps ==
  ASSUME DocumentInv, NEW i \in DOMAIN rows, \A j \in 1..i - 1 : j = i \/ rows[j].key # rows[i].key
  PROVE  \E m \in 1..Cardinality(Document!Leads) : Document!Order[m] = i /\ Lead(i) = i /\ Named(m) = rows[i].key
  <1>1. DOMAIN rows = 1..Len(rows) /\ Len(rows) \in Nat /\ i \in Nat
    BY RowsOf
  <1>2. \A j \in DOMAIN rows : rows[j].key = rows[i].key => i <= j
    BY <1>1
  <1>3. \A j \in Document!Group(i) : i <= j
    BY <1>2 DEF Document!Group, Document!SameIdentity
  <1>4. Lead(i) = i
    <2>1. Lead(i) \in Document!Chunk(i) /\ Lead(i) <= i /\ i <= Lead(i) /\ Lead(i) \in DOMAIN rows
      BY <1>3, LeadIs, ChunkIs, GroupIs
    <2> QED BY <1>1, <2>1
  <1>5. PICK m \in 1..Cardinality(Document!Leads) : Document!Order[m] = i
    BY <1>4, PlaceOfRow
  <1>6. \A l \in 1..m - 1 : Own(l) # Own(m)
    <2> SUFFICES ASSUME NEW l \in 1..m - 1, rows[Document!Order[l]].key = rows[i].key PROVE FALSE
      BY <1>5 DEF Own
    <2> DEFINE j == Document!Order[l]
    <2>1. Cardinality(Document!Leads) \in Nat
      BY LeadsAre
    <2>2. l \in 1..Cardinality(Document!Leads) /\ l < m
      BY <2>1
    <2>3. j # i /\ Document!Before(j, i) /\ j \in DOMAIN rows
      BY <1>5, <2>2, OrderHas, LeadsAre
    <2> HIDE DEF j
    <2>4. Document!First(Document!Group(i)) = i
      <3>1. Document!Group(i) \subseteq Nat /\ i \in Document!Group(i)
        BY <1>1, GroupIs
      <3>2. Document!First(Document!Group(i)) \in Document!Group(i) /\ Document!First(Document!Group(i)) <= i
        BY <3>1, FirstIs
      <3> QED BY <1>1, <1>3, <3>1, <3>2
    <2>5. Document!First(Document!Group(j)) \in Nat /\ i <= Document!First(Document!Group(j))
      <3>1. Document!Group(j) \subseteq DOMAIN rows /\ j \in Document!Group(j)
        BY <2>3, GroupIs
      <3>2. Document!First(Document!Group(j)) \in Document!Group(j)
        BY <1>1, <3>1, FirstIs
      <3>3. rows[Document!First(Document!Group(j))].key = rows[j].key
        BY <3>2 DEF Document!Group, Document!SameIdentity
      <3>4. rows[j].key = rows[i].key
        BY DEF j
      <3> QED BY <1>1, <1>2, <3>1, <3>2, <3>3, <3>4
    <2>6. i <= j /\ j \in Nat
      BY <1>1, <1>2, <2>3 DEF j
    <2> QED BY <1>1, <2>3, <2>4, <2>5, <2>6 DEF Document!Before
  <1>7. Named(m) = rows[i].key
    BY <1>5, <1>6, KeysAre DEF Own
  <1> QED BY <1>4, <1>5, <1>7

LEMMA DocumentKeeps ==
  ASSUME DocumentInv
  PROVE  Document!MultilingualKeepsRows
  <1> DEFINE data == Document!Multilingual
             C == Cardinality(Document!Leads)
             Shares(i, with) == \E j \in with : j # i /\ rows[j].key = rows[i].key
  <1>0. /\ DOMAIN rows = 1..Len(rows) /\ Len(rows) \in Nat
        /\ \A k \in DOMAIN data : \E m \in 1..C : k = Named(m)
        /\ \A m \in 1..C : Named(m) \in DOMAIN data
    BY RowsOf, KeysAre
  <1>1. ASSUME NEW i \in DOMAIN rows PROVE Document!Cardinality({k \in DOMAIN data : InUnit(data, k, i)}) = 1
    <2>1. PICK m \in 1..C : Document!Order[m] = Lead(i)
      BY PlaceOfRow
    <2>2. \A l \in 1..C : InUnit(data, Named(l), i) <=> Document!Order[l] = Lead(i)
      BY RowIsIn
    <2>3. \A l \in 1..C : Document!Order[l] = Lead(i) => l = m
      <3> SUFFICES ASSUME NEW l \in 1..C, Document!Order[l] = Lead(i), l # m PROVE FALSE
        OBVIOUS
      <3>1. C \in Nat
        BY LeadsAre
      <3>2. l < m \/ m < l
        BY <3>1
      <3> QED BY <2>1, <3>2, OrderHas
    <2> HIDE DEF C, data
    <2>4. {k \in DOMAIN data : InUnit(data, k, i)} = {Named(m)}
      BY <1>0, <2>1, <2>2, <2>3
    <2> QED BY <2>4, FS_Singleton, DocumentCounts
  <1>2. ASSUME NEW k \in DOMAIN data, NEW l \in DOMAIN data[k], NEW n \in DOMAIN data[k]
        PROVE  Document!SameIdentity(data[k][l], data[k][n])
    <2>1. PICK m \in 1..C : k = Named(m)
      BY <1>0
    <2> DEFINE lead == Document!Order[m]
    <2>2. data[k] = Document!Targets(lead) /\ lead \in DOMAIN rows
      BY <2>1, KeysAre, OrderHas, LeadsAre
    <2> HIDE DEF lead, data
    <2>3. /\ DOMAIN Document!Targets(lead) = {rows[j].locale : j \in Document!Chunk(lead)}
          /\ \A j \in Document!Chunk(lead) : Document!Targets(lead)[rows[j].locale] = j
      BY <2>2, TargetsAre
    <2>4. \A x \in DOMAIN data[k] : data[k][x] \in Document!Chunk(lead)
      BY <2>2, <2>3
    <2>5. data[k][l] \in Document!Group(lead) /\ data[k][n] \in Document!Group(lead)
      BY <2>2, <2>4, ChunkIs
    <2> QED BY <2>5 DEF Document!Group, Document!SameIdentity
  <1>3. ASSUME NEW i \in DOMAIN rows, ~Shares(i, 1..i - 1) PROVE InUnit(data, rows[i].key, i)
    <2>1. PICK m \in 1..C : Document!Order[m] = i /\ Lead(i) = i /\ Named(m) = rows[i].key
      BY <1>3, FirstKeeps
    <2> QED BY <2>1, RowIsIn
  <1>4. ASSUME NEW i \in DOMAIN rows, ~Shares(i, DOMAIN rows)
        PROVE  Document!ToDocument[rows[i].key] = i /\ DOMAIN data[rows[i].key] = {rows[i].locale}
    <2>1. \A j \in DOMAIN rows : rows[j].key = rows[i].key <=> j = i
      BY <1>4
    <2>2. Document!ToDocument[rows[i].key] = i
      <3>1. {j \in DOMAIN rows : rows[j].key = rows[i].key} = {i}
        BY <2>1
      <3>2. Document!ToDocument[rows[i].key] = Document!LastOf({j \in DOMAIN rows : rows[j].key = rows[i].key})
        BY DEF Document!ToDocument
      <3> QED BY <1>0, <3>1, <3>2, LastOfIs
    <2>3. Document!Chunk(i) = {i}
      <3>1. Document!Group(i) \subseteq {i}
        BY <2>1 DEF Document!Group, Document!SameIdentity
      <3> QED BY <3>1, ChunkIs
    <2>4. \A j \in 1..i - 1 : j = i \/ rows[j].key # rows[i].key
      BY <1>0, <2>1
    <2>5. PICK m \in 1..C : Document!Order[m] = i /\ Named(m) = rows[i].key
      BY <2>4, FirstKeeps
    <2>6. data[rows[i].key] = Document!Targets(i)
      BY <2>5, KeysAre
    <2>7. DOMAIN Document!Targets(i) = {rows[i].locale}
      <3>1. DOMAIN Document!Targets(i) = {rows[j].locale : j \in Document!Chunk(i)}
        BY TargetsAre
      <3> QED BY <2>3, <3>1
    <2> QED BY <2>2, <2>6, <2>7
  <1> HIDE DEF C
  <1> QED BY <1>1, <1>2, <1>3, <1>4 DEF Document!MultilingualKeepsRows, InUnit

LEMMA DocumentNext ==
  ASSUME DocumentInv, [Document!Next]_rows
  PROVE  DocumentInv'
  <1>1. ASSUME NEW r \in Document!Row, Document!Fetch(r) PROVE DocumentInv'
    <2>1. rows \in Seq(Document!Row) /\ Len(rows) < ResultRows /\ rows' = Append(rows, r) /\ ResultRows \in Nat
      BY <1>1, RowsOf DEF DocumentInv, Document!Fetch
    <2> QED BY <2>1 DEF DocumentInv
  <1> QED BY <1>1 DEF DocumentInv, Document!Next
=============================================================================
