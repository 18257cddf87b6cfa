--------------------------- MODULE Calls_proofs ---------------------------
(***************************************************************************)
(* Proofs about imports, splits and exports (importers.py,                 *)
(* data/targets.py, exporters), and about the parts of Calls together.     *)
(***************************************************************************)
EXTENDS Calls, Reading_proofs

-----------------------------------------------------------------------------
(***************************************************************************)
(* The units of one locale (data/targets.py).                              *)
(***************************************************************************)
\* The fold over a sequence takes the elements of a set of positions from the last one on.
LEMMA LastOfSet ==
  ASSUME NEW M \in Nat, NEW S \in SUBSET (1..M), S # {}
  PROVE  Split!Max(S) \in S /\ (M \in S => Split!Max(S) = M)
  <1> DEFINE T == {M - x : x \in S}
  <1>1. T \subseteq Nat /\ T # {}
    OBVIOUS
  <1>2. PICK t \in T : \A u \in T : t <= u
    <2> HIDE DEF T
    <2> QED BY <1>1, LeastIs
  <1>3. M - t \in S /\ \A y \in S : M - t >= y
    <2>1. PICK x \in S : t = M - x
      OBVIOUS
    <2>2. \A y \in S : M - x <= M - y
      BY <1>2, <2>1
    <2>3. \A y \in S : y \in Nat /\ x \in Nat
      OBVIOUS
    <2>4. M - t = x /\ \A y \in S : x >= y
      BY <2>1, <2>2, <2>3
    <2> QED BY <2>4
  <1>4. Split!Max(S) \in S /\ \A y \in S : Split!Max(S) >= y
    BY <1>3, Zenon DEF Split!Max
  <1>5. ASSUME M \in S PROVE Split!Max(S) = M
    BY <1>4, <1>5
  <1> QED BY <1>4, <1>5

\* A unit more in the document of a locale; "r" is the locale, the one of texts that name
\* none, and whether units without a text are wanted.
Keeps(kept, u, r) == IF Split!Kept(u, r[1], r[2], r[3]) THEN Append(kept, u) ELSE kept
KeptOf(s, r) == Split!KeptUnits(s, r[1], r[2], r[3])

\* The folds of the modules: the units of a locale are kept, those of a document collected, and
\* the targets of a PO file added.
Folded(d, u, r) ==
  CASE r.by = "kept" -> Keeps(d, u, r.of)
    [] r.by = "collected" -> Import!Collect(d, u)
    [] r.by = "added" -> Import!AddTarget(d, u, r.of)

IsFolding(g, M, s, b, r) ==
  g = [S \in SUBSET (1..M) |-> IF S = {} THEN b ELSE Folded(g[S \ {Split!Max(S)}], s[Split!Max(S)], r)]

LEMMA FoldingStep ==
  ASSUME NEW s, NEW b, NEW r, NEW M \in Nat, NEW g, IsFolding(g, M, s, b, r)
  PROVE  \E k : IsFolding(k, M + 1, s, b, r)
  <1> DEFINE k == [S \in SUBSET (1..M + 1) |-> IF M + 1 \in S THEN Folded(g[S \ {M + 1}], s[M + 1], r) ELSE g[S]]
             e == [S \in SUBSET (1..M + 1) |->
                     IF S = {} THEN b ELSE Folded(k[S \ {Split!Max(S)}], s[Split!Max(S)], r)]
  <1>1. ASSUME NEW S \in SUBSET (1..M + 1) PROVE k[S] = e[S]
    <2>1. CASE M + 1 \in S
      <3>1. Split!Max(S) = M + 1 /\ S # {}
        BY <2>1, LastOfSet
      <3>2. S \ {M + 1} \in SUBSET (1..M) /\ S \ {M + 1} \in SUBSET (1..M + 1)
        OBVIOUS
      <3>3. k[S \ {M + 1}] = g[S \ {M + 1}]
        BY <3>2
      <3>4. k[S] = Folded(g[S \ {M + 1}], s[M + 1], r)
        BY <2>1
      <3>5. e[S] = Folded(k[S \ {Split!Max(S)}], s[Split!Max(S)], r)
        BY <3>1
      <3> HIDE DEF k, e
      <3> QED BY <3>1, <3>3, <3>4, <3>5
    <2>2. CASE M + 1 \notin S
      <3>1. S \in SUBSET (1..M)
        BY <2>2
      <3>2. k[S] = g[S]
        BY <2>2
      <3>3. g[S] = IF S = {} THEN b ELSE Folded(g[S \ {Split!Max(S)}], s[Split!Max(S)], r)
        BY <3>1 DEF IsFolding
      <3>4. S \ {Split!Max(S)} \in SUBSET (1..M + 1) /\ M + 1 \notin S \ {Split!Max(S)}
        BY <2>2
      <3>5. k[S \ {Split!Max(S)}] = g[S \ {Split!Max(S)}]
        BY <3>4
      <3>6. e[S] = IF S = {} THEN b ELSE Folded(k[S \ {Split!Max(S)}], s[Split!Max(S)], r)
        OBVIOUS
      <3> HIDE DEF k, e
      <3> QED BY <3>2, <3>3, <3>5, <3>6
    <2> QED BY <2>1, <2>2
  <1>2. k = e
    <2>1. k = [S \in SUBSET (1..M + 1) |-> k[S]] /\ e = [S \in SUBSET (1..M + 1) |-> e[S]]
      OBVIOUS
    <2> HIDE DEF k, e
    <2> QED BY <1>1, <2>1
  <1> QED BY <1>2 DEF IsFolding

LEMMA FoldingExists ==
  ASSUME NEW s, NEW b, NEW r, NEW N \in Nat
  PROVE  \E g : IsFolding(g, N, s, b, r)
  <1> DEFINE S == {M \in Nat : \E g : IsFolding(g, M, s, b, r)}
  <1>1. 0 \in S
    <2> DEFINE g == [T \in SUBSET (1..0) |-> b]
    <2>1. \A T \in SUBSET (1..0) : T = {}
      OBVIOUS
    <2>2. IsFolding(g, 0, s, b, r)
      BY <2>1, Zenon DEF IsFolding
    <2> QED BY <2>2
  <1>2. \A M \in 0..N - 1 : M \in S => M + 1 \in S
    BY FoldingStep
  <1> HIDE DEF S
  <1>3. 0..N \subseteq S
    BY <1>1, <1>2, UpTo
  <1> QED BY <1>3 DEF S

\* The fold, one unit after the other
IsChain(h, s, b, r) ==
  /\ h[0] = b
  /\ \A n \in 0..Len(s) - 1 : h[n + 1] = Folded(h[n], s[n + 1], r)

LEMMA FoldingSteps ==
  ASSUME NEW C, NEW s \in Seq(C), NEW b, NEW r, NEW g, IsFolding(g, Len(s), s, b, r)
  PROVE  \E h : IsChain(h, s, b, r) /\ h[Len(s)] = g[DOMAIN s]
  <1> DEFINE N == Len(s)
             h == [n \in 0..N |-> g[1..n]]
  <1>1. DOMAIN s = 1..N /\ N \in Nat
    OBVIOUS
  <1>2. h[0] = b
    <2>1. 1..0 = {} /\ {} \in SUBSET (1..N) /\ 0 \in 0..N
      BY <1>1
    <2> QED BY <2>1 DEF IsFolding
  <1>3. ASSUME NEW n \in 0..N - 1 PROVE h[n + 1] = Folded(h[n], s[n + 1], r)
    <2>1. 1..n + 1 \in SUBSET (1..N) /\ 1..n + 1 # {} /\ n + 1 \in 1..n + 1 /\ n + 1 \in Nat /\ n + 1 \in 0..N /\ n \in 0..N
      BY <1>1
    <2>2. Split!Max(1..n + 1) = n + 1
      BY <2>1, LastOfSet
    <2>3. (1..n + 1) \ {n + 1} = 1..n
      BY <1>1
    <2>4. g[1..n + 1] = Folded(g[(1..n + 1) \ {Split!Max(1..n + 1)}], s[Split!Max(1..n + 1)], r)
      BY <2>1 DEF IsFolding
    <2>5. h[n + 1] = g[1..n + 1] /\ h[n] = g[1..n]
      BY <2>1
    <2> HIDE DEF h
    <2> QED BY <2>2, <2>3, <2>4, <2>5
  <1>4. h[N] = g[DOMAIN s]
    BY <1>1
  <1> HIDE DEF h
  <1> QED BY <1>2, <1>3, <1>4 DEF IsChain

IsKept(h, s, r) ==
  /\ h[0] = <<>>
  /\ \A n \in 0..Len(s) - 1 : h[n + 1] = Keeps(h[n], s[n + 1], r)

KeptBy(r) == [by |-> "kept", of |-> r]
LEMMA KeptSteps ==
  ASSUME NEW C, NEW s \in Seq(C), NEW r
  PROVE  \E h : IsKept(h, s, r) /\ KeptOf(s, r) = h[Len(s)]
  <1> DEFINE N == Len(s)
             Folds(f) == f = [S \in SUBSET DOMAIN s |->
                                IF S = {} THEN <<>> ELSE Keeps(f[S \ {Split!Max(S)}], s[Split!Max(S)], r)]
             g == CHOOSE f : Folds(f)
  <1>1. KeptOf(s, r) = g[DOMAIN s]
    BY DEF KeptOf, Split!KeptUnits, Split!FoldLeft, Split!MapThenFoldSet, Keeps
  <1>2. DOMAIN s = 1..N /\ N \in Nat
    OBVIOUS
  <1>3. \A d, u : Folded(d, u, KeptBy(r)) = Keeps(d, u, r)
    BY DEF Folded, KeptBy
  <1>4. ASSUME NEW f PROVE Folds(f) <=> IsFolding(f, N, s, <<>>, KeptBy(r))
    BY <1>2, <1>3 DEF IsFolding
  <1>5. Folds(g)
    <2>1. \E f : Folds(f)
      <3> HIDE DEF Folds, N
      <3> QED BY <1>2, <1>4, FoldingExists
    <2> HIDE DEF Folds
    <2> QED BY <2>1, Zenon
  <1>6. IsFolding(g, N, s, <<>>, KeptBy(r))
    <2> HIDE DEF Folds, g
    <2> QED BY <1>4, <1>5
  <1> HIDE DEF g, N
  <1>7. PICK h : IsChain(h, s, <<>>, KeptBy(r)) /\ h[N] = g[DOMAIN s]
    BY <1>6, FoldingSteps DEF N
  <1>8. IsKept(h, s, r)
    BY <1>3, <1>7 DEF IsKept, IsChain
  <1> QED BY <1>1, <1>7, <1>8 DEF N

\* A unit is kept or not, whatever comes after it.
LEMMA KeptAppend ==
  ASSUME NEW C, NEW s \in Seq(C), NEW u \in C, NEW r
  PROVE  KeptOf(Append(s, u), r) = Keeps(KeptOf(s, r), u, r)
  <1> DEFINE t == Append(s, u)
             n == Len(s)
  <1>1. t \in Seq(C) /\ Len(t) = n + 1 /\ t[n + 1] = u /\ (\A i \in 1..n : t[i] = s[i]) /\ n \in Nat
    BY AppendProperties
  <1>2. PICK h : IsKept(h, s, r) /\ KeptOf(s, r) = h[n]
    BY KeptSteps
  <1> HIDE DEF t
  <1>3. PICK k : IsKept(k, t, r) /\ KeptOf(t, r) = k[n + 1]
    BY <1>1, KeptSteps
  <1> HIDE DEF n
  <1> DEFINE S == {m \in 0..n : h[m] = k[m]}
  <1>4. 0 \in S
    BY <1>1, <1>2, <1>3 DEF IsKept
  <1>5. \A m \in 0..n - 1 : m \in S => m + 1 \in S
    <2> SUFFICES ASSUME NEW m \in 0..n - 1, m \in S PROVE m + 1 \in S
      OBVIOUS
    <2>1. m + 1 \in 1..n /\ m + 1 \in 0..n /\ m \in 0..Len(t) - 1
      BY <1>1
    <2>2. h[m + 1] = Keeps(h[m], s[m + 1], r)
      BY <1>2 DEF IsKept, n
    <2>3. k[m + 1] = Keeps(k[m], t[m + 1], r)
      BY <1>3, <2>1 DEF IsKept
    <2>4. t[m + 1] = s[m + 1] /\ h[m] = k[m]
      BY <1>1, <2>1
    <2>5. h[m + 1] = k[m + 1]
      BY <2>2, <2>3, <2>4
    <2> QED BY <2>1, <2>5
  <1>6. 0..n \subseteq S
    <2> HIDE DEF S
    <2> QED BY <1>1, <1>4, <1>5, UpTo
  <1>7. h[n] = k[n]
    BY <1>1, <1>6
  <1>8. k[n + 1] = Keeps(k[n], u, r)
    <2>1. n \in 0..Len(t) - 1
      BY <1>1
    <2>2. k[n + 1] = Keeps(k[n], t[n + 1], r)
      BY <1>3, <2>1 DEF IsKept
    <2> QED BY <1>1, <2>2
  <1> QED BY <1>2, <1>3, <1>7, <1>8 DEF t

LEMMA KeptEmpty ==
  ASSUME NEW r
  PROVE  KeptOf(<<>>, r) = <<>>
  <1>1. <<>> \in Seq({}) /\ Len(<<>>) = 0
    OBVIOUS
  <1>2. PICK h : IsKept(h, <<>>, r) /\ KeptOf(<<>>, r) = h[Len(<<>>)]
    BY <1>1, KeptSteps
  <1> QED BY <1>1, <1>2 DEF IsKept

LEMMA KeptIn ==
  ASSUME NEW C, NEW s \in Seq(C), NEW r
  PROVE  KeptOf(s, r) \in Seq(C)
  <1> DEFINE n == Len(s)
             D == Seq(C)
  <1>1. PICK h : IsKept(h, s, r) /\ KeptOf(s, r) = h[n]
    BY KeptSteps
  <1>2. n \in Nat /\ \A m \in 0..n - 1 : s[m + 1] \in C
    OBVIOUS
  <1>3. h[0] \in D
    <2>1. <<>> \in D
      OBVIOUS
    <2> HIDE DEF D
    <2> QED BY <1>1, <2>1 DEF IsKept
  <1>4. ASSUME NEW m \in 0..n - 1, h[m] \in D PROVE h[m + 1] \in D
    <2>1. h[m + 1] = Keeps(h[m], s[m + 1], r)
      BY <1>1 DEF IsKept
    <2>2. Append(h[m], s[m + 1]) \in D
      BY <1>2, <1>4, AppendProperties
    <2> HIDE DEF D
    <2> QED BY <1>4, <2>1, <2>2 DEF Keeps
  <1> HIDE DEF n, D
  <1> DEFINE S == {m \in 0..n : h[m] \in D}
  <1>5. 0 \in S /\ \A m \in 0..n - 1 : m \in S => m + 1 \in S
    BY <1>2, <1>3, <1>4
  <1>6. 0..n \subseteq S
    <2> HIDE DEF S
    <2> QED BY <1>2, <1>5, UpTo
  <1> QED BY <1>1, <1>2, <1>6 DEF D

\* What _select_target makes of the units before a place, for a locale
LegacyOf(f) == Split!LegacyTargetLocale(f.locale, f.locales)
Wanted(f, l) == <<l, LegacyOf(f), f.missing>>
Clones(kept, f, l) == [i \in DOMAIN kept |-> Split!CloneIn(kept[i], l, LegacyOf(f))]
Selected(f, s, l) == Clones(KeptOf(s, Wanted(f, l)), f, l)

LEMMA SelectedEmpty ==
  ASSUME NEW f, NEW l
  PROVE  Selected(f, <<>>, l) = <<>>
  BY KeptEmpty DEF Selected, Clones

LEMMA SelectedAppend ==
  ASSUME NEW C, NEW s \in Seq(C), NEW u \in C, NEW f, NEW l
  PROVE  Selected(f, Append(s, u), l) =
           IF Split!Kept(u, l, LegacyOf(f), f.missing)
             THEN Append(Selected(f, s, l), Split!CloneIn(u, l, LegacyOf(f))) ELSE Selected(f, s, l)
  <1> DEFINE k == KeptOf(s, Wanted(f, l))
             keep == Split!Kept(u, l, LegacyOf(f), f.missing)
             c == Split!CloneIn(u, l, LegacyOf(f))
  <1>1. KeptOf(Append(s, u), Wanted(f, l)) = IF keep THEN Append(k, u) ELSE k
    BY KeptAppend DEF Keeps, Wanted
  <1>2. k \in Seq(C)
    BY KeptIn
  <1>3. Clones(Append(k, u), f, l) = Append(Clones(k, f, l), c)
    <2> DEFINE n == Len(k)
               a == Append(k, u)
               p == Clones(k, f, l)
    <2>1. n \in Nat /\ DOMAIN k = 1..n /\ DOMAIN a = 1..n + 1 /\ a[n + 1] = u /\ \A i \in 1..n : a[i] = k[i]
      BY <1>2, AppendProperties
    <2> DEFINE Made(v) == Split!CloneIn(v, l, LegacyOf(f))
    <2>2. p = [i \in 1..n |-> Made(k[i])] /\ Clones(a, f, l) = [i \in 1..n + 1 |-> Made(a[i])]
      BY <2>1 DEF Clones
    <2> DEFINE R == {Made(v) : v \in C}
    <2>3. \A i \in 1..n : Made(k[i]) \in R
      BY <1>2, <2>1
    <2>4. c = Made(u) /\ c \in R
      OBVIOUS
    <2> HIDE DEF Made, a, c, R, k, p, n
    <2>5. p \in Seq(R) /\ Len(p) = n
      BY <2>1, <2>2, <2>3
    <2>6. Append(p, c) = [i \in 1..n + 1 |-> IF i = n + 1 THEN c ELSE p[i]]
      <3> DEFINE q == Append(p, c)
      <3>1. q \in Seq(R) /\ Len(q) = n + 1 /\ q[n + 1] = c /\ \A i \in 1..n : q[i] = p[i]
        BY <2>4, <2>5, AppendProperties
      <3> HIDE DEF q
      <3>2. q = [i \in 1..n + 1 |-> q[i]]
        BY <3>1
      <3>3. \A i \in 1..n + 1 : q[i] = IF i = n + 1 THEN c ELSE p[i]
        BY <2>1, <3>1
      <3> QED BY <3>2, <3>3 DEF q
    <2>7. \A i \in 1..n + 1 : Made(a[i]) = IF i = n + 1 THEN c ELSE p[i]
      BY <2>1, <2>2, <2>4
    <2> QED BY <2>2, <2>6, <2>7 DEF a, p
  <1> HIDE DEF c, k, keep
  <1> QED BY <1>1, <1>3 DEF Selected, c, k, keep

\* Rust makes the unit of a locale that Python makes.
LEMMA RustClones ==
  ASSUME NEW u, NEW l, NEW legacy, \A locale \in DOMAIN u.targets : u.targets[locale] # Absent
  PROVE  Split!SelectTargetData(u, l, legacy) = Split!CloneIn(u, l, legacy)
  <1> DEFINE t == u.targets[l]
             keep == Split!HasLegacy(u, l, legacy)
             bare == [u EXCEPT !.target = IF keep THEN @ ELSE Absent, !.targets = <<>>]
  <1>1. CASE l \in DOMAIN u.targets
    <2> DEFINE a == [u EXCEPT !.targets = <<>>, !.target = t.text, !.tags = t.tags,
                   !.status = IF t.status = "unknown" THEN @ ELSE t.status,
                   !.usage = IF t.usage = Absent THEN @ ELSE t.usage]
               b == [bare EXCEPT !.target = t.text, !.tags = t.tags,
                    !.status = IF t.status # "unknown" THEN t.status ELSE @,
                    !.usage = IF t.usage # Absent THEN t.usage ELSE @]
    <2>1. Split!SelectTargetData(u, l, legacy) = a
      BY <1>1 DEF Split!SelectTargetData
    <2>2. Split!CloneIn(u, l, legacy) = b
      BY <1>1 DEF Split!CloneIn, Split!CloneForTarget
    <2>3. DOMAIN a = DOMAIN u /\ DOMAIN b = DOMAIN u /\ a = [x \in DOMAIN u |-> a[x]] /\ b = [x \in DOMAIN u |-> b[x]]
      OBVIOUS
    <2>4. ASSUME NEW x \in DOMAIN u PROVE a[x] = b[x]
      OBVIOUS
    <2> HIDE DEF a, b
    <2> QED BY <2>1, <2>2, <2>3, <2>4
  <1>2. CASE l \notin DOMAIN u.targets /\ keep
    <2>1. Split!SelectTargetData(u, l, legacy) = [u EXCEPT !.targets = <<>>]
      BY <1>2 DEF Split!SelectTargetData, Split!HasLegacy
    <2>2. Split!CloneIn(u, l, legacy) = [bare EXCEPT !.tags = @]
      BY <1>2 DEF Split!CloneIn, Split!CloneForTarget
    <2> DEFINE a == [u EXCEPT !.targets = <<>>]
               b == [bare EXCEPT !.tags = @]
    <2>3. DOMAIN a = DOMAIN u /\ DOMAIN b = DOMAIN u /\ a = [x \in DOMAIN u |-> a[x]] /\ b = [x \in DOMAIN u |-> b[x]]
      OBVIOUS
    <2>4. ASSUME NEW x \in DOMAIN u PROVE a[x] = b[x]
      BY <1>2
    <2> HIDE DEF a, b
    <2> QED BY <2>1, <2>2, <2>3, <2>4 DEF a, b
  <1>3. CASE l \notin DOMAIN u.targets /\ ~keep
    <2>1. Split!SelectTargetData(u, l, legacy) = [u EXCEPT !.targets = <<>>, !.target = Absent, !.tags = Absent]
      BY <1>3 DEF Split!SelectTargetData, Split!HasLegacy
    <2>2. Split!CloneIn(u, l, legacy) = [bare EXCEPT !.tags = Absent]
      BY <1>3 DEF Split!CloneIn, Split!CloneForTarget
    <2> DEFINE a == [u EXCEPT !.targets = <<>>, !.target = Absent, !.tags = Absent]
               b == [bare EXCEPT !.tags = Absent]
    <2>3. DOMAIN a = DOMAIN u /\ DOMAIN b = DOMAIN u /\ a = [x \in DOMAIN u |-> a[x]] /\ b = [x \in DOMAIN u |-> b[x]]
      OBVIOUS
    <2>4. ASSUME NEW x \in DOMAIN u PROVE a[x] = b[x]
      BY <1>3
    <2> HIDE DEF a, b
    <2> QED BY <2>1, <2>2, <2>3, <2>4 DEF a, b
  <1> QED BY <1>1, <1>2, <1>3

\* What Rust reads of the master file is what _select_target makes of its units.
LEMMA RustReads ==
  ASSUME NEW C, NEW s \in Seq(C), NEW f, NEW l, \A u \in C : \A locale \in DOMAIN u.targets : u.targets[locale] # Absent
  PROVE  Split!ReadTarget(s, l, LegacyOf(f), f.missing) = Selected(f, s, l)
  <1> DEFINE k == KeptOf(s, Wanted(f, l))
  <1>1. k \in Seq(C) /\ k = Split!KeptUnits(s, l, LegacyOf(f), f.missing)
    BY KeptIn DEF KeptOf, Wanted
  <1>2. \A i \in DOMAIN k : k[i] \in C
    BY <1>1
  <1> HIDE DEF k
  <1>3. \A i \in DOMAIN k : Split!SelectTargetData(k[i], l, LegacyOf(f)) = Split!CloneIn(k[i], l, LegacyOf(f))
    BY <1>2, RustClones
  <1>4. Split!ReadTarget(s, l, LegacyOf(f), f.missing) = [i \in DOMAIN k |-> Split!SelectTargetData(k[i], l, LegacyOf(f))]
    BY <1>1 DEF Split!ReadTarget
  <1> QED BY <1>3, <1>4 DEF Selected, Clones, k

-----------------------------------------------------------------------------
(***************************************************************************)
(* StreamingTargetSplit (data/targets.py).                                 *)
(***************************************************************************)
LEMMA PrefixIs ==
  ASSUME NEW C, NEW s \in Seq(C)
  PROVE  /\ SubSeq(s, 1, 0) = <<>> /\ SubSeq(s, 1, Len(s)) = s
         /\ \A n \in 0..Len(s) : SubSeq(s, 1, n) \in Seq(C)
         /\ \A n \in 0..Len(s) - 1 : SubSeq(s, 1, n + 1) = Append(SubSeq(s, 1, n), s[n + 1]) /\ s[n + 1] \in C
  <1>1. Len(s) \in Nat /\ DOMAIN s = 1..Len(s) /\ s = [i \in 1..Len(s) |-> s[i]]
    OBVIOUS
  <1>2. \A n \in 0..Len(s) : SubSeq(s, 1, n) \in Seq(C) /\ SubSeq(s, 1, n) = [i \in 1..n |-> s[i]]
    OBVIOUS
  <1>3. SubSeq(s, 1, 0) = <<>> /\ SubSeq(s, 1, Len(s)) = s
    OBVIOUS
  <1>4. ASSUME NEW n \in 0..Len(s) - 1
        PROVE  SubSeq(s, 1, n + 1) = Append(SubSeq(s, 1, n), s[n + 1]) /\ s[n + 1] \in C
    <2> DEFINE p == SubSeq(s, 1, n)
               q == SubSeq(s, 1, n + 1)
               r == Append(p, s[n + 1])
    <2>1. n + 1 \in 1..Len(s) /\ n \in 0..Len(s) /\ n + 1 \in 0..Len(s) /\ s[n + 1] \in C
      BY <1>1
    <2>2. p \in Seq(C) /\ p = [i \in 1..n |-> s[i]] /\ q = [i \in 1..n + 1 |-> s[i]] /\ Len(p) = n
      BY <1>2, <2>1
    <2>3. r \in Seq(C) /\ Len(r) = n + 1 /\ r[n + 1] = s[n + 1] /\ \A i \in 1..n : r[i] = p[i]
      <3> HIDE DEF p
      <3> QED BY <2>1, <2>2, AppendProperties
    <2> HIDE DEF p, q, r
    <2>4. \A i \in 1..n + 1 : r[i] = s[i]
      BY <2>2, <2>3
    <2>5. r = [i \in 1..n + 1 |-> r[i]]
      BY <2>3
    <2>6. q = r
      BY <2>2, <2>4, <2>5
    <2> QED BY <2>1, <2>6 DEF p, q, r
  <1> QED BY <1>2, <1>3, <1>4

\* The locales of a split
SplitLocales(f) == IF f.requested # {} THEN f.requested ELSE Split!DocumentTargetLocales(f)
FoundIn(f, n) ==
  f.requested \cup (f.locales \cup (IF f.locale = Absent THEN {} ELSE {f.locale})) \cup
  UNION {DOMAIN f.units[i].targets : i \in 1..n}
SplitLimit(f) == IF f.failAt = 0 THEN Len(f.units) ELSE f.failAt - 1

IsSplitJob(j) ==
  DOMAIN j = {"pc", "caller", "directory", "cancelled", "taken", "writers", "written", "found", "master", "todo", "parts", "active"}
SplitPlaces(f, j) ==
  /\ j.taken \in 0..SplitLimit(f)
  /\ j.pc = "idle" => j = Split!Idle
  /\ j.pc = "direct" =>
       f.requested # {} /\ j.written = [l \in f.requested |-> Selected(f, SubSeq(f.units, 1, j.taken), l)]
  /\ j.pc = "master" =>
       j.master = SubSeq(f.units, 1, j.taken) /\ j.found = FoundIn(f, j.taken) /\ j.written = <<>>
  /\ j.pc = "project" =>
       /\ j.master = f.units /\ j.todo \subseteq SplitLocales(f)
       /\ j.written = [l \in SplitLocales(f) \ j.todo |-> Selected(f, f.units, l)]
  /\ j.pc = "open" => j.parts = [l \in SplitLocales(f) |-> Selected(f, f.units, l)]
SplitHeld(j) ==
  /\ j.pc \in {"idle", "refused", "direct", "master", "project", "failed", "open", "closed"}
  /\ j.pc \in {"direct", "master", "project", "failed", "closed"} => j.active = {}
  /\ j.pc \in {"failed", "closed"} => ~j.directory
  /\ j.pc \in {"failed", "open", "closed"} => j.writers = {}
\* The caller's stream: of one that was asked for nothing no unit was taken, and only a split over
\* a master file has such a one.
DirectIn(f) == f.requested # {} /\ Split!Cardinality(f.requested) <= MaxDirect
SplitCaller(f, j) ==
  /\ j.pc = "direct" => j.caller = "reading"
  /\ j.pc = "master" => j.caller = "reading" \/ (j.caller = "unread" /\ ~DirectIn(f) /\ j.taken = 0)
  /\ j.pc = "failed" => j.caller = "closed" \/ (j.caller = "unread" /\ ~DirectIn(f) /\ j.taken = 0)
  /\ j.pc \in {"project", "open", "closed"} => j.caller = "closed"
Splitting(f, j) == IsSplitJob(j) /\ SplitPlaces(f, j) /\ SplitHeld(j) /\ SplitCaller(f, j)
SplitInv == input \in SplitStreams /\ Splitting(input, job)

LEMMA SplitInputIs ==
  ASSUME Split!StreamsAssumption, NEW f \in SplitStreams
  PROVE  /\ f.units \in Seq(Split!Range(f.units)) /\ Len(f.units) \in Nat
         /\ SplitLimit(f) \in 0..Len(f.units) /\ (f.failAt = 0 => SplitLimit(f) = Len(f.units))
         /\ \A u \in Split!Range(f.units) : \A locale \in DOMAIN u.targets : u.targets[locale] # Absent
  <1>1. /\ f.units \in Seq(Split!Range(f.units)) /\ f.failAt \in 0..Len(f.units) + 1
        /\ \A u \in Split!Range(f.units) : \A locale \in DOMAIN u.targets : u.targets[locale] # Absent
    BY DEF Split!StreamsAssumption
  <1>2. Len(f.units) \in Nat
    BY <1>1
  <1> DEFINE at == f.failAt
             n == Len(f.units)
  <1>3. (IF at = 0 THEN n ELSE at - 1) \in 0..n
    <2> HIDE DEF at, n
    <2>1. at \in 0..n + 1 /\ n \in Nat
      BY <1>1, <1>2 DEF at, n
    <2> QED BY <2>1
  <1> QED BY <1>1, <1>2, <1>3 DEF SplitLimit

LEMMA SplitBegins ==
  ASSUME Split!StreamsAssumption, Split!Init
  PROVE  SplitInv
  <1>1. input \in SplitStreams /\ job = Split!Idle
    BY DEF Split!Init
  <1>2. 0 \in 0..SplitLimit(input)
    <2>1. SplitLimit(input) \in Nat
      BY <1>1, SplitInputIs
    <2> QED BY <2>1
  <1>3. Splitting(input, Split!Idle)
    BY <1>2 DEF Splitting, IsSplitJob, SplitPlaces, SplitHeld, SplitCaller, Split!Idle
  <1> QED BY <1>1, <1>3 DEF SplitInv

LEMMA EnterSplits ==
  ASSUME Split!StreamsAssumption, SplitInv, Split!Enter
  PROVE  Splitting(input, job')
  <1>1. job = Split!Idle /\ input \in SplitStreams /\ job.taken \in 0..SplitLimit(input)
    BY DEF SplitInv, Splitting, SplitPlaces, Split!Enter
  <1>2. SubSeq(input.units, 1, 0) = <<>>
    BY <1>1, SplitInputIs, PrefixIs
  <1>3. job.taken = 0 /\ job.written = <<>> /\ job.master = <<>> /\ job.active = {} /\ IsSplitJob(job)
    BY <1>1 DEF Split!Idle, IsSplitJob
  <1> DEFINE k == job'
  <1>4. CASE k = [job EXCEPT !.pc = "refused"]
    BY <1>1, <1>3, <1>4 DEF Splitting, IsSplitJob, SplitPlaces, SplitHeld, SplitCaller
  <1>5. CASE /\ k = [job EXCEPT !.pc = "direct", !.caller = "reading", !.directory = TRUE, !.writers = input.requested,
                                !.written = [l \in input.requested |-> <<>>]]
             /\ DirectIn(input)
    <2> HIDE DEF k
    <2>1. /\ k.pc = "direct" /\ k.written = [l \in input.requested |-> <<>>] /\ k.taken = 0 /\ k.active = {} /\ IsSplitJob(k)
          /\ k.caller = "reading" /\ input.requested # {}
      BY <1>3, <1>5 DEF IsSplitJob, DirectIn
    <2>2. k.written = [l \in input.requested |-> Selected(input, SubSeq(input.units, 1, k.taken), l)]
      <3> DEFINE s == SubSeq(input.units, 1, k.taken)
      <3>1. s = <<>>
        BY <1>2, <2>1
      <3> HIDE DEF s
      <3>2. \A l : Selected(input, s, l) = <<>>
        BY <3>1, SelectedEmpty
      <3>3. k.written = [l \in input.requested |-> Selected(input, s, l)]
        BY <2>1, <3>2
      <3> QED BY <3>3 DEF s
    <2>3. Splitting(input, k)
      BY <1>1, <1>3, <1>5, <2>1, <2>2 DEF Splitting, SplitPlaces, SplitHeld, SplitCaller
    <2> QED BY <2>3 DEF k
  <1>6. CASE /\ k = [job EXCEPT !.pc = "master", !.directory = TRUE, !.found = input.requested \cup Split!Known]
             /\ ~DirectIn(input)
    <2> HIDE DEF k
    <2>1. /\ k.pc = "master" /\ k.written = <<>> /\ k.master = <<>> /\ k.taken = 0 /\ k.active = {} /\ IsSplitJob(k)
          /\ k.found = input.requested \cup Split!Known /\ k.caller = "unread"
      BY <1>1, <1>3, <1>6 DEF IsSplitJob, Split!Idle
    <2>2. k.found = FoundIn(input, k.taken)
      <3>1. 1..0 = {}
        OBVIOUS
      <3>2. UNION {DOMAIN input.units[i].targets : i \in 1..0} = {}
        BY <3>1
      <3> QED BY <2>1, <3>2 DEF FoundIn, Split!Known
    <2>3. Splitting(input, k)
      BY <1>1, <1>2, <1>3, <1>6, <2>1, <2>2 DEF Splitting, SplitPlaces, SplitHeld, SplitCaller
    <2> QED BY <2>3 DEF k
  <1> QED BY <1>4, <1>5, <1>6 DEF Split!Enter, Split!Direct, DirectIn

LEMMA BeginSplits ==
  ASSUME SplitInv, Split!Begin
  PROVE  Splitting(input, job')
  <1> DEFINE k == job'
  <1>1. /\ job.pc = "master" /\ IsSplitJob(job) /\ SplitPlaces(input, job) /\ job.active = {}
        /\ k = [job EXCEPT !.caller = "reading", !.writers = {"master"}]
    BY DEF SplitInv, Splitting, SplitHeld, Split!Begin
  <1> HIDE DEF k
  <1>2. /\ k.pc = "master" /\ k.caller = "reading" /\ k.active = {} /\ IsSplitJob(k) /\ k.taken = job.taken
        /\ k.written = job.written /\ k.master = job.master /\ k.found = job.found
    BY <1>1 DEF IsSplitJob
  <1>3. Splitting(input, k)
    BY <1>1, <1>2 DEF Splitting, SplitPlaces, SplitHeld, SplitCaller
  <1> QED BY <1>3 DEF k

LEMMA WriteDirectSplits ==
  ASSUME Split!StreamsAssumption, SplitInv, Split!WriteDirect
  PROVE  Splitting(input, job')
  <1> DEFINE C == Split!Range(input.units)
             k == job'
             u == input.units[job.taken + 1]
             s == SubSeq(input.units, 1, job.taken)
             t == SubSeq(input.units, 1, job.taken + 1)
             n == job.taken
  <1>1. /\ input \in SplitStreams /\ IsSplitJob(job) /\ job.pc = "direct" /\ n \in 0..SplitLimit(input) /\ n < SplitLimit(input)
        /\ input.requested # {} /\ job.written = [l \in input.requested |-> Selected(input, s, l)] /\ job.active = {}
        /\ job.caller = "reading"
    BY DEF SplitInv, Splitting, SplitPlaces, SplitHeld, SplitCaller, Split!WriteDirect, Split!Limit, SplitLimit
  <1>2. /\ input.units \in Seq(C) /\ Len(input.units) \in Nat /\ SplitLimit(input) \in 0..Len(input.units)
    BY <1>1, SplitInputIs
  <1>3. n \in 0..Len(input.units) - 1 /\ n \in 0..Len(input.units) /\ n + 1 \in 0..SplitLimit(input)
    <2> DEFINE m == Len(input.units)
               d == SplitLimit(input)
    <2>1. m \in Nat /\ d \in 0..m /\ n \in 0..d /\ n < d
      BY <1>1, <1>2
    <2> HIDE DEF m, d, n
    <2> QED BY <2>1 DEF m, d
  <1>4. s \in Seq(C) /\ t = Append(s, u) /\ u \in C
    BY <1>2, <1>3, PrefixIs, ZenonT(30)
  <1>5. k = [job EXCEPT !.taken = n + 1,
               !.written = [l \in DOMAIN job.written |->
                  IF Split!Kept(u, l, LegacyOf(input), input.missing)
                    THEN Append(job.written[l], Split!CloneIn(u, l, LegacyOf(input))) ELSE job.written[l]]]
    BY <1>1 DEF Split!WriteDirect, Split!Legacy, LegacyOf
  <1> HIDE DEF C, k, s, t, u, n
  <1>6. \A l : Selected(input, t, l) = IF Split!Kept(u, l, LegacyOf(input), input.missing)
                 THEN Append(Selected(input, s, l), Split!CloneIn(u, l, LegacyOf(input))) ELSE Selected(input, s, l)
    BY <1>4, SelectedAppend
  <1>7. /\ k.pc = "direct" /\ k.taken = n + 1 /\ k.active = {} /\ IsSplitJob(k) /\ k.caller = "reading"
        /\ k.written = [l \in DOMAIN job.written |->
             IF Split!Kept(u, l, LegacyOf(input), input.missing)
               THEN Append(job.written[l], Split!CloneIn(u, l, LegacyOf(input))) ELSE job.written[l]]
    BY <1>1, <1>5 DEF IsSplitJob
  <1>8. k.written = [l \in input.requested |-> Selected(input, t, l)]
    BY <1>1, <1>6, <1>7
  <1>9. k.written = [l \in input.requested |-> Selected(input, SubSeq(input.units, 1, k.taken), l)]
    BY <1>7, <1>8 DEF t, n
  <1>10. Splitting(input, k)
    BY <1>1, <1>3, <1>7, <1>9 DEF Splitting, SplitPlaces, SplitHeld, SplitCaller
  <1> QED BY <1>10 DEF k

LEMMA DiscoverSplits ==
  ASSUME Split!StreamsAssumption, SplitInv, Split!Discover
  PROVE  Splitting(input, job')
  <1> DEFINE C == Split!Range(input.units)
             k == job'
             u == input.units[job.taken + 1]
             s == SubSeq(input.units, 1, job.taken)
             t == SubSeq(input.units, 1, job.taken + 1)
             n == job.taken
  <1>1. /\ input \in SplitStreams /\ IsSplitJob(job) /\ job.pc = "master" /\ n \in 0..SplitLimit(input) /\ n < SplitLimit(input)
        /\ job.master = s /\ job.found = FoundIn(input, n) /\ job.written = <<>> /\ job.active = {} /\ job.caller = "reading"
    BY DEF SplitInv, Splitting, SplitPlaces, SplitHeld, SplitCaller, Split!Discover, Split!Limit, SplitLimit
  <1>2. /\ input.units \in Seq(C) /\ Len(input.units) \in Nat /\ SplitLimit(input) \in 0..Len(input.units)
    BY <1>1, SplitInputIs
  <1>3. n \in 0..Len(input.units) - 1 /\ n \in 0..Len(input.units) /\ n + 1 \in 0..SplitLimit(input) /\ n \in Nat
    <2> DEFINE m == Len(input.units)
               d == SplitLimit(input)
    <2>1. m \in Nat /\ d \in 0..m /\ n \in 0..d /\ n < d
      BY <1>1, <1>2
    <2> HIDE DEF m, d, n
    <2> QED BY <2>1 DEF m, d
  <1>4. t = Append(s, u)
    BY <1>2, <1>3, PrefixIs
  <1>5. k = [job EXCEPT !.taken = n + 1, !.found = job.found \cup DOMAIN u.targets, !.master = Append(job.master, u)]
    BY <1>1 DEF Split!Discover
  <1>6. FoundIn(input, n + 1) = FoundIn(input, n) \cup DOMAIN u.targets
    <2>1. 1..n + 1 = (1..n) \cup {n + 1}
      <3> HIDE DEF n
      <3> QED BY <1>3
    <2>2. UNION {DOMAIN input.units[i].targets : i \in 1..n + 1} =
            (UNION {DOMAIN input.units[i].targets : i \in 1..n}) \cup DOMAIN u.targets
      <3> HIDE DEF n
      <3> QED BY <2>1 DEF u, n
    <2> HIDE DEF u, n
    <2> QED BY <2>2 DEF FoundIn
  <1> HIDE DEF C, k, s, t, u, n
  <1>7. /\ k.pc = "master" /\ k.taken = n + 1 /\ k.active = {} /\ IsSplitJob(k) /\ k.written = <<>> /\ k.caller = "reading"
        /\ k.found = job.found \cup DOMAIN u.targets /\ k.master = Append(job.master, u)
    BY <1>1, <1>5 DEF IsSplitJob
  <1>8. k.master = SubSeq(input.units, 1, k.taken) /\ k.found = FoundIn(input, k.taken)
    BY <1>1, <1>4, <1>6, <1>7 DEF t, n
  <1>9. Splitting(input, k)
    BY <1>1, <1>3, <1>7, <1>8 DEF Splitting, SplitPlaces, SplitHeld, SplitCaller
  <1> QED BY <1>9 DEF k

LEMMA FinishReadingSplits ==
  ASSUME Split!StreamsAssumption, SplitInv, Split!FinishReading
  PROVE  Splitting(input, job')
  <1> DEFINE C == Split!Range(input.units)
             k == job'
             all == input.units
             locales == IF input.requested # {} THEN input.requested ELSE job.found
  <1>1. /\ input \in SplitStreams /\ IsSplitJob(job) /\ job.pc \in {"direct", "master"} /\ job.taken \in 0..SplitLimit(input)
        /\ SplitPlaces(input, job) /\ job.active = {}
        /\ job.taken = SplitLimit(input) /\ input.failAt = 0
    BY DEF SplitInv, Splitting, SplitPlaces, SplitHeld, SplitCaller, Split!FinishReading, Split!Limit, SplitLimit
  <1>2. all \in Seq(C) /\ job.taken = Len(all) /\ SubSeq(all, 1, job.taken) = all
    BY <1>1, SplitInputIs, PrefixIs
  <1>3. job.pc = "master" => locales = SplitLocales(input)
    <2>1. ASSUME input.requested = {}, job.found = FoundIn(input, job.taken) PROVE job.found = Split!DocumentTargetLocales(input)
      <3>1. DOMAIN all = 1..job.taken
        BY <1>2
      <3> QED BY <2>1, <3>1 DEF FoundIn, Split!DocumentTargetLocales
    <2> QED BY <1>1, <2>1 DEF SplitPlaces, SplitLocales
  <1>4. CASE job.pc = "direct"
    <2>1. k = [job EXCEPT !.pc = "open", !.caller = "closed", !.writers = {}, !.parts = job.written]
      BY <1>4 DEF Split!FinishReading, Split!Opened
    <2> HIDE DEF k
    <2>2. /\ k.pc = "open" /\ k.caller = "closed" /\ k.writers = {} /\ k.parts = job.written /\ k.taken = job.taken /\ IsSplitJob(k)
      BY <1>1, <2>1 DEF IsSplitJob
    <2>3. input.requested # {} /\ job.written = [l \in input.requested |-> Selected(input, all, l)]
      BY <1>1, <1>2, <1>4 DEF SplitPlaces
    <2>4. Splitting(input, k)
      BY <1>1, <2>2, <2>3 DEF Splitting, SplitPlaces, SplitHeld, SplitCaller, SplitLocales
    <2> QED BY <2>4 DEF k
  <1>5. CASE job.pc = "master" /\ locales = {}
    <2>1. k = [job EXCEPT !.pc = "open", !.caller = "closed", !.writers = {}, !.parts = <<>>]
      BY <1>5 DEF Split!FinishReading, Split!Opened
    <2>2. SplitLocales(input) = {}
      BY <1>3, <1>5
    <2> HIDE DEF k, locales
    <2>3. /\ k.pc = "open" /\ k.caller = "closed" /\ k.writers = {} /\ k.parts = <<>> /\ k.taken = job.taken /\ IsSplitJob(k)
      BY <1>1, <2>1 DEF IsSplitJob
    <2>4. k.parts = [l \in SplitLocales(input) |-> Selected(input, all, l)]
      BY <2>2, <2>3
    <2>5. Splitting(input, k)
      BY <1>1, <2>3, <2>4 DEF Splitting, SplitPlaces, SplitHeld, SplitCaller
    <2> QED BY <2>5 DEF k
  <1>6. CASE job.pc = "master" /\ locales # {}
    <2>1. k = [job EXCEPT !.pc = "project", !.caller = "closed", !.writers = {}, !.todo = locales]
      BY <1>6 DEF Split!FinishReading
    <2>2. locales = SplitLocales(input) /\ job.master = all /\ job.written = <<>>
      BY <1>1, <1>2, <1>3, <1>6 DEF SplitPlaces
    <2> HIDE DEF k, locales
    <2>3. /\ k.pc = "project" /\ k.caller = "closed" /\ k.writers = {} /\ k.todo = locales /\ k.taken = job.taken /\ IsSplitJob(k)
          /\ k.master = all /\ k.written = <<>> /\ k.active = {}
      BY <1>1, <2>1, <2>2 DEF IsSplitJob
    <2>4. SplitLocales(input) \ k.todo = {}
      BY <2>2, <2>3
    <2>5. k.written = [l \in SplitLocales(input) \ k.todo |-> Selected(input, all, l)]
      <3> DEFINE none == SplitLocales(input) \ k.todo
      <3> HIDE DEF none
      <3>1. none = {} => <<>> = [l \in none |-> Selected(input, all, l)]
        OBVIOUS
      <3> QED BY <2>3, <2>4, <3>1 DEF none
    <2>6. Splitting(input, k)
      BY <1>1, <2>2, <2>3, <2>5 DEF Splitting, SplitPlaces, SplitHeld, SplitCaller
    <2> QED BY <2>6 DEF k
  <1> QED BY <1>1, <1>4, <1>5, <1>6

LEMMA ProjectSplits ==
  ASSUME Split!StreamsAssumption, SplitInv, Split!Project
  PROVE  Splitting(input, job')
  <1> DEFINE C == Split!Range(input.units)
             k == job'
             all == input.units
             L == SplitLocales(input)
             Part(l) == Selected(input, all, l)
  <1>1. /\ input \in SplitStreams /\ IsSplitJob(job) /\ job.pc = "project" /\ job.taken \in 0..SplitLimit(input)
        /\ job.master = all /\ job.active = {} /\ job.todo \subseteq L
        /\ job.written = [l \in L \ job.todo |-> Part(l)] /\ job.caller = "closed"
    BY DEF SplitInv, Splitting, SplitPlaces, SplitHeld, SplitCaller, Split!Project
  <1>2. all \in Seq(C) /\ \A u \in C : \A locale \in DOMAIN u.targets : u.targets[locale] # Absent
    BY <1>1, SplitInputIs
  <1>3. PICK l \in job.todo :
          LET parts == Split!ReadTarget(job.master, l, Split!Legacy, input.missing)
              both == [m \in {l} \cup DOMAIN job.written |-> IF m = l THEN parts ELSE job.written[m]]
          IN k = IF job.todo = {l} THEN [job EXCEPT !.pc = "open", !.caller = "closed", !.writers = {}, !.parts = both]
                 ELSE [job EXCEPT !.todo = job.todo \ {l}, !.written = both]
    BY DEF Split!Project, Split!Opened
  <1> DEFINE both == [m \in {l} \cup DOMAIN job.written |-> IF m = l THEN Part(l) ELSE job.written[m]]
  <1>4. Split!ReadTarget(job.master, l, Split!Legacy, input.missing) = Part(l)
    <2>1. Split!Legacy = LegacyOf(input)
      BY DEF Split!Legacy, LegacyOf
    <2> HIDE DEF C
    <2> QED BY <1>1, <1>2, <2>1, RustReads
  <1>5. k = IF job.todo = {l} THEN [job EXCEPT !.pc = "open", !.caller = "closed", !.writers = {}, !.parts = both]
            ELSE [job EXCEPT !.todo = job.todo \ {l}, !.written = both]
    <2> HIDE DEF Part, k
    <2> QED BY <1>3, <1>4
  <1> HIDE DEF Part, k, C, all
  <1>6. both = [m \in L \ (job.todo \ {l}) |-> Part(m)]
    <2>1. {l} \cup DOMAIN job.written = L \ (job.todo \ {l}) /\ DOMAIN job.written = L \ job.todo
      BY <1>1
    <2>2. \A m \in L \ (job.todo \ {l}) : (IF m = l THEN Part(l) ELSE job.written[m]) = Part(m)
      BY <1>1
    <2> QED BY <2>1, <2>2
  <1> HIDE DEF both, L
  <1>7. CASE job.todo = {l}
    <2>1. /\ k.pc = "open" /\ k.caller = "closed" /\ k.writers = {} /\ k.parts = both /\ k.taken = job.taken /\ IsSplitJob(k)
      BY <1>1, <1>5, <1>7 DEF IsSplitJob
    <2>2. L \ (job.todo \ {l}) = L
      BY <1>7
    <2>3. k.parts = [m \in L |-> Part(m)]
      BY <1>6, <2>1, <2>2
    <2>4. Splitting(input, k)
      BY <1>1, <2>1, <2>3 DEF Splitting, SplitPlaces, SplitHeld, SplitCaller, L, Part, all
    <2> QED BY <2>4 DEF k
  <1>8. CASE job.todo # {l}
    <2>1. /\ k.pc = "project" /\ k.todo = job.todo \ {l} /\ k.written = both /\ k.taken = job.taken /\ IsSplitJob(k) /\ k.caller = "closed"
          /\ k.master = all /\ k.active = {}
      BY <1>1, <1>5, <1>8 DEF IsSplitJob
    <2>2. k.todo \subseteq L /\ k.written = [m \in L \ k.todo |-> Part(m)]
      BY <1>1, <1>6, <2>1
    <2>3. Splitting(input, k)
      BY <1>1, <2>1, <2>2 DEF Splitting, SplitPlaces, SplitHeld, SplitCaller, L, Part, all
    <2> QED BY <2>3 DEF k
  <1> QED BY <1>7, <1>8

LEMMA FailSplits ==
  ASSUME SplitInv, Split!Fail
  PROVE  Splitting(input, job')
  <1> DEFINE k == job'
             c == IF job.caller = "unread" THEN job.caller ELSE "closed"
  <1>1. /\ job.pc \in {"direct", "master", "project"} /\ IsSplitJob(job) /\ job.taken \in 0..SplitLimit(input) /\ job.active = {}
        /\ SplitCaller(input, job)
        /\ k = [job EXCEPT !.pc = "failed", !.caller = c, !.directory = FALSE, !.writers = {}, !.written = <<>>]
    BY DEF SplitInv, Splitting, SplitPlaces, SplitHeld, Split!Fail, Split!Spooling
  <1>2. c = "closed" \/ (c = "unread" /\ ~DirectIn(input) /\ job.taken = 0)
    BY <1>1 DEF SplitCaller
  <1> HIDE DEF k, c
  <1>3. /\ k.pc = "failed" /\ k.caller = c /\ k.directory = FALSE /\ k.writers = {} /\ k.active = {} /\ IsSplitJob(k)
        /\ k.taken = job.taken
    BY <1>1 DEF IsSplitJob
  <1>4. Splitting(input, k)
    BY <1>1, <1>2, <1>3 DEF Splitting, SplitPlaces, SplitHeld, SplitCaller
  <1> QED BY <1>4 DEF k

LEMMA CancelSplits ==
  ASSUME SplitInv, Split!Cancel
  PROVE  Splitting(input, job')
  <1> DEFINE k == job'
  <1>1. /\ job.pc \in {"direct", "master", "project"} /\ IsSplitJob(job) /\ SplitPlaces(input, job) /\ job.active = {}
        /\ SplitCaller(input, job) /\ k = [job EXCEPT !.cancelled = TRUE]
    BY DEF SplitInv, Splitting, SplitPlaces, SplitHeld, SplitCaller, Split!Cancel, Split!Spooling
  <1> HIDE DEF k
  <1>2. /\ k.pc = job.pc /\ k.active = {} /\ IsSplitJob(k) /\ k.taken = job.taken /\ k.written = job.written
        /\ k.master = job.master /\ k.found = job.found /\ k.todo = job.todo /\ k.caller = job.caller
    BY <1>1 DEF IsSplitJob
  <1>3. SplitPlaces(input, k) /\ SplitCaller(input, k)
    BY <1>1, <1>2 DEF SplitPlaces, SplitCaller
  <1>4. Splitting(input, k)
    BY <1>1, <1>2, <1>3 DEF Splitting, SplitHeld
  <1> QED BY <1>4 DEF k

\* A part is read, or the split is closed.
LEMMA PartsSplit ==
  ASSUME SplitInv, Split!StartPart \/ Split!EndPart \/ Split!Close
  PROVE  Splitting(input, job')
  <1> DEFINE k == job'
  <1>1. job.pc = "open" /\ Splitting(input, job)
    BY DEF SplitInv, Split!StartPart, Split!EndPart, Split!Close
  <1>2. CASE Split!StartPart \/ Split!EndPart
    <2>1. \E S : k = [job EXCEPT !.active = S]
      BY <1>2 DEF Split!StartPart, Split!EndPart
    <2> HIDE DEF k
    <2>2. k.pc = "open" /\ IsSplitJob(k) /\ k.taken = job.taken /\ k.parts = job.parts /\ k.caller = job.caller /\ k.writers = job.writers
      BY <1>1, <2>1 DEF Splitting, IsSplitJob
    <2>3. Splitting(input, k)
      BY <1>1, <2>2 DEF Splitting, SplitPlaces, SplitHeld, SplitCaller
    <2> QED BY <2>3 DEF k
  <1>3. CASE Split!Close
    <2>1. k = [job EXCEPT !.pc = "closed", !.directory = FALSE, !.active = {}, !.parts = <<>>]
      BY <1>3 DEF Split!Close
    <2> HIDE DEF k
    <2>2. k.pc = "closed" /\ IsSplitJob(k) /\ k.taken = job.taken /\ k.active = {} /\ k.directory = FALSE /\ k.caller = job.caller
          /\ k.writers = job.writers
      BY <1>1, <2>1 DEF Splitting, IsSplitJob
    <2>3. Splitting(input, k)
      BY <1>1, <2>2 DEF Splitting, SplitPlaces, SplitHeld, SplitCaller
    <2> QED BY <2>3 DEF k
  <1> QED BY <1>2, <1>3

LEMMA SplitNext ==
  ASSUME Split!StreamsAssumption, SplitInv, [Split!Next]_(Split!vars)
  PROVE  SplitInv'
  <1>1. CASE Split!Next
    <2>1. input' = input
      BY <1>1 DEF Split!Next, Split!Enter, Split!Begin, Split!WriteDirect, Split!Discover, Split!FinishReading, Split!Project, Split!Fail,
           Split!Cancel, Split!StartPart, Split!EndPart, Split!Close
    <2>2. Splitting(input, job')
      BY <1>1, EnterSplits, BeginSplits, WriteDirectSplits, DiscoverSplits, FinishReadingSplits, ProjectSplits, FailSplits, CancelSplits, PartsSplit
         DEF Split!Next
    <2> QED BY <2>1, <2>2 DEF SplitInv
  <1>2. CASE UNCHANGED Split!vars
    BY <1>2 DEF Split!vars, SplitInv
  <1> QED BY <1>1, <1>2

\* StreamingTargetSplit: the invariant holds in every behaviour.
THEOREM SplitInvariant ==
  ASSUME Split!StreamsAssumption
  PROVE  Split!Spec => []SplitInv
  <1>1. Split!Init => SplitInv
    BY SplitBegins
  <1>2. SplitInv /\ [Split!Next]_(Split!vars) => SplitInv'
    BY SplitNext
  <1> QED BY <1>1, <1>2, PTL DEF Split!Spec

LEMMA SplitSelects ==
  ASSUME SplitInv
  PROVE  Split!SplitIsSelection /\ Split!SplitReleases
  <1>1. Split!SplitReleases
    BY DEF SplitInv, Splitting, SplitHeld, SplitCaller, DirectIn, Split!Direct, Split!SplitReleases
  <1>2. ASSUME job.pc = "open" PROVE job.parts = Split!SplitTargets(input, input.requested, input.missing)
    <2>1. \A l : Selected(input, input.units, l) = Split!SelectTarget(input, l, input.missing)
      BY DEF Selected, Clones, KeptOf, Wanted, LegacyOf, Split!SelectTarget
    <2>2. job.parts = [l \in SplitLocales(input) |-> Selected(input, input.units, l)]
      BY <1>2 DEF SplitInv, Splitting, SplitPlaces
    <2>3. Split!SplitTargets(input, input.requested, input.missing) =
            [l \in SplitLocales(input) |-> Split!SelectTarget(input, l, input.missing)]
      BY DEF Split!SplitTargets, SplitLocales
    <2> QED BY <2>1, <2>2, <2>3
  <1> QED BY <1>1, <1>2 DEF Split!SplitIsSelection

-----------------------------------------------------------------------------
(***************************************************************************)
(* What a document says of the units it was put together from              *)
(* (importers.py).  Units that are merged have the same source and no      *)
(* locale in common, so every text is still there, under its locale.       *)
(***************************************************************************)
IsList(d) == d \in Seq(Import!ToSet(d))
\* A unit of the document has what a unit of the file says ...
Carries(c, u) ==
  /\ c.source = u.source /\ c.target = u.target
  /\ \A l \in DOMAIN u.targets : l \in DOMAIN c.targets /\ c.targets[l] = u.targets[l]
\* ... and says nothing that the first n units do not.
OnlySays(c, us, n) ==
  /\ \E i \in 1..n : /\ c.id = us[i].id /\ c.source = us[i].source /\ c.target = us[i].target
                     /\ c.target # Absent => c.targets = us[i].targets
  /\ \A l \in DOMAIN c.targets :
       \E i \in 1..n : us[i].source = c.source /\ l \in DOMAIN us[i].targets /\ us[i].targets[l] = c.targets[l]
Tells(d, us, n) ==
  /\ IsList(d) /\ Import!Distinct(d)
  /\ \A k \in DOMAIN d : Import!IsUnit(d[k]) /\ OnlySays(d[k], us, n)
  /\ \A i \in 1..n : \E k \in DOMAIN d : Carries(d[k], us[i])

LEMMA ImportCounts == \A S : Import!Cardinality(S) = Cardinality(S) /\ (Import!IsFiniteSet(S) <=> IsFiniteSet(S))
  BY DEF Import!Cardinality, Import!IsFiniteSet, Cardinality, IsFiniteSet

LEMMA ListIs ==
  ASSUME NEW d, IsList(d)
  PROVE  Len(d) \in Nat /\ DOMAIN d = 1..Len(d)
  BY DEF IsList

LEMMA ListAppend ==
  ASSUME NEW d, IsList(d), NEW u
  PROVE  LET e == Append(d, u)
         IN /\ IsList(e) /\ Len(e) = Len(d) + 1 /\ DOMAIN e = 1..Len(d) + 1 /\ e[Len(d) + 1] = u
            /\ \A i \in 1..Len(d) : e[i] = d[i]
  <1> DEFINE C == Import!ToSet(d) \cup {u}
             e == Append(d, u)
  <1>1. d \in Seq(C) /\ u \in C
    <2>1. d \in Seq(Import!ToSet(d)) /\ Import!ToSet(d) \subseteq C
      BY DEF IsList
    <2> HIDE DEF C
    <2>2. \A i \in 1..Len(d) : d[i] \in C
      BY <2>1
    <2> QED BY <2>1, <2>2 DEF C
  <1> HIDE DEF C
  <1>2. e \in Seq(C) /\ Len(e) = Len(d) + 1 /\ e[Len(d) + 1] = u /\ (\A i \in 1..Len(d) : e[i] = d[i]) /\ Len(d) \in Nat
    BY <1>1, AppendProperties
  <1> HIDE DEF e
  <1>3. DOMAIN e = 1..Len(d) + 1
    BY <1>2
  <1>4. IsList(e)
    <2>1. \A i \in 1..Len(e) : e[i] \in Import!ToSet(e)
      BY <1>2, <1>3 DEF Import!ToSet
    <2> QED BY <1>2, <2>1 DEF IsList
  <1> QED BY <1>2, <1>3, <1>4 DEF e

LEMMA ListExcept ==
  ASSUME NEW d, IsList(d), NEW k \in DOMAIN d, NEW c
  PROVE  LET e == [d EXCEPT ![k] = c]
         IN /\ IsList(e) /\ Len(e) = Len(d) /\ DOMAIN e = DOMAIN d /\ e[k] = c
            /\ \A i \in DOMAIN d : i # k => e[i] = d[i]
  <1> DEFINE e == [d EXCEPT ![k] = c]
             n == Len(d)
  <1>1. n \in Nat /\ DOMAIN d = 1..n
    BY ListIs
  <1>2. DOMAIN e = 1..n /\ e[k] = c /\ (\A i \in 1..n : i # k => e[i] = d[i]) /\ e = [i \in 1..n |-> e[i]]
    BY <1>1
  <1> HIDE DEF e, n
  <1>3. \A i \in 1..n : e[i] \in Import!ToSet(e)
    BY <1>2 DEF Import!ToSet
  <1>4. e \in Seq(Import!ToSet(e)) /\ Len(e) = n
    BY <1>1, <1>2, <1>3
  <1> QED BY <1>1, <1>2, <1>4 DEF IsList, e, n

LEMMA TellsAppend ==
  ASSUME NEW d, NEW us, NEW n \in Nat, Tells(d, us, n), NEW u, u = us[n + 1], Import!IsUnit(u), \A i \in 1..n : us[i].id # u.id
  PROVE  Tells(Append(d, u), us, n + 1)
  <1> DEFINE e == Append(d, u)
             m == Len(d)
  <1>1. /\ IsList(e) /\ DOMAIN e = 1..m + 1 /\ e[m + 1] = u /\ (\A i \in 1..m : e[i] = d[i]) /\ m \in Nat
        /\ DOMAIN d = 1..m
    BY ListAppend, ListIs DEF Tells
  <1> HIDE DEF e, m
  <1>2. \A k \in 1..m : Import!IsUnit(d[k]) /\ OnlySays(d[k], us, n)
    BY <1>1 DEF Tells
  <1>3. \A k \in 1..m : OnlySays(d[k], us, n + 1)
    BY <1>2 DEF OnlySays
  <1>4. OnlySays(u, us, n + 1)
    BY DEF OnlySays
  <1>5. \A k \in DOMAIN e : Import!IsUnit(e[k]) /\ OnlySays(e[k], us, n + 1)
    BY <1>1, <1>2, <1>3, <1>4
  <1>6. Import!Distinct(e)
    <2>1. \A k \in 1..m : d[k].id # u.id
      BY <1>2 DEF OnlySays
    <2>2. \A i, j \in 1..m : d[i].id = d[j].id => i = j
      BY <1>1 DEF Tells, Import!Distinct
    <2> QED BY <1>1, <2>1, <2>2 DEF Import!Distinct
  <1>7. ASSUME NEW i \in 1..n + 1 PROVE \E k \in DOMAIN e : Carries(e[k], us[i])
    <2>1. CASE i = n + 1
      <3>1. Carries(e[m + 1], us[i])
        BY <1>1, <2>1 DEF Carries
      <3> QED BY <1>1, <3>1
    <2>2. CASE i \in 1..n
      <3>1. PICK k \in 1..m : Carries(d[k], us[i])
        BY <1>1, <2>2 DEF Tells
      <3> QED BY <1>1, <3>1
    <2> QED BY <2>1, <2>2
  <1> QED BY <1>1, <1>5, <1>6, <1>7 DEF Tells, e

\* The unit "c" is that at k with the targets of one unit more.
Joins(c, b, u) ==
  /\ Import!IsUnit(c) /\ c.id = b.id /\ c.source = b.source /\ c.target = Absent
  /\ DOMAIN c.targets = DOMAIN b.targets \cup DOMAIN u.targets
  /\ \A l \in DOMAIN b.targets : c.targets[l] = b.targets[l]
  /\ \A l \in DOMAIN u.targets : c.targets[l] = u.targets[l]

LEMMA TellsJoined ==
  ASSUME NEW d, NEW us, NEW n \in Nat, Tells(d, us, n), NEW u, u = us[n + 1],
         NEW k \in DOMAIN d, d[k].source = u.source, d[k].target = Absent, u.target = Absent,
         NEW c, Joins(c, d[k], u)
  PROVE  Tells([d EXCEPT ![k] = c], us, n + 1)
  <1> DEFINE e == [d EXCEPT ![k] = c]
  <1>1. /\ IsList(e) /\ DOMAIN e = DOMAIN d /\ e[k] = c /\ \A i \in DOMAIN d : i # k => e[i] = d[i]
    BY ListExcept DEF Tells
  <1> HIDE DEF e
  <1>2. \A i \in DOMAIN d : Import!IsUnit(d[i]) /\ OnlySays(d[i], us, n)
    BY DEF Tells
  <1>3. \A i \in DOMAIN d : OnlySays(d[i], us, n + 1)
    BY <1>2 DEF OnlySays
  <1>4. OnlySays(c, us, n + 1)
    <2>1. \E i \in 1..n + 1 : /\ c.id = us[i].id /\ c.source = us[i].source /\ c.target = us[i].target
                              /\ c.target # Absent => c.targets = us[i].targets
      <3>1. PICK i \in 1..n + 1 : d[k].id = us[i].id /\ d[k].source = us[i].source /\ d[k].target = us[i].target
        BY <1>3 DEF OnlySays
      <3>2. c.id = us[i].id /\ c.source = us[i].source /\ c.target = us[i].target /\ c.target = Absent
        BY <3>1 DEF Joins
      <3> QED BY <3>2
    <2>2. ASSUME NEW l \in DOMAIN c.targets
          PROVE  \E i \in 1..n + 1 : us[i].source = c.source /\ l \in DOMAIN us[i].targets /\ us[i].targets[l] = c.targets[l]
      <3>1. CASE l \in DOMAIN d[k].targets
        BY <1>3, <3>1 DEF OnlySays, Joins
      <3>2. CASE l \in DOMAIN u.targets
        <4>1. n + 1 \in 1..n + 1 /\ us[n + 1].source = c.source /\ us[n + 1].targets[l] = c.targets[l]
          BY <3>2 DEF Joins
        <4> QED BY <3>2, <4>1
      <3> QED BY <3>1, <3>2 DEF Joins
    <2> QED BY <2>1, <2>2 DEF OnlySays
  <1>5. Import!Distinct(e)
    <2>1. \A i, j \in DOMAIN d : d[i].id = d[j].id => i = j
      BY DEF Tells, Import!Distinct
    <2>2. \A i \in DOMAIN d : e[i].id = d[i].id
      BY <1>1 DEF Joins
    <2> QED BY <1>1, <2>1, <2>2 DEF Import!Distinct
  <1>6. ASSUME NEW i \in 1..n + 1 PROVE \E m \in DOMAIN e : Carries(e[m], us[i])
    <2>1. CASE i = n + 1
      <3>1. Carries(c, us[i])
        BY <2>1 DEF Carries, Joins
      <3> QED BY <1>1, <3>1
    <2>2. CASE i \in 1..n
      <3>1. PICK m \in DOMAIN d : Carries(d[m], us[i])
        BY <2>2 DEF Tells
      <3>2. m = k => Carries(c, us[i])
        BY <3>1 DEF Carries, Joins
      <3> QED BY <1>1, <3>1, <3>2
    <2> QED BY <2>1, <2>2
  <1>7. \A i \in DOMAIN e : Import!IsUnit(e[i]) /\ OnlySays(e[i], us, n + 1)
    BY <1>1, <1>2, <1>3, <1>4 DEF Joins
  <1> QED BY <1>1, <1>5, <1>6, <1>7 DEF Tells, e

LEMMA UpdatedIs ==
  ASSUME NEW f, NEW g
  PROVE  LET h == Import!Updated(f, g)
         IN /\ DOMAIN h = DOMAIN f \cup DOMAIN g
            /\ \A l \in DOMAIN g : h[l] = g[l]
            /\ \A l \in DOMAIN f : l \notin DOMAIN g => h[l] = f[l]
  BY DEF Import!Updated

\* Merging, in Python or in Rust, joins units without a locale in common.
LEMMA MergedJoins ==
  ASSUME NEW b, Import!IsUnit(b), NEW u, Import!IsUnit(u), b.source = u.source, Import!CanMerge(b, u)
  PROVE  /\ Joins(Import!Merged(b, u), b, u)
         /\ Joins([b EXCEPT !.targets = Import!Updated(b.targets, u.targets)], b, u)
         /\ b.target = Absent /\ u.target = Absent
  <1> DEFINE h == Import!Updated(b.targets, u.targets)
  <1>1. b.target = Absent /\ u.target = Absent /\ DOMAIN b.targets \cap DOMAIN u.targets = {}
    BY DEF Import!CanMerge
  <1>2. /\ DOMAIN h = DOMAIN b.targets \cup DOMAIN u.targets
        /\ (\A l \in DOMAIN u.targets : h[l] = u.targets[l])
        /\ (\A l \in DOMAIN b.targets : l \notin DOMAIN u.targets => h[l] = b.targets[l])
    BY UpdatedIs
  <1>3. IsFiniteSet(DOMAIN h)
    <2>1. IsFiniteSet(DOMAIN b.targets) /\ IsFiniteSet(DOMAIN u.targets)
      BY ImportCounts DEF Import!IsUnit
    <2> HIDE DEF h
    <2> QED BY <1>2, <2>1, FS_Union, ZenonT(30)
  <1> HIDE DEF h
  <1>4. ASSUME NEW c, DOMAIN c = DOMAIN b, c.id = b.id, c.source = b.source, c.target = Absent, c.targets = h
        PROVE  Joins(c, b, u)
    <2>1. Import!IsUnit(c)
      BY <1>3, <1>4, ImportCounts DEF Import!IsUnit
    <2> QED BY <1>1, <1>2, <1>4, <2>1 DEF Joins
  <1>5. Joins([b EXCEPT !.targets = h], b, u)
    <2> DEFINE c == [b EXCEPT !.targets = h]
    <2>1. DOMAIN c = DOMAIN b /\ c.id = b.id /\ c.source = b.source /\ c.target = b.target /\ c.targets = h
      BY DEF Import!IsUnit
    <2> HIDE DEF c
    <2>2. Joins(c, b, u)
      BY <1>1, <1>4, <2>1
    <2> QED BY <2>2 DEF c
  <1>6. Joins(Import!Merged(b, u), b, u)
    <2> DEFINE source == IF b.source = "" THEN u.source ELSE b.source
               target == IF b.target = Absent THEN u.target ELSE b.target
               c == [b EXCEPT !.source = source, !.targets = h, !.target = target]
    <2>1. Import!Merged(b, u) = c
      BY DEF Import!Merged, h
    <2>2. source = b.source /\ target = Absent
      BY <1>1
    <2> HIDE DEF source, target
    <2>3. DOMAIN c = DOMAIN b /\ c.id = b.id /\ c.source = source /\ c.target = target /\ c.targets = h
      BY DEF Import!IsUnit
    <2> HIDE DEF c
    <2> QED BY <1>4, <2>1, <2>2, <2>3
  <1> QED BY <1>1, <1>5, <1>6 DEF h

LEMMA EarliestIs ==
  ASSUME NEW N, NEW S \in SUBSET (1..N), S # {}, N \in Nat
  PROVE  Import!First(S) \in S
  <1>1. S \subseteq Nat
    OBVIOUS
  <1>2. \E i \in S : \A j \in S : i <= j
    BY <1>1, LeastIs
  <1> QED BY <1>2, Zenon DEF Import!First

\* The units of a file, read one after the other
AreUnits(us) == IsList(us) /\ Import!Distinct(us) /\ \A i \in DOMAIN us : Import!IsUnit(us[i])

LEMMA NewIdentity ==
  ASSUME NEW us, AreUnits(us), NEW n \in Nat, n + 1 \in DOMAIN us, NEW d, Tells(d, us, n)
  PROVE  /\ \A i \in 1..n : us[i].id # us[n + 1].id
         /\ Import!At(d, us[n + 1].id) = {} /\ Import!IsUnit(us[n + 1])
  <1>1. \A i \in 1..n : i \in DOMAIN us /\ i # n + 1
    BY ListIs DEF AreUnits
  <1>2. \A i \in 1..n : us[i].id # us[n + 1].id
    BY <1>1 DEF AreUnits, Import!Distinct
  <1>3. \A k \in DOMAIN d : \E i \in 1..n : d[k].id = us[i].id
    BY DEF Tells, OnlySays
  <1> QED BY <1>2, <1>3 DEF Import!At, AreUnits

LEMMA StoreTells ==
  ASSUME NEW us, AreUnits(us), NEW n \in Nat, n + 1 \in DOMAIN us, NEW d, Tells(d, us, n)
  PROVE  Tells(Import!Store(d, us[n + 1]), us, n + 1) /\ Tells(Import!Replace(d, us[n + 1]), us, n + 1)
  <1> DEFINE u == us[n + 1]
  <1>1. (\A i \in 1..n : us[i].id # u.id) /\ Import!At(d, u.id) = {} /\ Import!IsUnit(u)
    BY NewIdentity
  <1>2. Tells(Append(d, u), us, n + 1)
    BY <1>1, TellsAppend
  <1>3. Import!Store(d, u) = Append(d, u) /\ Import!Replace(d, u) = Append(d, u)
    BY <1>1 DEF Import!Store, Import!Replace
  <1> QED BY <1>2, <1>3

LEMMA SegmentIs ==
  ASSUME NEW us, AreUnits(us), NEW n \in Nat, n + 1 \in DOMAIN us, NEW d, Tells(d, us, n), Import!Segments(d, us[n + 1]) # {}
  PROVE  LET u == us[n + 1]  k == Import!First(Import!Segments(d, us[n + 1]))
         IN k \in DOMAIN d /\ d[k].source = u.source /\ Import!CanMerge(d[k], u) /\ Import!IsUnit(d[k]) /\ Import!IsUnit(u)
  <1> DEFINE S == Import!Segments(d, us[n + 1])
  <1>1. Len(d) \in Nat /\ DOMAIN d = 1..Len(d)
    BY ListIs DEF Tells
  <1>2. S \in SUBSET (1..Len(d)) /\ S # {}
    BY <1>1 DEF Import!Segments
  <1> HIDE DEF S
  <1>3. Import!First(S) \in S
    BY <1>1, <1>2, EarliestIs
  <1>4. Import!IsUnit(us[n + 1])
    BY DEF AreUnits
  <1> QED BY <1>3, <1>4 DEF S, Import!Segments, Tells

LEMMA CollectTells ==
  ASSUME NEW us, AreUnits(us), NEW n \in Nat, n + 1 \in DOMAIN us, NEW d, Tells(d, us, n)
  PROVE  Tells(Import!Collect(d, us[n + 1]), us, n + 1)
  <1> DEFINE u == us[n + 1]
             S == Import!Segments(d, u)
             k == Import!First(S)
  <1>1. CASE S = {}
    <2>1. Import!Collect(d, u) = Import!Store(d, u)
      BY <1>1 DEF Import!Collect
    <2> QED BY <2>1, StoreTells
  <1>2. CASE S # {}
    <2>1. k \in DOMAIN d /\ d[k].source = u.source /\ Import!CanMerge(d[k], u) /\ Import!IsUnit(d[k]) /\ Import!IsUnit(u)
      BY <1>2, SegmentIs
    <2>2. Import!Collect(d, u) = [d EXCEPT ![k] = Import!Merged(d[k], u)]
      BY <1>2 DEF Import!Collect
    <2> HIDE DEF k, S
    <2>3. Joins(Import!Merged(d[k], u), d[k], u) /\ d[k].target = Absent /\ u.target = Absent
      BY <2>1, MergedJoins
    <2>4. Tells([d EXCEPT ![k] = Import!Merged(d[k], u)], us, n + 1)
      BY <2>1, <2>3, TellsJoined
    <2> QED BY <2>2, <2>4
  <1> QED BY <1>1, <1>2

LEMMA MaterializeTells ==
  ASSUME NEW us, AreUnits(us), NEW n \in Nat, n + 1 \in DOMAIN us, NEW d, Tells(d, us, n), NEW locales
  PROVE  Tells(Import!Materialize(d, us[n + 1], locales), us, n + 1)
  <1> DEFINE u == us[n + 1]
             S == Import!Segments(d, u)
             k == Import!First(S)
             merges == input.reader = "xliff" /\ Import!Cardinality(locales) > 1 /\ S # {}
  <1>1. CASE ~merges
    <2>1. Import!Materialize(d, u, locales) = Import!Replace(d, u)
      BY <1>1 DEF Import!Materialize
    <2> QED BY <2>1, StoreTells
  <1>2. CASE merges
    <2> DEFINE c == [d[k] EXCEPT !.targets = Import!Updated(d[k].targets, u.targets)]
    <2>1. k \in DOMAIN d /\ d[k].source = u.source /\ Import!CanMerge(d[k], u) /\ Import!IsUnit(d[k]) /\ Import!IsUnit(u)
      BY <1>2, SegmentIs
    <2>2. Import!Materialize(d, u, locales) = [d EXCEPT ![k] = c]
      BY <1>2 DEF Import!Materialize
    <2> HIDE DEF k, S, merges
    <2>3. Joins(c, d[k], u) /\ d[k].target = Absent /\ u.target = Absent
      BY <2>1, MergedJoins
    <2> HIDE DEF c
    <2>4. Tells([d EXCEPT ![k] = c], us, n + 1)
      BY <2>1, <2>3, TellsJoined
    <2> QED BY <2>2, <2>4
  <1> QED BY <1>1, <1>2

\* A unit more, by whatever rule.
Rules == {"native", "each", "end", "last"}
LEMMA TakeTells ==
  ASSUME NEW us, AreUnits(us), NEW n \in Nat, n + 1 \in DOMAIN us, NEW d, Tells(d, us, n), NEW locales, job.rule \in Rules
  PROVE  Tells(Import!TakeInto(d, us[n + 1], locales), us, n + 1)
  <1>1. /\ Tells(Import!Materialize(d, us[n + 1], locales), us, n + 1) /\ Tells(Import!Collect(d, us[n + 1]), us, n + 1)
        /\ Tells(Import!Store(d, us[n + 1]), us, n + 1) /\ Tells(Import!Replace(d, us[n + 1]), us, n + 1)
    BY MaterializeTells, CollectTells, StoreTells
  <1> QED BY <1>1 DEF Import!TakeInto, Rules

ByCollecting == [by |-> "collected"]
LEMMA MaxIs == \A S : Import!Max(S) = Split!Max(S)
  BY DEF Import!Max, Split!Max

LEMMA CollectedSteps ==
  ASSUME NEW C, NEW s \in Seq(C)
  PROVE  \E h : IsChain(h, s, <<>>, ByCollecting) /\ Import!MergeIdentities(s) = h[Len(s)]
  <1> DEFINE N == Len(s)
             Folds(f) == f = [S \in SUBSET DOMAIN s |->
                                IF S = {} THEN <<>> ELSE Import!Collect(f[S \ {Import!Max(S)}], s[Import!Max(S)])]
             g == CHOOSE f : Folds(f)
  <1>1. Import!MergeIdentities(s) = g[DOMAIN s]
    BY DEF Import!MergeIdentities, Import!FoldLeft, Import!MapThenFoldSet
  <1>2. DOMAIN s = 1..N /\ N \in Nat
    OBVIOUS
  <1>3. \A d, u : Folded(d, u, ByCollecting) = Import!Collect(d, u)
    BY DEF Folded, ByCollecting
  <1>4. ASSUME NEW f PROVE Folds(f) <=> IsFolding(f, N, s, <<>>, ByCollecting)
    BY <1>2, <1>3, MaxIs, ZenonT(30) DEF IsFolding
  <1>5. Folds(g)
    <2>1. \E f : Folds(f)
      <3> HIDE DEF Folds, N
      <3> QED BY <1>2, <1>4, FoldingExists
    <2> HIDE DEF Folds
    <2> QED BY <2>1, Zenon
  <1>6. IsFolding(g, N, s, <<>>, ByCollecting)
    <2> HIDE DEF Folds, g
    <2> QED BY <1>4, <1>5
  <1> HIDE DEF g, N
  <1>7. PICK h : IsChain(h, s, <<>>, ByCollecting) /\ h[N] = g[DOMAIN s]
    BY <1>6, FoldingSteps DEF N
  <1> QED BY <1>1, <1>7 DEF N

ByAdding(l) == [by |-> "added", of |-> l]
LEMMA AddedSteps ==
  ASSUME NEW C, NEW s \in Seq(C), NEW d, NEW l
  PROVE  \E h : IsChain(h, s, d, ByAdding(l)) /\ Import!WithTargets(d, s, l) = h[Len(s)]
  <1> DEFINE N == Len(s)
             Folds(f) == f = [S \in SUBSET DOMAIN s |->
                                IF S = {} THEN d ELSE Import!AddTarget(f[S \ {Import!Max(S)}], s[Import!Max(S)], l)]
             g == CHOOSE f : Folds(f)
  <1>1. Import!WithTargets(d, s, l) = g[DOMAIN s]
    BY DEF Import!WithTargets, Import!FoldLeft, Import!MapThenFoldSet
  <1>2. DOMAIN s = 1..N /\ N \in Nat
    OBVIOUS
  <1>3. \A e, u : Folded(e, u, ByAdding(l)) = Import!AddTarget(e, u, l)
    BY DEF Folded, ByAdding
  <1>4. ASSUME NEW f PROVE Folds(f) <=> IsFolding(f, N, s, d, ByAdding(l))
    BY <1>2, <1>3, MaxIs DEF IsFolding
  <1>5. Folds(g)
    <2>1. \E f : Folds(f)
      <3> HIDE DEF Folds, N
      <3> QED BY <1>2, <1>4, FoldingExists
    <2> HIDE DEF Folds
    <2> QED BY <2>1, Zenon
  <1>6. IsFolding(g, N, s, d, ByAdding(l))
    <2> HIDE DEF Folds, g
    <2> QED BY <1>4, <1>5
  <1> HIDE DEF g, N
  <1>7. PICK h : IsChain(h, s, d, ByAdding(l)) /\ h[N] = g[DOMAIN s]
    BY <1>6, FoldingSteps DEF N
  <1> QED BY <1>1, <1>7 DEF N

\* A document says as much as what it was put together from.
LEMMA TellsOn ==
  ASSUME NEW us, NEW n \in Nat, NEW d, Tells(d, us, n), NEW e, Tells(e, d, Len(d))
  PROVE  Tells(e, us, n)
  <1>1. Len(d) \in Nat /\ DOMAIN d = 1..Len(d)
    BY ListIs DEF Tells
  <1>2. \A i \in 1..Len(d) : OnlySays(d[i], us, n)
    BY <1>1 DEF Tells
  <1>3. ASSUME NEW k \in DOMAIN e PROVE Import!IsUnit(e[k]) /\ OnlySays(e[k], us, n)
    <2>1. Import!IsUnit(e[k]) /\ OnlySays(e[k], d, Len(d))
      BY <1>3 DEF Tells
    <2>2. PICK i \in 1..Len(d) : /\ e[k].id = d[i].id /\ e[k].source = d[i].source /\ e[k].target = d[i].target
                                 /\ e[k].target # Absent => e[k].targets = d[i].targets
      BY <2>1 DEF OnlySays
    <2>3. PICK m \in 1..n : /\ d[i].id = us[m].id /\ d[i].source = us[m].source /\ d[i].target = us[m].target
                            /\ d[i].target # Absent => d[i].targets = us[m].targets
      BY <1>2 DEF OnlySays
    <2>4. ASSUME NEW l \in DOMAIN e[k].targets
          PROVE  \E j \in 1..n : us[j].source = e[k].source /\ l \in DOMAIN us[j].targets /\ us[j].targets[l] = e[k].targets[l]
      <3>1. PICK j \in 1..Len(d) : d[j].source = e[k].source /\ l \in DOMAIN d[j].targets /\ d[j].targets[l] = e[k].targets[l]
        BY <2>1 DEF OnlySays
      <3>2. \E q \in 1..n : us[q].source = d[j].source /\ l \in DOMAIN us[q].targets /\ us[q].targets[l] = d[j].targets[l]
        BY <1>2, <3>1 DEF OnlySays
      <3> QED BY <3>1, <3>2
    <2>5. \E q \in 1..n : /\ e[k].id = us[q].id /\ e[k].source = us[q].source /\ e[k].target = us[q].target
                          /\ e[k].target # Absent => e[k].targets = us[q].targets
      BY <2>2, <2>3
    <2> QED BY <2>1, <2>4, <2>5 DEF OnlySays
  <1>4. ASSUME NEW i \in 1..n PROVE \E k \in DOMAIN e : Carries(e[k], us[i])
    <2>1. PICK j \in DOMAIN d : Carries(d[j], us[i])
      BY DEF Tells
    <2>2. PICK k \in DOMAIN e : Carries(e[k], d[j])
      BY <1>1 DEF Tells
    <2>3. Carries(e[k], us[i])
      BY <2>1, <2>2 DEF Carries
    <2> QED BY <2>3
  <1> QED BY <1>3, <1>4 DEF Tells

LEMMA TellsNothing ==
  ASSUME NEW us
  PROVE  Tells(<<>>, us, 0)
  <1>1. <<>> \in Seq(Import!ToSet(<<>>)) /\ DOMAIN <<>> = {} /\ 1..0 = {}
    OBVIOUS
  <1> QED BY <1>1 DEF Tells, IsList, Import!Distinct

LEMMA AreUnitsOf ==
  ASSUME NEW us, NEW n, NEW d, Tells(d, us, n)
  PROVE  AreUnits(d)
  BY DEF Tells, AreUnits

\* The units of one segment are merged once more, at the end (XliffExtractor.build_document).
LEMMA MergedTells ==
  ASSUME NEW us, NEW n \in Nat, NEW d, Tells(d, us, n)
  PROVE  Tells(Import!MergeIdentities(d), us, n)
  <1> DEFINE N == Len(d)
  <1>1. d \in Seq(Import!ToSet(d)) /\ N \in Nat /\ DOMAIN d = 1..N /\ AreUnits(d)
    BY ListIs, AreUnitsOf DEF Tells, IsList
  <1>2. PICK h : IsChain(h, d, <<>>, ByCollecting) /\ Import!MergeIdentities(d) = h[N]
    BY <1>1, CollectedSteps
  <1> HIDE DEF N
  <1> DEFINE S == {m \in 0..N : Tells(h[m], d, m)}
  <1>3. 0 \in S
    BY <1>1, <1>2, TellsNothing DEF IsChain
  <1>4. ASSUME NEW m \in 0..N - 1, m \in S PROVE m + 1 \in S
    <2>1. h[m + 1] = Folded(h[m], d[m + 1], ByCollecting)
      BY <1>2 DEF IsChain, N
    <2>2. h[m + 1] = Import!Collect(h[m], d[m + 1])
      BY <2>1 DEF Folded, ByCollecting
    <2>3. m \in Nat /\ m + 1 \in DOMAIN d /\ m + 1 \in 0..N
      BY <1>1
    <2>4. Tells(h[m], d, m)
      BY <1>4
    <2>5. Tells(h[m + 1], d, m + 1)
      BY <1>1, <2>2, <2>3, <2>4, CollectTells
    <2> QED BY <2>3, <2>5
  <1> HIDE DEF S
  <1>5. 0..N \subseteq S
    BY <1>1, <1>3, <1>4, UpTo
  <1>6. Tells(h[N], d, N)
    BY <1>1, <1>5 DEF S
  <1> QED BY <1>2, <1>6, TellsOn DEF N

SourcesOf(us) == {u.source : u \in Import!ToSet(us)}

LEMMA TextsAre ==
  ASSUME NEW us, NEW L, NEW t
  PROVE  t \in Import!AllTranslations(us, L) <=>
           \E i \in DOMAIN us :
             \/ \E l \in DOMAIN us[i].targets : us[i].targets[l] # Absent /\ t = <<us[i].source, l, us[i].targets[l]>>
             \/ us[i].target # Absent /\ t = <<us[i].source, L, us[i].target>>
  <1>1. t \in Import!AllTranslations(us, L) <=> \E i \in DOMAIN us : t \in Import!Translations(us[i], L)
    BY DEF Import!AllTranslations
  <1>2. ASSUME NEW u
        PROVE  t \in Import!Translations(u, L) <=>
                 \/ \E l \in DOMAIN u.targets : u.targets[l] # Absent /\ t = <<u.source, l, u.targets[l]>>
                 \/ u.target # Absent /\ t = <<u.source, L, u.target>>
    <2>1. t \in {<<u.source, l, u.targets[l]>> : l \in {k \in DOMAIN u.targets : u.targets[k] # Absent}}
            <=> \E l \in DOMAIN u.targets : u.targets[l] # Absent /\ t = <<u.source, l, u.targets[l]>>
      OBVIOUS
    <2>2. t \in (IF u.target = Absent THEN {} ELSE {<<u.source, L, u.target>>})
            <=> u.target # Absent /\ t = <<u.source, L, u.target>>
      OBVIOUS
    <2> QED BY <2>1, <2>2, Zenon DEF Import!Translations
  <1> QED BY <1>1, <1>2

\* The same translations and the same sources.
LEMMA TellsTexts ==
  ASSUME NEW us, IsList(us), NEW d, Tells(d, us, Len(us))
  PROVE  /\ \A L : Import!AllTranslations(d, L) = Import!AllTranslations(us, L)
         /\ SourcesOf(d) = SourcesOf(us)
  <1> DEFINE n == Len(us)
  <1>1. DOMAIN us = 1..n /\ n \in Nat
    BY ListIs
  <1>2. \A k \in DOMAIN d : OnlySays(d[k], us, n)
    BY DEF Tells
  <1>3. \A i \in 1..n : \E k \in DOMAIN d : Carries(d[k], us[i])
    BY DEF Tells
  <1> HIDE DEF n
  <1>4. ASSUME NEW L, NEW t, t \in Import!AllTranslations(us, L) PROVE t \in Import!AllTranslations(d, L)
    <2>1. PICK i \in 1..n :
             \/ \E l \in DOMAIN us[i].targets : us[i].targets[l] # Absent /\ t = <<us[i].source, l, us[i].targets[l]>>
             \/ us[i].target # Absent /\ t = <<us[i].source, L, us[i].target>>
      BY <1>1, <1>4, TextsAre
    <2>2. PICK k \in DOMAIN d : Carries(d[k], us[i])
      BY <1>3
    <2>3. \/ \E l \in DOMAIN d[k].targets : d[k].targets[l] # Absent /\ t = <<d[k].source, l, d[k].targets[l]>>
          \/ d[k].target # Absent /\ t = <<d[k].source, L, d[k].target>>
      BY <2>1, <2>2 DEF Carries
    <2> QED BY <2>3, TextsAre
  <1>5. ASSUME NEW L, NEW t, t \in Import!AllTranslations(d, L) PROVE t \in Import!AllTranslations(us, L)
    <2>1. PICK k \in DOMAIN d :
             \/ \E l \in DOMAIN d[k].targets : d[k].targets[l] # Absent /\ t = <<d[k].source, l, d[k].targets[l]>>
             \/ d[k].target # Absent /\ t = <<d[k].source, L, d[k].target>>
      BY <1>5, TextsAre
    <2>2. CASE \E l \in DOMAIN d[k].targets : d[k].targets[l] # Absent /\ t = <<d[k].source, l, d[k].targets[l]>>
      <3>1. PICK l \in DOMAIN d[k].targets : d[k].targets[l] # Absent /\ t = <<d[k].source, l, d[k].targets[l]>>
        BY <2>2
      <3>2. PICK i \in 1..n : us[i].source = d[k].source /\ l \in DOMAIN us[i].targets /\ us[i].targets[l] = d[k].targets[l]
        BY <1>2 DEF OnlySays
      <3>3. us[i].targets[l] # Absent /\ t = <<us[i].source, l, us[i].targets[l]>>
        BY <3>1, <3>2
      <3> QED BY <1>1, <3>2, <3>3, TextsAre
    <2>3. CASE d[k].target # Absent /\ t = <<d[k].source, L, d[k].target>>
      <3>1. PICK i \in 1..n : d[k].source = us[i].source /\ d[k].target = us[i].target
        BY <1>2 DEF OnlySays
      <3>2. us[i].target # Absent /\ t = <<us[i].source, L, us[i].target>>
        BY <2>3, <3>1
      <3> QED BY <1>1, <3>2, TextsAre
    <2> QED BY <2>1, <2>2, <2>3
  <1>6. ASSUME NEW L PROVE Import!AllTranslations(d, L) = Import!AllTranslations(us, L)
    <2>1. Import!AllTranslations(d, L) \subseteq Import!AllTranslations(us, L)
      BY <1>5
    <2>2. Import!AllTranslations(us, L) \subseteq Import!AllTranslations(d, L)
      BY <1>4
    <2> QED BY <2>1, <2>2
  <1>7. ASSUME NEW s PROVE s \in SourcesOf(d) <=> s \in SourcesOf(us)
    <2>1. ASSUME NEW e PROVE s \in SourcesOf(e) <=> \E k \in DOMAIN e : s = e[k].source
      BY DEF SourcesOf, Import!ToSet
    <2>2. ASSUME NEW k \in DOMAIN d PROVE \E i \in 1..n : us[i].source = d[k].source
      <3>1. OnlySays(d[k], us, n)
        BY <1>2
      <3> QED BY <3>1 DEF OnlySays
    <2>3. ASSUME NEW i \in 1..n PROVE \E k \in DOMAIN d : us[i].source = d[k].source
      <3>1. PICK k \in DOMAIN d : Carries(d[k], us[i])
        BY <1>3
      <3> QED BY <3>1 DEF Carries
    <2>4. (\E k \in DOMAIN d : s = d[k].source) <=> (\E i \in 1..n : s = us[i].source)
      BY <2>2, <2>3
    <2> QED BY <1>1, <2>1, <2>4
  <1> QED BY <1>6, <1>7

\* A document with the texts of its units moved.
Rewords(e, d, L) ==
  /\ DOMAIN e = DOMAIN d
  /\ \A i \in DOMAIN d : /\ e[i].id = d[i].id /\ e[i].source = d[i].source
                         /\ Import!Translations(e[i], L) = Import!Translations(d[i], L)

LEMMA RewordedTexts ==
  ASSUME NEW d, NEW e, NEW L, Rewords(e, d, L), Import!Distinct(d)
  PROVE  Import!AllTranslations(e, L) = Import!AllTranslations(d, L) /\ Import!Distinct(e) /\ SourcesOf(e) = SourcesOf(d)
  <1>1. Import!AllTranslations(e, L) = Import!AllTranslations(d, L)
    <2>1. \A i \in DOMAIN e : Import!Translations(e[i], L) = Import!Translations(d[i], L)
      BY DEF Rewords
    <2> QED BY <2>1 DEF Rewords, Import!AllTranslations
  <1>2. SourcesOf(e) = SourcesOf(d)
    <2>1. ASSUME NEW s, NEW c PROVE s \in SourcesOf(c) <=> \E k \in DOMAIN c : s = c[k].source
      BY DEF SourcesOf, Import!ToSet
    <2>2. \A s : s \in SourcesOf(e) <=> s \in SourcesOf(d)
      BY <2>1 DEF Rewords
    <2> QED BY <2>2
  <1> QED BY <1>1, <1>2 DEF Rewords, Import!Distinct

\* The text of the only locale moves into the unit.
LEMMA CollapsedUnit ==
  ASSUME NEW u, Import!IsUnit(u), NEW l, DOMAIN u.targets \subseteq {l}, u.target # Absent => DOMAIN u.targets = {},
         NEW c, c.id = u.id, c.source = u.source, DOMAIN c.targets = {},
         c.target = IF l \in DOMAIN u.targets THEN u.targets[l] ELSE u.target
  PROVE  Import!Translations(c, l) = Import!Translations(u, l)
  <1>1. ASSUME NEW v, NEW t
        PROVE  t \in Import!Translations(v, l) <=>
                 \/ \E k \in DOMAIN v.targets : v.targets[k] # Absent /\ t = <<v.source, k, v.targets[k]>>
                 \/ v.target # Absent /\ t = <<v.source, l, v.target>>
    <2>1. t \in {<<v.source, k, v.targets[k]>> : k \in {m \in DOMAIN v.targets : v.targets[m] # Absent}}
            <=> \E k \in DOMAIN v.targets : v.targets[k] # Absent /\ t = <<v.source, k, v.targets[k]>>
      OBVIOUS
    <2>2. t \in (IF v.target = Absent THEN {} ELSE {<<v.source, l, v.target>>})
            <=> v.target # Absent /\ t = <<v.source, l, v.target>>
      OBVIOUS
    <2> QED BY <2>1, <2>2, Zenon DEF Import!Translations
  <1>2. ASSUME NEW t PROVE t \in Import!Translations(c, l) <=> t \in Import!Translations(u, l)
    <2>1. CASE l \in DOMAIN u.targets
      <3>1. u.target = Absent /\ c.target = u.targets[l] /\ DOMAIN u.targets = {l}
        BY <2>1
      <3> QED BY <1>1, <3>1
    <2>2. CASE l \notin DOMAIN u.targets
      <3>1. c.target = u.target /\ DOMAIN u.targets = {}
        BY <2>2
      <3> QED BY <1>1, <3>1
    <2> QED BY <2>1, <2>2
  <1> QED BY <1>2

LEMMA OneOf ==
  ASSUME NEW S, IsFiniteSet(S), Import!Cardinality(S) = 1
  PROVE  \E l : S = {l} /\ Import!TargetLocale(S) = l
  <1>1. Cardinality(S) = 1
    BY ImportCounts
  <1>2. PICK l : S = {l}
    BY <1>1, FS_Singleton
  <1>3. (CHOOSE m \in {l} : TRUE) = l
    OBVIOUS
  <1>4. Import!TargetLocale(S) = CHOOSE m \in S : TRUE
    BY DEF Import!TargetLocale
  <1> QED BY <1>2, <1>3, <1>4

\* What the units of a document may have when it collapses.
HasOnly(d, l) == \A i \in DOMAIN d : /\ Import!IsUnit(d[i]) /\ DOMAIN d[i].targets \subseteq {l}
                                     /\ d[i].target # Absent => DOMAIN d[i].targets = {}
LEMMA CollapseRewords ==
  ASSUME NEW d, NEW l, HasOnly(d, l)
  PROVE  Rewords(Import!CollapseTarget(d, l), d, l) /\ Rewords(Import!CollapseTargets(d), d, l)
  <1>1. ASSUME NEW i \in DOMAIN d
        PROVE  LET c == [d[i] EXCEPT !.target = IF l \in DOMAIN d[i].targets THEN d[i].targets[l] ELSE @, !.targets = <<>>]
               IN c.id = d[i].id /\ c.source = d[i].source /\ Import!Translations(c, l) = Import!Translations(d[i], l)
    <2> DEFINE u == d[i]
               text == IF l \in DOMAIN u.targets THEN u.targets[l] ELSE u.target
               c == [u EXCEPT !.target = text, !.targets = <<>>]
    <2>1. Import!IsUnit(u) /\ DOMAIN u.targets \subseteq {l} /\ (u.target # Absent => DOMAIN u.targets = {})
      BY DEF HasOnly
    <2> HIDE DEF u
    <2>2. c.target = text /\ c.targets = <<>> /\ c.id = u.id /\ c.source = u.source
      <3> HIDE DEF text
      <3> QED BY <2>1 DEF Import!IsUnit
    <2>3. DOMAIN <<>> = {}
      OBVIOUS
    <2> HIDE DEF c
    <2>4. Import!Translations(c, l) = Import!Translations(u, l)
      BY <2>1, <2>2, <2>3, CollapsedUnit
    <2> QED BY <2>2, <2>4 DEF u, c
  <1>2. Rewords(Import!CollapseTarget(d, l), d, l)
    BY <1>1 DEF Rewords, Import!CollapseTarget
  <1>3. ASSUME NEW i \in DOMAIN d
        PROVE  LET e == Import!CollapseTargets(d)[i]
               IN e.id = d[i].id /\ e.source = d[i].source /\ Import!Translations(e, l) = Import!Translations(d[i], l)
    <2> DEFINE u == d[i]
               one == Import!Cardinality(DOMAIN u.targets) = 1
               only == CHOOSE m \in DOMAIN u.targets : TRUE
    <2>1. Import!IsUnit(u) /\ DOMAIN u.targets \subseteq {l}
      BY DEF HasOnly
    <2>2. Import!CollapseTargets(d)[i] = IF one THEN [u EXCEPT !.target = u.targets[only], !.targets = <<>>] ELSE u
      BY DEF Import!CollapseTargets
    <2>3. CASE one
      <3>1. \E m : DOMAIN u.targets = {m} /\ only = m
        <4>1. IsFiniteSet(DOMAIN u.targets)
          BY <2>1, ImportCounts DEF Import!IsUnit
        <4>2. PICK m : DOMAIN u.targets = {m}
          BY <2>3, <4>1, ImportCounts, FS_Singleton
        <4> QED BY <4>2
      <3>2. l \in DOMAIN u.targets /\ only = l
        BY <2>1, <3>1
      <3> HIDE DEF one, only, u
      <3>3. Import!CollapseTargets(d)[i] =
              [u EXCEPT !.target = IF l \in DOMAIN u.targets THEN u.targets[l] ELSE @, !.targets = <<>>]
        BY <2>2, <2>3, <3>2
      <3> QED BY <1>1, <3>3 DEF u
    <2>4. CASE ~one
      BY <2>2, <2>4
    <2> QED BY <2>3, <2>4
  <1>4. DOMAIN Import!CollapseTargets(d) = DOMAIN d
    BY DEF Import!CollapseTargets
  <1> QED BY <1>2, <1>3, <1>4 DEF Rewords

\* What can be read of a file, and the locales that are named in it
ReadableOf(f) == IF f.failAt = 0 THEN Len(f.units) ELSE f.failAt - 1
NamesOf(f) == f.declared \cup UNION {DOMAIN f.units[i].targets : i \in 1..ReadableOf(f)}

\* What a file says, with those that are added to it.
TextsIn(f) ==
  Import!AllTranslations(f.units, Import!TargetLocale(f.declared)) \cup
  UNION {Import!AllTranslations(f.more[l], l) : l \in DOMAIN f.more}
SourcesIn(f) == SourcesOf(f.units) \cup UNION {SourcesOf(f.more[l]) : l \in DOMAIN f.more}
SaysAll(d, f, locales) ==
  /\ Import!AllTranslations(d, Import!TargetLocale(locales)) = TextsIn(f)
  /\ Import!Distinct(d) /\ SourcesOf(d) = SourcesIn(f)

LEMMA FileHas ==
  ASSUME Import!FilesAssumption, NEW f \in Files
  PROVE  /\ AreUnits(f.units) /\ ReadableOf(f) \in 0..Len(f.units) /\ Len(f.units) \in Nat /\ DOMAIN f.units = 1..Len(f.units)
         /\ IsFiniteSet(NamesOf(f)) /\ IsFiniteSet(f.declared)
         /\ \A u \in Import!ToSet(f.units) : u.target # Absent => Import!OwnTextIsPlain(f, u)
         /\ f.failAt = 0 => ReadableOf(f) = Len(f.units)
  <1> DEFINE us == f.units
             N == ReadableOf(f)
             Upto(k) == UNION {DOMAIN us[i].targets : i \in 1..k}
  <1>1. /\ IsList(us) /\ Import!Distinct(us) /\ IsFiniteSet(f.declared) /\ f.failAt \in 0..Len(us) + 1
        /\ \A u \in Import!ToSet(us) : Import!IsUnit(u) /\ (u.target # Absent => Import!OwnTextIsPlain(f, u))
    BY ImportCounts DEF Import!FilesAssumption, IsList
  <1>2. \A i \in DOMAIN us : us[i] \in Import!ToSet(us)
    BY DEF Import!ToSet
  <1>3. AreUnits(us) /\ Len(us) \in Nat /\ DOMAIN us = 1..Len(us)
    BY <1>1, <1>2, ListIs DEF AreUnits
  <1>4. N \in 0..Len(us)
    BY <1>1, <1>3 DEF ReadableOf
  <1>5. \A k \in 1..N : IsFiniteSet(DOMAIN us[k].targets)
    BY <1>3, <1>4, ImportCounts DEF AreUnits, Import!IsUnit
  <1>6. \A k \in 0..N : IsFiniteSet(Upto(k))
    <2> DEFINE S == {k \in 0..N : IsFiniteSet(Upto(k))}
    <2>1. 0 \in S
      <3>1. Upto(0) = {}
        OBVIOUS
      <3>2. 0 \in 0..N
        BY <1>4
      <3> HIDE DEF Upto, N
      <3> QED BY <3>1, <3>2, FS_EmptySet
    <2>2. ASSUME NEW k \in 0..N - 1, k \in S PROVE k + 1 \in S
      <3>1. k + 1 \in 1..N /\ k + 1 \in 0..N
        BY <1>3, <1>4
      <3>2. Upto(k + 1) = Upto(k) \cup DOMAIN us[k + 1].targets
        BY <3>1
      <3>3. IsFiniteSet(Upto(k)) /\ IsFiniteSet(DOMAIN us[k + 1].targets)
        BY <1>5, <2>2, <3>1
      <3> HIDE DEF Upto
      <3>5. IsFiniteSet(Upto(k) \cup DOMAIN us[k + 1].targets)
        BY <3>3, FS_Union, Zenon
      <3>4. IsFiniteSet(Upto(k + 1))
        BY <3>2, <3>5, Zenon
      <3> QED BY <3>1, <3>4
    <2> HIDE DEF Upto
    <2>3. \A k \in 0..N - 1 : k \in S => k + 1 \in S
      BY <2>2
    <2>4. 0..N \subseteq S
      <3> HIDE DEF S, N
      <3> QED BY <1>3, <1>4, <2>1, <2>3, UpTo
    <2> QED BY <2>4
  <1>7. IsFiniteSet(NamesOf(f))
    <2>1. NamesOf(f) = f.declared \cup Upto(N)
      BY DEF NamesOf
    <2>2. IsFiniteSet(Upto(N))
      <3>1. N \in 0..N
        BY <1>3, <1>4
      <3> HIDE DEF Upto, N
      <3> QED BY <1>6, <3>1
    <2> HIDE DEF Upto
    <2> QED BY <1>1, <2>1, <2>2, FS_Union
  <1>8. f.failAt = 0 => N = Len(us)
    BY DEF ReadableOf
  <1> QED BY <1>1, <1>3, <1>4, <1>7, <1>8

\* Texts without a locale are those of the only locale, whatever is known of the others.
LEMMA OwnLocale ==
  ASSUME Import!FilesAssumption, NEW f \in Files, f.failAt = 0, NEW locales \in {f.declared, NamesOf(f)}
  PROVE  Import!AllTranslations(f.units, Import!TargetLocale(locales)) =
           Import!AllTranslations(f.units, Import!TargetLocale(f.declared))
  <1> DEFINE us == f.units
  <1>1. CASE \A i \in DOMAIN us : us[i].target = Absent
    <2>1. \A L, t : t \in Import!AllTranslations(us, L) <=>
            \E i \in DOMAIN us : \E l \in DOMAIN us[i].targets : us[i].targets[l] # Absent /\ t = <<us[i].source, l, us[i].targets[l]>>
      BY <1>1, TextsAre
    <2>2. ASSUME NEW L, NEW M PROVE Import!AllTranslations(us, L) = Import!AllTranslations(us, M)
      <3>1. Import!AllTranslations(us, L) \subseteq Import!AllTranslations(us, M)
        BY <2>1
      <3>2. Import!AllTranslations(us, M) \subseteq Import!AllTranslations(us, L)
        BY <2>1
      <3> QED BY <3>1, <3>2
    <2> QED BY <2>2
  <1>2. CASE \E i \in DOMAIN us : us[i].target # Absent
    <2>1. PICK i \in DOMAIN us : us[i].target # Absent
      BY <1>2
    <2>2. Import!OwnTextIsPlain(f, us[i])
      BY <2>1, FileHas DEF Import!ToSet
    <2>3. \A k \in 1..ReadableOf(f) : us[k] \in Import!ToSet(us)
      BY FileHas DEF Import!ToSet
    <2>4. \A k \in 1..ReadableOf(f) : DOMAIN us[k].targets \subseteq f.declared
      BY <2>2, <2>3 DEF Import!OwnTextIsPlain
    <2>5. NamesOf(f) = f.declared
      BY <2>4 DEF NamesOf
    <2> QED BY <2>5
  <1> QED BY <1>1, <1>2

\* What the caller of an import gets (importers.py): a segment of one locale has its text itself.
LEMMA BuiltSays ==
  ASSUME Import!FilesAssumption, NEW f \in Files, f.failAt = 0, DOMAIN f.more = {},
         NEW d, Tells(d, f.units, Len(f.units)), NEW locales \in {f.declared, NamesOf(f)},
         job.importer = "import_xliff" => f.reader = "xliff" /\ locales = NamesOf(f)
  PROVE  SaysAll(Import!Built(d, locales), f, locales)
  <1> DEFINE us == f.units
             n == Len(us)
  <1>1. AreUnits(us) /\ IsFiniteSet(locales) /\ n \in Nat /\ DOMAIN us = 1..n /\ ReadableOf(f) = n /\ IsList(us)
    BY FileHas DEF AreUnits
  <1>2. ASSUME NEW e, Tells(e, us, n)
        PROVE  /\ Import!AllTranslations(e, Import!TargetLocale(locales)) = Import!AllTranslations(us, Import!TargetLocale(f.declared))
               /\ SourcesOf(e) = SourcesOf(us) /\ Import!Distinct(e)
    <2>1. \A L : Import!AllTranslations(e, L) = Import!AllTranslations(us, L)
      BY <1>1, <1>2, TellsTexts
    <2>2. SourcesOf(e) = SourcesOf(us) /\ Import!Distinct(e)
      BY <1>1, <1>2, TellsTexts DEF Tells
    <2>3. Import!AllTranslations(us, Import!TargetLocale(locales)) = Import!AllTranslations(us, Import!TargetLocale(f.declared))
      BY OwnLocale
    <2> QED BY <2>1, <2>2, <2>3
  <1>3. TextsIn(f) = Import!AllTranslations(us, Import!TargetLocale(f.declared)) /\ SourcesIn(f) = SourcesOf(us)
    BY DEF TextsIn, SourcesIn
  <1>4. ASSUME NEW e, Tells(e, us, n) PROVE SaysAll(e, f, locales)
    BY <1>2, <1>3, <1>4 DEF SaysAll
  <1>5. ASSUME NEW e, Tells(e, us, n), NEW c, Rewords(c, e, Import!TargetLocale(locales)) PROVE SaysAll(c, f, locales)
    BY <1>2, <1>3, <1>5, RewordedTexts DEF SaysAll
  <1>6. ASSUME job.importer = "import_xliff", Import!Cardinality(locales) = 1, NEW e, Tells(e, us, n)
        PROVE  /\ Rewords(Import!CollapseTarget(e, Import!TargetLocale(locales)), e, Import!TargetLocale(locales))
               /\ Rewords(Import!CollapseTargets(e), e, Import!TargetLocale(locales))
    <2>1. PICK l : locales = {l} /\ Import!TargetLocale(locales) = l
      BY <1>1, <1>6, OneOf
    <2>2. \A i \in 1..n : DOMAIN us[i].targets \subseteq {l}
      BY <1>1, <1>6, <2>1 DEF NamesOf
    <2>3. \A i \in 1..n : us[i].target # Absent => DOMAIN us[i].targets = {}
      <3>1. \A i \in 1..n : us[i] \in Import!ToSet(us)
        BY <1>1 DEF Import!ToSet
      <3>2. \A i \in 1..n : us[i].target # Absent => Import!OwnTextIsPlain(f, us[i])
        BY <3>1, FileHas
      <3> QED BY <1>6, <3>2 DEF Import!OwnTextIsPlain
    <2>4. ASSUME NEW k \in DOMAIN e
          PROVE  Import!IsUnit(e[k]) /\ DOMAIN e[k].targets \subseteq {l} /\ (e[k].target # Absent => DOMAIN e[k].targets = {})
      <3>1. Import!IsUnit(e[k]) /\ OnlySays(e[k], us, n)
        BY <1>6 DEF Tells
      <3>2. \A m \in DOMAIN e[k].targets : \E i \in 1..n : m \in DOMAIN us[i].targets
        BY <3>1 DEF OnlySays
      <3>3. DOMAIN e[k].targets \subseteq {l}
        BY <2>2, <3>2
      <3>4. \E i \in 1..n : e[k].target = us[i].target /\ (e[k].target # Absent => e[k].targets = us[i].targets)
        BY <3>1 DEF OnlySays
      <3> QED BY <2>3, <3>1, <3>3, <3>4
    <2>5. HasOnly(e, l)
      BY <2>4 DEF HasOnly
    <2> QED BY <2>1, <2>5, CollapseRewords
  <1>7. CASE job.importer # "import_xliff"
    BY <1>4, <1>7 DEF Import!Built
  <1>8. CASE job.importer = "import_xliff" /\ job.rule # "native"
    <2> DEFINE merged == IF Import!Cardinality(locales) > 1 THEN Import!MergeIdentities(d) ELSE d
    <2>1. Tells(merged, us, n)
      BY <1>1, MergedTells
    <2>2. Import!Built(d, locales) = IF Import!Cardinality(locales) = 1 THEN Import!CollapseTarget(merged, Import!TargetLocale(locales)) ELSE merged
      BY <1>8 DEF Import!Built, Import!BuildXliff
    <2> HIDE DEF merged
    <2> QED BY <1>4, <1>5, <1>6, <1>8, <2>1, <2>2
  <1>9. CASE job.importer = "import_xliff" /\ job.rule = "native"
    <2>1. Import!Built(d, locales) = IF Import!Cardinality(locales) = 1 THEN Import!CollapseTargets(d) ELSE d
      BY <1>9 DEF Import!Built
    <2> QED BY <1>4, <1>5, <1>6, <1>9, <2>1
  <1> QED BY <1>7, <1>8, <1>9

(***************************************************************************)
(* The targets of other PO files, under the identifiers of the first       *)
(* (import_po_targets): c[m] entries of the file of each locale m are in.  *)
(***************************************************************************)
IsCount(c, f) == c = [m \in DOMAIN f.more |-> c[m]] /\ \A m \in DOMAIN f.more : c[m] \in 0..Len(f.more[m])
OfEntry(b, w) == b.id = w.id /\ b.source = w.source
FromEntry(b, f, c) ==
  \/ \E i \in DOMAIN f.units : OfEntry(b, f.units[i])
  \/ \E m \in DOMAIN f.more : \E i \in 1..c[m] : OfEntry(b, f.more[m][i])
Adds(b, f, c) ==
  \A m \in DOMAIN b.targets :
    m \in DOMAIN f.more /\ \E i \in 1..c[m] : OfEntry(b, f.more[m][i]) /\ b.targets[m] = f.more[m][i].target
HasTarget(b, w, m) == OfEntry(b, w) /\ m \in DOMAIN b.targets /\ b.targets[m] = w.target
TellsAdded(d, f, c) ==
  /\ IsCount(c, f) /\ IsList(d) /\ Import!Distinct(d)
  /\ \A k \in DOMAIN d : Import!IsUnit(d[k]) /\ d[k].target = Absent /\ FromEntry(d[k], f, c) /\ Adds(d[k], f, c)
  /\ \A i \in DOMAIN f.units : \E k \in DOMAIN d : d[k].source = f.units[i].source
  /\ \A m \in DOMAIN f.more : \A i \in 1..c[m] : \E k \in DOMAIN d : HasTarget(d[k], f.more[m][i], m)

LEMMA MoreHas ==
  ASSUME Import!FilesAssumption, NEW f \in Files, NEW l \in DOMAIN f.more
  PROVE  /\ IsList(f.more[l]) /\ Import!Distinct(f.more[l])
         /\ \A i \in DOMAIN f.more[l] : Import!IsUnit(f.more[l][i]) /\ DOMAIN f.more[l][i].targets = {}
         /\ \A i \in DOMAIN f.units : DOMAIN f.units[i].targets = {} /\ f.units[i].target = Absent
         /\ \A i \in DOMAIN f.more[l] : \A j \in DOMAIN f.units :
              f.more[l][i].id = f.units[j].id => f.more[l][i].source = f.units[j].source
         /\ \A i \in DOMAIN f.more[l] : \A m \in DOMAIN f.more : \A j \in DOMAIN f.more[m] :
              f.more[l][i].id = f.more[m][j].id => f.more[l][i].source = f.more[m][j].source
  <1>1. Import!SameEntries(f, l)
    BY DEF Import!FilesAssumption
  <1>2. \A s : \A i \in DOMAIN s : s[i] \in Import!ToSet(s)
    BY DEF Import!ToSet
  <1>3. \A i \in DOMAIN f.units : f.units[i].target = Absent
    BY <1>2, FileHas DEF Import!OwnTextIsPlain
  <1>4. \A i \in DOMAIN f.units : DOMAIN f.units[i].targets = {}
    BY <1>1, <1>2 DEF Import!SameEntries
  <1>5. IsList(f.more[l]) /\ Import!Distinct(f.more[l])
    BY <1>1 DEF Import!SameEntries, IsList
  <1>6. \A i \in DOMAIN f.more[l] : Import!IsUnit(f.more[l][i]) /\ DOMAIN f.more[l][i].targets = {}
    BY <1>1, <1>2 DEF Import!SameEntries
  <1>7. ASSUME NEW i \in DOMAIN f.more[l], NEW w \in Import!ToSet(f.units) \cup UNION {Import!ToSet(f.more[k]) : k \in DOMAIN f.more},
               f.more[l][i].id = w.id
        PROVE  f.more[l][i].source = w.source
    BY <1>1, <1>2, <1>7 DEF Import!SameEntries
  <1>8. \A j \in DOMAIN f.units : f.units[j] \in Import!ToSet(f.units) \cup UNION {Import!ToSet(f.more[k]) : k \in DOMAIN f.more}
    BY <1>2
  <1>9. ASSUME NEW m \in DOMAIN f.more, NEW j \in DOMAIN f.more[m]
        PROVE  f.more[m][j] \in Import!ToSet(f.units) \cup UNION {Import!ToSet(f.more[k]) : k \in DOMAIN f.more}
    <2>1. f.more[m][j] \in Import!ToSet(f.more[m])
      BY <1>2
    <2> QED BY <2>1
  <1> QED BY <1>3, <1>4, <1>5, <1>6, <1>7, <1>8, <1>9

\* One entry more: the unit of its identifier, which the first file may not have, gets its text.
LEMMA AddTargetTells ==
  ASSUME Import!FilesAssumption, NEW f \in Files, NEW c, NEW d, TellsAdded(d, f, c), NEW l \in DOMAIN f.more,
         NEW n \in Nat, c[l] = n, n + 1 \in DOMAIN f.more[l]
  PROVE  TellsAdded(Import!AddTarget(d, f.more[l][n + 1], l), f, [c EXCEPT ![l] = n + 1])
  <1> DEFINE u == f.more[l][n + 1]
             c1 == [c EXCEPT ![l] = n + 1]
             bare == [u EXCEPT !.target = Absent]
             d1 == IF Import!At(d, u.id) = {} THEN Append(d, bare) ELSE d
             k == Import!First(Import!At(d1, u.id))
             b == d1[k]
             e == [b EXCEPT !.targets = Import!Updated(b.targets, [m \in {l} |-> u.target])]
  <1>1. /\ Import!IsUnit(u) /\ DOMAIN u.targets = {} /\ Import!Distinct(f.more[l])
        /\ DOMAIN f.more[l] = 1..Len(f.more[l]) /\ Len(f.more[l]) \in Nat
    BY MoreHas, ListIs
  <1>2. /\ IsCount(c, f) /\ IsList(d) /\ Import!Distinct(d) /\ Len(d) \in Nat /\ DOMAIN d = 1..Len(d)
        /\ \A i \in DOMAIN d : Import!IsUnit(d[i]) /\ d[i].target = Absent /\ FromEntry(d[i], f, c) /\ Adds(d[i], f, c)
    BY ListIs DEF TellsAdded
  <1>3. /\ IsCount(c1, f) /\ c1[l] = n + 1 /\ (\A m \in DOMAIN f.more : m # l => c1[m] = c[m])
        /\ \A m \in DOMAIN f.more : 1..c[m] \subseteq 1..c1[m] /\ c[m] \in Nat /\ c1[m] \in Nat
    <2>1. /\ c1 = [m \in DOMAIN f.more |-> c1[m]] /\ c1[l] = n + 1 /\ (\A m \in DOMAIN f.more : m # l => c1[m] = c[m])
      BY <1>2 DEF IsCount
    <2>2. \A m \in DOMAIN f.more : c[m] \in 0..Len(f.more[m]) /\ Len(f.more[m]) \in Nat
      BY <1>2, MoreHas, ListIs DEF IsCount
    <2> HIDE DEF c1
    <2>3. \A m \in DOMAIN f.more : c1[m] \in 0..Len(f.more[m])
      <3> TAKE m \in DOMAIN f.more
      <3>1. CASE m = l
        <4>1. n + 1 \in 0..Len(f.more[l])
          BY <1>1
        <4> QED BY <2>1, <3>1, <4>1
      <3>2. CASE m # l
        BY <2>1, <2>2, <3>2
      <3> QED BY <3>1, <3>2
    <2>4. \A m \in DOMAIN f.more : 1..c[m] \subseteq 1..c1[m] /\ c[m] \in Nat /\ c1[m] \in Nat
      <3> TAKE m \in DOMAIN f.more
      <3>1. c[m] \in Nat /\ c1[m] \in Nat
        BY <2>2, <2>3
      <3>2. c[m] <= c1[m]
        BY <2>1, <3>1
      <3> QED BY <3>1, <3>2
    <2> QED BY <2>1, <2>3, <2>4 DEF IsCount
  <1>4. /\ Import!IsUnit(bare) /\ bare.id = u.id /\ bare.source = u.source /\ bare.target = Absent /\ DOMAIN bare.targets = {}
    BY <1>1 DEF Import!IsUnit
  <1> HIDE DEF bare, u, c1
  \* With the unit of that identifier in the document
  <1>5. /\ IsList(d1) /\ Import!Distinct(d1) /\ Import!At(d1, u.id) # {} /\ Len(d1) \in Nat /\ DOMAIN d1 = 1..Len(d1)
        /\ \A i \in DOMAIN d1 : (i \in DOMAIN d /\ d1[i] = d[i]) \/ d1[i] = bare
        /\ \A i \in DOMAIN d : i \in DOMAIN d1 /\ d1[i] = d[i]
    <2>1. CASE Import!At(d, u.id) = {}
      <3>1. d1 = Append(d, bare)
        BY <2>1
      <3> HIDE DEF d1
      <3>2. /\ IsList(d1) /\ Len(d1) = Len(d) + 1 /\ DOMAIN d1 = 1..Len(d) + 1 /\ d1[Len(d) + 1] = bare
            /\ \A i \in 1..Len(d) : d1[i] = d[i]
        BY <1>2, <3>1, ListAppend
      <3>3. \A i \in DOMAIN d : d[i].id # u.id
        BY <2>1 DEF Import!At
      <3>4. Import!Distinct(d1)
        BY <1>2, <1>4, <3>2, <3>3 DEF Import!Distinct
      <3>5. Len(d) + 1 \in Import!At(d1, u.id)
        BY <1>2, <1>4, <3>2 DEF Import!At
      <3> QED BY <1>2, <3>2, <3>4, <3>5
    <2>2. CASE Import!At(d, u.id) # {}
      BY <1>2, <2>2
    <2> QED BY <2>1, <2>2
  <1> HIDE DEF d1
  <1>6. k \in DOMAIN d1 /\ d1[k].id = u.id
    <2>1. Import!At(d1, u.id) \in SUBSET (1..Len(d1))
      BY <1>5 DEF Import!At
    <2>2. k \in Import!At(d1, u.id)
      BY <1>5, <2>1, EarliestIs
    <2> QED BY <2>2 DEF Import!At
  <1> HIDE DEF k
  <1>7. ASSUME NEW v, FromEntry(v, f, c), v.id = u.id PROVE v.source = u.source
    <2>3. /\ \A j \in DOMAIN f.units : u.id = f.units[j].id => u.source = f.units[j].source
          /\ \A m \in DOMAIN f.more : \A j \in DOMAIN f.more[m] : u.id = f.more[m][j].id => u.source = f.more[m][j].source
      BY MoreHas DEF u
    <2>1. CASE \E i \in DOMAIN f.units : OfEntry(v, f.units[i])
      BY <1>7, <2>1, <2>3 DEF OfEntry
    <2>2. CASE \E m \in DOMAIN f.more : \E i \in 1..c[m] : OfEntry(v, f.more[m][i])
      <3>3. PICK m \in DOMAIN f.more : \E i \in 1..c[m] : OfEntry(v, f.more[m][i])
        BY <2>2
      <3>1. PICK i \in 1..c[m] : OfEntry(v, f.more[m][i])
        BY <3>3
      <3>2. i \in DOMAIN f.more[m]
        <4>1. c[m] \in 0..Len(f.more[m]) /\ DOMAIN f.more[m] = 1..Len(f.more[m]) /\ Len(f.more[m]) \in Nat
          BY <1>2, MoreHas, ListIs DEF IsCount
        <4> QED BY <4>1
      <3> QED BY <1>7, <2>3, <3>1, <3>2 DEF OfEntry
    <2> QED BY <1>7, <2>1, <2>2 DEF FromEntry
  <1>8. /\ Import!IsUnit(b) /\ b.id = u.id /\ b.source = u.source /\ b.target = Absent
        /\ Adds(b, f, c) /\ (FromEntry(b, f, c) \/ OfEntry(b, u)) /\ l \notin DOMAIN b.targets
    <2>1. CASE b = bare
      BY <1>4, <2>1 DEF Adds, OfEntry
    <2>2. CASE k \in DOMAIN d /\ b = d[k]
      <3>1. /\ Import!IsUnit(b) /\ b.id = u.id /\ b.target = Absent /\ FromEntry(b, f, c) /\ Adds(b, f, c) /\ b.source = u.source
        BY <1>2, <1>6, <1>7, <2>2
      <3>2. ASSUME l \in DOMAIN b.targets PROVE FALSE
        <4>1. PICK i \in 1..n : b.id = f.more[l][i].id
          BY <3>1, <3>2 DEF Adds, OfEntry
        <4>2. i \in DOMAIN f.more[l] /\ i # n + 1
          BY <1>1
        <4> QED BY <1>1, <3>1, <4>1, <4>2 DEF Import!Distinct, u
      <3> QED BY <3>1, <3>2
    <2> QED BY <1>5, <1>6, <2>1, <2>2
  <1> HIDE DEF b
  \* The unit with the text
  <1>9. /\ Import!IsUnit(e) /\ e.id = u.id /\ e.source = u.source /\ e.target = Absent
        /\ DOMAIN e.targets = DOMAIN b.targets \cup {l} /\ e.targets[l] = u.target
        /\ \A m \in DOMAIN b.targets : e.targets[m] = b.targets[m]
    <2> DEFINE g == [m \in {l} |-> u.target]
               h == Import!Updated(b.targets, g)
    <2>1. DOMAIN g = {l} /\ g[l] = u.target
      OBVIOUS
    <2> HIDE DEF g
    <2>2. /\ DOMAIN h = DOMAIN b.targets \cup {l} /\ h[l] = u.target
          /\ \A m \in DOMAIN b.targets : h[m] = b.targets[m]
      <3>1. /\ DOMAIN h = DOMAIN b.targets \cup DOMAIN g /\ (\A m \in DOMAIN g : h[m] = g[m])
            /\ \A m \in DOMAIN b.targets : m \notin DOMAIN g => h[m] = b.targets[m]
        BY UpdatedIs, ZenonT(30)
      <3> HIDE DEF h
      <3> QED BY <1>8, <2>1, <3>1
    <2>3. IsFiniteSet(DOMAIN h)
      <3>1. IsFiniteSet(DOMAIN b.targets) /\ IsFiniteSet({l})
        BY <1>8, ImportCounts, FS_Singleton DEF Import!IsUnit
      <3>2. IsFiniteSet(DOMAIN b.targets \cup {l})
        BY <3>1, FS_Union, Zenon
      <3> QED BY <2>2, <3>2
    <2>4. DOMAIN e = DOMAIN b /\ e.id = b.id /\ e.source = b.source /\ e.target = b.target /\ e.targets = h
      <3>1. e = [b EXCEPT !.targets = h]
        BY DEF g
      <3> HIDE DEF h, e
      <3> QED BY <1>8, <3>1 DEF Import!IsUnit
    <2> HIDE DEF h, e
    <2>5. Import!IsUnit(e)
      BY <1>8, <2>3, <2>4, ImportCounts DEF Import!IsUnit
    <2> QED BY <1>8, <2>2, <2>4, <2>5
  <1> DEFINE d2 == [d1 EXCEPT ![k] = e]
  <1>10. Import!AddTarget(d, u, l) = d2
    BY DEF Import!AddTarget, d1, k, b, bare
  <1> HIDE DEF e
  <1>11. IsList(d2) /\ DOMAIN d2 = DOMAIN d1 /\ d2[k] = e /\ \A i \in DOMAIN d1 : i # k => d2[i] = d1[i]
    BY <1>5, <1>6, ListExcept
  <1> HIDE DEF d2
  <1>12. Import!Distinct(d2)
    <2>1. \A i \in DOMAIN d1 : d2[i].id = d1[i].id
      BY <1>6, <1>9, <1>11
    <2> QED BY <1>5, <1>11, <2>1 DEF Import!Distinct
  <1>13. ASSUME NEW v, FromEntry(v, f, c) PROVE FromEntry(v, f, c1)
    BY <1>3, <1>13 DEF FromEntry
  <1>14. ASSUME NEW v, Adds(v, f, c) PROVE Adds(v, f, c1)
    BY <1>3, <1>14 DEF Adds
  <1>15. n + 1 \in 1..c1[l] /\ u = f.more[l][n + 1]
    BY <1>3 DEF u
  <1>16. FromEntry(e, f, c1)
    BY <1>9, <1>15 DEF FromEntry, OfEntry
  <1>17. Adds(e, f, c1)
    <2> SUFFICES ASSUME NEW m \in DOMAIN e.targets
                 PROVE  m \in DOMAIN f.more /\ \E i \in 1..c1[m] : OfEntry(e, f.more[m][i]) /\ e.targets[m] = f.more[m][i].target
      BY DEF Adds
    <2>1. CASE m = l
      BY <1>9, <1>15, <2>1 DEF OfEntry
    <2>2. CASE m \in DOMAIN b.targets
      <3>1. Adds(b, f, c1)
        BY <1>8, <1>14
      <3>2. m \in DOMAIN f.more /\ \E i \in 1..c1[m] : OfEntry(b, f.more[m][i]) /\ b.targets[m] = f.more[m][i].target
        BY <2>2, <3>1 DEF Adds
      <3> QED BY <1>8, <1>9, <2>2, <3>2 DEF OfEntry
    <2> QED BY <1>9, <2>1, <2>2
  <1>18. ASSUME NEW i \in DOMAIN d2
         PROVE  Import!IsUnit(d2[i]) /\ d2[i].target = Absent /\ FromEntry(d2[i], f, c1) /\ Adds(d2[i], f, c1)
    <2>1. CASE i = k
      BY <1>9, <1>11, <1>16, <1>17, <2>1
    <2>2. CASE i # k /\ i \in DOMAIN d /\ d1[i] = d[i]
      BY <1>2, <1>11, <1>13, <1>14, <2>2
    <2>3. CASE i # k /\ d1[i] = bare
      BY <1>4, <1>5, <1>6, <1>11, <2>3 DEF Import!Distinct
    <2> QED BY <1>5, <1>11, <2>1, <2>2, <2>3
  \* Nothing is lost
  <1>19. ASSUME NEW i \in DOMAIN d PROVE OfEntry(d2[i], d[i]) /\ i \in DOMAIN d2
                                        /\ \A m \in DOMAIN d[i].targets : m \in DOMAIN d2[i].targets /\ d2[i].targets[m] = d[i].targets[m]
    <2>1. i \in DOMAIN d1 /\ d1[i] = d[i]
      BY <1>5
    <2>2. CASE i = k
      <3>1. b = d[i]
        BY <2>1, <2>2 DEF b
      <3> QED BY <1>8, <1>9, <1>11, <2>1, <2>2, <3>1 DEF OfEntry
    <2>3. CASE i # k
      BY <1>11, <2>1, <2>3 DEF OfEntry
    <2> QED BY <2>2, <2>3
  <1>20. ASSUME NEW i \in DOMAIN f.units PROVE \E j \in DOMAIN d2 : d2[j].source = f.units[i].source
    <2>1. PICK j \in DOMAIN d : d[j].source = f.units[i].source
      BY DEF TellsAdded
    <2> QED BY <1>19, <2>1 DEF OfEntry
  <1>21. ASSUME NEW m \in DOMAIN f.more, NEW i \in 1..c1[m] PROVE \E j \in DOMAIN d2 : HasTarget(d2[j], f.more[m][i], m)
    <2>1. CASE m = l /\ i = n + 1
      <3>1. HasTarget(d2[k], f.more[m][i], m)
        BY <1>9, <1>11, <2>1 DEF HasTarget, OfEntry, u
      <3> QED BY <1>6, <1>11, <3>1
    <2>2. CASE ~(m = l /\ i = n + 1)
      <3>1. i \in 1..c[m]
        BY <1>3, <2>2
      <3>2. PICK j \in DOMAIN d : HasTarget(d[j], f.more[m][i], m)
        BY <3>1 DEF TellsAdded
      <3>3. HasTarget(d2[j], f.more[m][i], m)
        BY <1>19, <3>2 DEF HasTarget, OfEntry
      <3> QED BY <1>19, <3>3
    <2> QED BY <2>1, <2>2
  <1> QED BY <1>3, <1>10, <1>11, <1>12, <1>18, <1>20, <1>21 DEF TellsAdded, u, c1

\* All entries of a file are added.
WithCount(c, l, n) == [c EXCEPT ![l] = n]
LEMMA WithTargetsTells ==
  ASSUME Import!FilesAssumption, NEW f \in Files, NEW c, NEW d, TellsAdded(d, f, c), NEW l \in DOMAIN f.more, c[l] = 0
  PROVE  TellsAdded(Import!WithTargets(d, f.more[l], l), f, WithCount(c, l, Len(f.more[l])))
  <1> DEFINE s == f.more[l]
             N == Len(s)
  <1>1. s \in Seq(Import!ToSet(s)) /\ N \in Nat /\ DOMAIN s = 1..N
    BY MoreHas, ListIs DEF IsList
  <1>2. PICK h : IsChain(h, s, d, ByAdding(l)) /\ Import!WithTargets(d, s, l) = h[N]
    BY <1>1, AddedSteps
  <1>3. DOMAIN c = DOMAIN f.more /\ c = [m \in DOMAIN c |-> c[m]]
    BY DEF TellsAdded, IsCount
  <1>4. WithCount(c, l, 0) = c
    BY <1>3 DEF WithCount
  <1>5. ASSUME NEW n \in Nat
        PROVE  WithCount(c, l, n)[l] = n /\ [WithCount(c, l, n) EXCEPT ![l] = n + 1] = WithCount(c, l, n + 1)
    BY <1>3 DEF WithCount
  <1> DEFINE S == {n \in 0..N : TellsAdded(h[n], f, WithCount(c, l, n))}
  <1>6. 0 \in S
    BY <1>1, <1>2, <1>4 DEF IsChain
  <1>7. ASSUME NEW n \in 0..N - 1, n \in S PROVE n + 1 \in S
    <2>1. h[n + 1] = Folded(h[n], s[n + 1], ByAdding(l))
      BY <1>2 DEF IsChain
    <2>2. h[n + 1] = Import!AddTarget(h[n], s[n + 1], l)
      BY <2>1 DEF Folded, ByAdding
    <2>3. n \in Nat /\ n + 1 \in DOMAIN s /\ n + 1 \in 0..N
      BY <1>1
    <2>4. TellsAdded(h[n], f, WithCount(c, l, n))
      BY <1>7
    <2>5. TellsAdded(Import!AddTarget(h[n], s[n + 1], l), f, [WithCount(c, l, n) EXCEPT ![l] = n + 1])
      BY <1>5, <2>3, <2>4, AddTargetTells
    <2>6. TellsAdded(h[n + 1], f, WithCount(c, l, n + 1))
      BY <1>5, <2>2, <2>3, <2>5
    <2> QED BY <2>3, <2>6
  <1> HIDE DEF S, N
  <1>8. 0..N \subseteq S
    BY <1>1, <1>6, <1>7, UpTo
  <1>9. TellsAdded(h[N], f, WithCount(c, l, N))
    BY <1>1, <1>8 DEF S
  <1> QED BY <1>2, <1>9 DEF N

\* The entries of the files that are not left
Counts(f, left) == [m \in DOMAIN f.more |-> IF m \in left THEN 0 ELSE Len(f.more[m])]

LEMMA NothingAdded ==
  ASSUME Import!FilesAssumption, NEW f \in Files, DOMAIN f.more # {}, NEW d, Tells(d, f.units, Len(f.units))
  PROVE  TellsAdded(d, f, Counts(f, DOMAIN f.more))
  <1> DEFINE us == f.units
             c == Counts(f, DOMAIN f.more)
  <1>1. \A m \in DOMAIN f.more : c[m] = 0 /\ Len(f.more[m]) \in Nat
    BY MoreHas, ListIs DEF Counts
  <1>2. IsCount(c, f)
    <2>1. c = [m \in DOMAIN f.more |-> c[m]]
      BY DEF Counts
    <2> HIDE DEF c
    <2> QED BY <1>1, <2>1 DEF IsCount
  <1> HIDE DEF c
  <1>3. \A i \in DOMAIN us : DOMAIN us[i].targets = {} /\ us[i].target = Absent
    BY MoreHas
  <1>4. DOMAIN us = 1..Len(us)
    BY FileHas
  <1>5. ASSUME NEW k \in DOMAIN d
        PROVE  Import!IsUnit(d[k]) /\ d[k].target = Absent /\ FromEntry(d[k], f, c) /\ Adds(d[k], f, c)
    <2>1. Import!IsUnit(d[k]) /\ OnlySays(d[k], us, Len(us))
      BY DEF Tells
    <2>2. PICK i \in DOMAIN us : d[k].id = us[i].id /\ d[k].source = us[i].source /\ d[k].target = us[i].target
      BY <1>4, <2>1 DEF OnlySays
    <2>3. \A l \in DOMAIN d[k].targets : \E j \in DOMAIN us : l \in DOMAIN us[j].targets
      BY <1>4, <2>1 DEF OnlySays
    <2>4. DOMAIN d[k].targets = {}
      BY <1>3, <2>3
    <2> QED BY <1>3, <2>1, <2>2, <2>4 DEF FromEntry, OfEntry, Adds
  <1>6. ASSUME NEW i \in DOMAIN us PROVE \E k \in DOMAIN d : d[k].source = us[i].source
    <2>1. PICK k \in DOMAIN d : Carries(d[k], us[i])
      BY <1>4 DEF Tells
    <2> QED BY <2>1 DEF Carries
  <1>7. \A m \in DOMAIN f.more : 1..c[m] = {}
    BY <1>1
  <1>8. IsList(d) /\ Import!Distinct(d)
    BY DEF Tells
  <1>9. TellsAdded(d, f, c)
    BY <1>2, <1>5, <1>6, <1>7, <1>8 DEF TellsAdded
  <1> QED BY <1>9 DEF c

LEMMA AddedSays ==
  ASSUME Import!FilesAssumption, NEW f \in Files, DOMAIN f.more # {}, NEW d, TellsAdded(d, f, Counts(f, {})), NEW locales
  PROVE  SaysAll(d, f, locales)
  <1> DEFINE c == Counts(f, {})
             L == Import!TargetLocale(locales)
             M == Import!TargetLocale(f.declared)
  <1>1. \A m \in DOMAIN f.more : c[m] = Len(f.more[m]) /\ 1..c[m] = DOMAIN f.more[m]
    BY MoreHas, ListIs DEF Counts
  <1> HIDE DEF c, L, M
  <1>2. \A i \in DOMAIN f.units : DOMAIN f.units[i].targets = {} /\ f.units[i].target = Absent
    BY MoreHas
  <1>3. \A m \in DOMAIN f.more : \A i \in DOMAIN f.more[m] : DOMAIN f.more[m][i].targets = {}
    BY MoreHas
  <1>4. /\ IsCount(c, f) /\ Import!Distinct(d)
        /\ \A k \in DOMAIN d : Import!IsUnit(d[k]) /\ d[k].target = Absent /\ FromEntry(d[k], f, c) /\ Adds(d[k], f, c)
        /\ \A i \in DOMAIN f.units : \E k \in DOMAIN d : d[k].source = f.units[i].source
        /\ \A m \in DOMAIN f.more : \A i \in 1..c[m] : \E k \in DOMAIN d : HasTarget(d[k], f.more[m][i], m)
    BY DEF TellsAdded, c
  <1>5. ASSUME NEW t PROVE t \in TextsIn(f) <=> \E m \in DOMAIN f.more : \E i \in DOMAIN f.more[m] :
                                                f.more[m][i].target # Absent /\ t = <<f.more[m][i].source, m, f.more[m][i].target>>
    <2>1. t \notin Import!AllTranslations(f.units, M)
      BY <1>2, TextsAre
    <2>2. ASSUME NEW m \in DOMAIN f.more
          PROVE  t \in Import!AllTranslations(f.more[m], m) <=>
                   \E i \in DOMAIN f.more[m] : f.more[m][i].target # Absent /\ t = <<f.more[m][i].source, m, f.more[m][i].target>>
      BY <1>3, TextsAre
    <2>3. t \in TextsIn(f) <=> \E m \in DOMAIN f.more : t \in Import!AllTranslations(f.more[m], m)
      BY <2>1 DEF TextsIn, M
    <2> QED BY <2>2, <2>3
  <1>6. ASSUME NEW t PROVE t \in Import!AllTranslations(d, L) <=>
             \E k \in DOMAIN d : \E m \in DOMAIN d[k].targets : d[k].targets[m] # Absent /\ t = <<d[k].source, m, d[k].targets[m]>>
    BY <1>4, TextsAre
  <1>7. ASSUME NEW t, t \in TextsIn(f) PROVE t \in Import!AllTranslations(d, L)
    <2>1. PICK m \in DOMAIN f.more : \E i \in DOMAIN f.more[m] :
             f.more[m][i].target # Absent /\ t = <<f.more[m][i].source, m, f.more[m][i].target>>
      BY <1>5, <1>7
    <2>2. PICK i \in DOMAIN f.more[m] : f.more[m][i].target # Absent /\ t = <<f.more[m][i].source, m, f.more[m][i].target>>
      BY <2>1
    <2>3. PICK k \in DOMAIN d : HasTarget(d[k], f.more[m][i], m)
      BY <1>1, <1>4
    <2> QED BY <1>6, <2>2, <2>3 DEF HasTarget, OfEntry
  <1>8. ASSUME NEW t, t \in Import!AllTranslations(d, L) PROVE t \in TextsIn(f)
    <2>1. PICK k \in DOMAIN d : \E m \in DOMAIN d[k].targets : d[k].targets[m] # Absent /\ t = <<d[k].source, m, d[k].targets[m]>>
      BY <1>6, <1>8
    <2>2. PICK m \in DOMAIN d[k].targets : d[k].targets[m] # Absent /\ t = <<d[k].source, m, d[k].targets[m]>>
      BY <2>1
    <2>3. m \in DOMAIN f.more /\ \E i \in DOMAIN f.more[m] : OfEntry(d[k], f.more[m][i]) /\ d[k].targets[m] = f.more[m][i].target
      BY <1>1, <1>4 DEF Adds
    <2> QED BY <1>5, <2>2, <2>3 DEF OfEntry
  <1>9. SourcesOf(d) = SourcesIn(f)
    <2>1. ASSUME NEW s, NEW e PROVE s \in SourcesOf(e) <=> \E k \in DOMAIN e : s = e[k].source
      BY DEF SourcesOf, Import!ToSet
    <2>2. ASSUME NEW s PROVE s \in SourcesIn(f) <=> \/ \E i \in DOMAIN f.units : s = f.units[i].source
                                                    \/ \E m \in DOMAIN f.more : \E i \in DOMAIN f.more[m] : s = f.more[m][i].source
      BY <2>1 DEF SourcesIn
    <2>3. ASSUME NEW k \in DOMAIN d PROVE d[k].source \in SourcesIn(f)
      <3>1. FromEntry(d[k], f, c)
        BY <1>4
      <3>2. \/ \E i \in DOMAIN f.units : OfEntry(d[k], f.units[i])
            \/ \E m \in DOMAIN f.more : \E i \in DOMAIN f.more[m] : OfEntry(d[k], f.more[m][i])
        BY <1>1, <3>1 DEF FromEntry
      <3> QED BY <2>2, <3>2 DEF OfEntry
    <2>4. ASSUME NEW s \in SourcesIn(f) PROVE s \in SourcesOf(d)
      <3>1. CASE \E i \in DOMAIN f.units : s = f.units[i].source
        BY <1>4, <2>1, <3>1
      <3>2. CASE \E m \in DOMAIN f.more : \E i \in DOMAIN f.more[m] : s = f.more[m][i].source
        <4>1. PICK m \in DOMAIN f.more : \E i \in DOMAIN f.more[m] : s = f.more[m][i].source
          BY <3>2
        <4>2. PICK i \in DOMAIN f.more[m] : s = f.more[m][i].source
          BY <4>1
        <4>3. PICK k \in DOMAIN d : HasTarget(d[k], f.more[m][i], m)
          BY <1>1, <1>4
        <4> QED BY <2>1, <4>2, <4>3 DEF HasTarget, OfEntry
      <3> QED BY <2>2, <3>1, <3>2
    <2>5. SourcesOf(d) \subseteq SourcesIn(f)
      <3>1. ASSUME NEW s \in SourcesOf(d) PROVE s \in SourcesIn(f)
        <4>1. PICK k \in DOMAIN d : s = d[k].source
          BY <2>1
        <4> QED BY <2>3, <4>1
      <3> QED BY <3>1
    <2>6. SourcesIn(f) \subseteq SourcesOf(d)
      BY <2>4
    <2> QED BY <2>5, <2>6
  <1>10. Import!AllTranslations(d, L) = TextsIn(f)
    <2>1. Import!AllTranslations(d, L) \subseteq TextsIn(f)
      BY <1>8
    <2>2. TextsIn(f) \subseteq Import!AllTranslations(d, L)
      BY <1>7
    <2> QED BY <2>1, <2>2
  <1> QED BY <1>4, <1>9, <1>10 DEF SaysAll, L

(***************************************************************************)
(* A document for every column (import_csv_targets).                       *)
(***************************************************************************)
IsCell(b, u, l) == b.id = u.id /\ b.source = u.source /\ DOMAIN b.targets = {} /\ b.target = Import!CellText(u, l)
IsColumn(d, us, n, l) == IsList(d) /\ Len(d) = n /\ \A i \in 1..n : IsCell(d[i], us[i], l)
ColumnOf(docs, l) == IF l \in DOMAIN docs THEN docs[l] ELSE <<>>
ColumnsTell(docs, f, n) == \A l \in f.declared : IsColumn(ColumnOf(docs, l), f.units, n, l)

LEMMA NoColumns ==
  ASSUME NEW f
  PROVE  ColumnsTell(<<>>, f, 0)
  <1>1. <<>> \in Seq(Import!ToSet(<<>>)) /\ Len(<<>>) = 0 /\ DOMAIN <<>> = {} /\ 1..0 = {}
    OBVIOUS
  <1> QED BY <1>1 DEF ColumnsTell, ColumnOf, IsColumn, IsList

LEMMA TakeRowTells ==
  ASSUME Import!FilesAssumption, input \in Files, NEW n \in Nat, n + 1 \in DOMAIN input.units,
         NEW docs, ColumnsTell(docs, input, n)
  PROVE  ColumnsTell(Import!TakeRow(docs, input.units[n + 1]), input, n + 1)
  <1> DEFINE us == input.units
             u == us[n + 1]
             e == Import!TakeRow(docs, u)
  <1>1. AreUnits(us) /\ DOMAIN us = 1..Len(us) /\ Import!IsUnit(u)
    BY FileHas DEF AreUnits
  <1>2. \A i \in 1..n : us[i].id # u.id
    <2>1. \A i \in 1..n : i \in DOMAIN us /\ i # n + 1
      BY <1>1, FileHas
    <2> QED BY <1>1, <2>1 DEF AreUnits, Import!Distinct
  <1> HIDE DEF us, u
  <1>3. ASSUME NEW l \in input.declared PROVE IsColumn(ColumnOf(e, l), us, n + 1, l)
    <2> DEFINE d == ColumnOf(docs, l)
               text == Import!CellText(u, l)
               c == [u EXCEPT !.target = text, !.targets = <<>>]
    <2>1. ColumnOf(e, l) = Import!Store(d, c)
      BY DEF Import!TakeRow, ColumnOf
    <2>2. IsColumn(d, us, n, l)
      BY DEF ColumnsTell, us
    <2> HIDE DEF text, d
    <2>3. c.id = u.id /\ c.source = u.source /\ c.target = text /\ c.targets = <<>>
      BY <1>1 DEF Import!IsUnit
    <2> HIDE DEF c, e
    <2>4. IsCell(c, u, l)
      <3>1. DOMAIN <<>> = {}
        OBVIOUS
      <3> QED BY <2>3, <3>1 DEF IsCell, text
    <2>5. Len(d) = n /\ DOMAIN d = 1..n /\ IsList(d)
      BY <2>2, ListIs DEF IsColumn
    <2>6. Import!At(d, c.id) = {}
      <3>1. \A i \in 1..n : d[i].id # c.id
        BY <1>2, <2>2, <2>3 DEF IsColumn, IsCell
      <3> QED BY <2>5, <3>1 DEF Import!At
    <2>7. ColumnOf(e, l) = Append(d, c)
      BY <2>1, <2>6 DEF Import!Store
    <2>8. /\ IsList(Append(d, c)) /\ Len(Append(d, c)) = n + 1 /\ Append(d, c)[n + 1] = c
          /\ \A i \in 1..n : Append(d, c)[i] = d[i]
      BY <2>5, ListAppend
    <2>9. \A i \in 1..n + 1 : IsCell(Append(d, c)[i], us[i], l)
      BY <2>2, <2>4, <2>8 DEF IsColumn, u
    <2> QED BY <2>7, <2>8, <2>9 DEF IsColumn
  <1> QED BY <1>3 DEF ColumnsTell, us, u

LEMMA ColumnsSay ==
  ASSUME Import!FilesAssumption, NEW f \in Files, f.reader \in Import!TableReaders, DOMAIN f.more = {},
         NEW docs, ColumnsTell(docs, f, Len(f.units)), NEW l \in f.declared
  PROVE  Import!AllTranslations(ColumnOf(docs, l), l) = {t \in TextsIn(f) : t[2] = l}
  <1> DEFINE us == f.units
             d == ColumnOf(docs, l)
             M == Import!TargetLocale(f.declared)
  <1>1. DOMAIN us = 1..Len(us) /\ AreUnits(us) /\ IsFiniteSet(f.declared)
    BY FileHas
  <1>2. IsColumn(d, us, Len(us), l)
    BY DEF ColumnsTell
  <1>3. DOMAIN d = DOMAIN us /\ \A i \in DOMAIN us : IsCell(d[i], us[i], l)
    BY <1>1, <1>2, ListIs DEF IsColumn
  <1>4. \A t : t \in TextsIn(f) <=> t \in Import!AllTranslations(us, M)
    BY DEF TextsIn
  <1>5. ASSUME NEW i \in DOMAIN us, us[i].target # Absent PROVE DOMAIN us[i].targets = {} /\ M = l
    <2>1. Import!OwnTextIsPlain(f, us[i])
      BY <1>5, FileHas DEF Import!ToSet
    <2>2. DOMAIN us[i].targets = {} /\ Import!Cardinality(f.declared) = 1
      BY <2>1 DEF Import!OwnTextIsPlain
    <2>3. PICK m : f.declared = {m} /\ M = m
      BY <1>1, <2>2, OneOf
    <2> QED BY <2>2, <2>3
  <1> HIDE DEF us, d, M
  <1>6. ASSUME NEW t PROVE t \in Import!AllTranslations(d, l) <=>
                             \E i \in DOMAIN us : d[i].target # Absent /\ t = <<us[i].source, l, d[i].target>>
    BY <1>3, TextsAre DEF IsCell
  <1>7. ASSUME NEW t, t \in Import!AllTranslations(d, l) PROVE t \in TextsIn(f) /\ t[2] = l
    <2>1. PICK i \in DOMAIN us : d[i].target # Absent /\ t = <<us[i].source, l, d[i].target>>
      BY <1>6, <1>7
    <2>2. d[i].target = Import!CellText(us[i], l)
      BY <1>3 DEF IsCell
    <2>3. t \in Import!AllTranslations(us, M)
      <3>1. CASE l \in DOMAIN us[i].targets
        <4>1. us[i].targets[l] # Absent /\ t = <<us[i].source, l, us[i].targets[l]>>
          BY <2>1, <2>2, <3>1 DEF Import!CellText
        <4> QED BY <3>1, <4>1, TextsAre
      <3>2. CASE l \notin DOMAIN us[i].targets
        <4>1. us[i].target # Absent /\ t = <<us[i].source, l, us[i].target>>
          BY <2>1, <2>2, <3>2 DEF Import!CellText
        <4>2. M = l
          BY <1>5, <4>1
        <4> QED BY <4>1, <4>2, TextsAre
      <3> QED BY <3>1, <3>2
    <2> QED BY <1>4, <2>1, <2>3
  <1>8. ASSUME NEW t, t \in TextsIn(f), t[2] = l PROVE t \in Import!AllTranslations(d, l)
    <2>1. PICK i \in DOMAIN us :
             \/ \E m \in DOMAIN us[i].targets : us[i].targets[m] # Absent /\ t = <<us[i].source, m, us[i].targets[m]>>
             \/ us[i].target # Absent /\ t = <<us[i].source, M, us[i].target>>
      BY <1>4, <1>8, TextsAre
    <2>2. d[i].target = Import!CellText(us[i], l)
      BY <1>3 DEF IsCell
    <2>3. CASE \E m \in DOMAIN us[i].targets : us[i].targets[m] # Absent /\ t = <<us[i].source, m, us[i].targets[m]>>
      <3>1. PICK m \in DOMAIN us[i].targets : us[i].targets[m] # Absent /\ t = <<us[i].source, m, us[i].targets[m]>>
        BY <2>3
      <3>2. m = l
        BY <1>8, <3>1
      <3>3. d[i].target = us[i].targets[l]
        BY <2>2, <3>2 DEF Import!CellText
      <3> QED BY <1>6, <3>1, <3>2, <3>3
    <2>4. CASE us[i].target # Absent /\ t = <<us[i].source, M, us[i].target>>
      <3>1. DOMAIN us[i].targets = {} /\ M = l
        BY <1>5, <2>4
      <3>2. d[i].target = us[i].target
        BY <2>2, <3>1 DEF Import!CellText
      <3> QED BY <1>6, <2>4, <3>1, <3>2
    <2> QED BY <2>1, <2>3, <2>4
  <1>9. \A t : t \in Import!AllTranslations(d, l) <=> t \in {r \in TextsIn(f) : r[2] = l}
    BY <1>7, <1>8
  <1> QED BY <1>9 DEF d

-----------------------------------------------------------------------------
(***************************************************************************)
(* The import of a file (importers.py).  What has been delivered and what  *)
(* waits to fill a batch are the units read so far; the reader of the file *)
(* is not open yet while the first unit is read ahead, and no more when    *)
(* the call is over; the locales known are those of what was read.         *)
(***************************************************************************)
Streaming == {"stream", "bridge", "batches"}
UnitsOf(f) == Seq(Import!ToSet(f.units))
IsImportJob(j) ==
  DOMAIN j = {"pc", "importer", "traits", "given", "rule", "readers", "begun", "fetched", "pulled", "locales", "doc", "docs",
              "pending", "out", "left"}
\* Where the call may be, by what it gives.
ImportStage(f, j) ==
  /\ j.pc \in {"idle", "prime", "open", "convert", "export", "native", "collect", "targets", "done", "failed", "closed", "broken"}
  /\ j.pc = "idle" => j = Import!Idle
  /\ j.pc \in {"convert", "export", "broken"} => j.traits.gives = "file"
  /\ j.pc \in {"prime", "open", "closed"} => j.traits.gives \in Streaming
  /\ j.pc \in {"native", "collect", "targets"} => j.traits.gives \notin Streaming \cup {"file"}
  /\ j.pc # "idle" => (j.traits.gives = "po_targets" <=> DOMAIN f.more # {}) /\ j.traits.reader = f.reader
\* What has been delivered.
ImportGives(f, j) ==
  /\ j.pc \in {"prime", "open", "convert", "export"} =>
       /\ j.pulled \in 0..ReadableOf(f) /\ j.out \in UnitsOf(f) /\ j.pending \in UnitsOf(f)
       /\ j.out \o j.pending = SubSeq(f.units, 1, j.pulled)
       /\ j.traits.gives # "batches" => j.pending = <<>>
  /\ j.pc \in {"prime", "convert"} => j.out = <<>>
  /\ j.pc = "done" /\ j.traits.gives \in Streaming \cup {"file"} => j.out = f.units
  /\ j.pc = "failed" /\ j.traits.gives \in Streaming => j.out = SubSeq(f.units, 1, f.failAt - 1)
\* What is open.
HeaderOf(j) == IF j.traits.probe THEN {"header"} ELSE {}
Unread(j) == j.pc = "closed" /\ ~j.begun /\ ~j.traits.closes
ImportHolds(j) ==
  /\ j.pc # "idle" => j.readers \subseteq {"main"} \cup HeaderOf(j)
  /\ j.pc \in {"prime", "convert", "targets", "done", "failed"} \/ (j.pc = "closed" /\ ~Unread(j)) => "main" \notin j.readers
\* Which locales the metadata name: those of the units that were fetched, and none was delivered
\* that was not.
NamedBy(f, n) == f.declared \cup UNION {DOMAIN f.units[i].targets : i \in 1..n}
ToldBy(j) == j.traits.metadata = "reader" \/ (j.traits.metadata = "header" /\ j.traits.reader \in Import!HeaderReaders)
ImportNames(f, j) ==
  /\ j.fetched \in Nat /\ j.pulled \in 0..j.fetched /\ j.pulled \in 0..ReadableOf(f)
  /\ j.pc = "targets" => j.left \subseteq DOMAIN f.more
  /\ ToldBy(j) /\ j.pc \in {"convert", "open", "export", "closed", "broken"} => NamedBy(f, j.pulled) \subseteq j.locales
  /\ ToldBy(j) /\ j.pc = "targets" => NamesOf(f) \cup (DOMAIN f.more \ j.left) \subseteq j.locales
  /\ ToldBy(j) /\ j.pc = "done" => NamesOf(f) \cup DOMAIN f.more \subseteq j.locales
Importing(f, j) == IsImportJob(j) /\ ImportStage(f, j) /\ ImportGives(f, j) /\ ImportHolds(j) /\ ImportNames(f, j)
ImportInv == input \in Files /\ Importing(input, job)

LEMMA AppendJoins ==
  ASSUME NEW C, NEW a \in Seq(C), NEW b \in Seq(C), NEW u \in C
  PROVE  /\ Append(a \o b, u) = a \o Append(b, u) /\ Append(b, u) \in Seq(C) /\ Append(a, u) \in Seq(C)
         /\ a \o Append(b, u) \in Seq(C) /\ <<>> \in Seq(C)
  <1>1. Append(b, u) \in Seq(C) /\ Append(a, u) \in Seq(C) /\ a \o b \in Seq(C)
    OBVIOUS
  <1>2. Append(a \o b, u) = a \o Append(b, u)
    OBVIOUS
  <1> QED BY <1>1, <1>2

LEMMA ImportFileIs ==
  ASSUME Import!FilesAssumption, NEW f \in Files
  PROVE  /\ f.units \in UnitsOf(f) /\ ReadableOf(f) \in 0..Len(f.units)
         /\ f.failAt = 0 => SubSeq(f.units, 1, ReadableOf(f)) = f.units
         /\ f.failAt > 0 => ReadableOf(f) = f.failAt - 1
         /\ \A n \in 0..ReadableOf(f) - 1 : SubSeq(f.units, 1, n + 1) = Append(SubSeq(f.units, 1, n), f.units[n + 1])
                                            /\ f.units[n + 1] \in Import!ToSet(f.units)
         /\ SubSeq(f.units, 1, 0) = <<>> /\ f.failAt \in Nat
  <1> DEFINE C == Import!ToSet(f.units)
  <1>1. f.units \in Seq(C) /\ f.failAt \in 0..Len(f.units) + 1
    BY DEF Import!FilesAssumption
  <1> HIDE DEF C
  <1>2. Len(f.units) \in Nat /\ ReadableOf(f) \in 0..Len(f.units) /\ f.failAt \in Nat
    BY <1>1 DEF ReadableOf
  <1>3. /\ SubSeq(f.units, 1, 0) = <<>> /\ SubSeq(f.units, 1, Len(f.units)) = f.units
        /\ \A n \in 0..Len(f.units) - 1 : SubSeq(f.units, 1, n + 1) = Append(SubSeq(f.units, 1, n), f.units[n + 1])
                                          /\ f.units[n + 1] \in C
    BY <1>1, PrefixIs
  <1>4. \A n \in 0..ReadableOf(f) - 1 : n \in 0..Len(f.units) - 1
    BY <1>2
  <1>5. f.failAt = 0 => ReadableOf(f) = Len(f.units)
    BY DEF ReadableOf
  <1>6. f.failAt > 0 => ReadableOf(f) = f.failAt - 1
    BY <1>2 DEF ReadableOf
  <1>7. f.units \in UnitsOf(f)
    BY <1>1 DEF C, UnitsOf
  <1> QED BY <1>2, <1>3, <1>4, <1>5, <1>6, <1>7 DEF C

LEMMA ReadableNat ==
  ASSUME Import!FilesAssumption, NEW f \in Files
  PROVE  ReadableOf(f) \in Nat
  <1>1. ReadableOf(f) \in 0..Len(f.units) /\ f.units \in Seq(Import!ToSet(f.units))
    BY ImportFileIs DEF UnitsOf
  <1> QED BY <1>1

\* What more units name is no less, and what a caller is told of so many units is what they name.
LEMMA NamedGrows ==
  ASSUME NEW f, NEW n \in Nat, NEW m \in Nat, n <= m
  PROVE  NamedBy(f, n) \subseteq NamedBy(f, m)
  <1>1. 1..n \subseteq 1..m
    OBVIOUS
  <1> QED BY <1>1 DEF NamedBy

LEMMA KnownNames ==
  ASSUME Import!FilesAssumption, input \in Files, ToldBy(job), job.traits.reader = input.reader,
         NEW n \in 0..ReadableOf(input), NEW m \in Nat, n <= m
  PROVE  NamedBy(input, n) \subseteq Import!Known(m)
  <1>1. n \in Nat /\ \A i \in 1..n : input.units[i] \in Import!ToSet(input.units)
    <2>1. input.units \in Seq(Import!ToSet(input.units)) /\ ReadableOf(input) \in 0..Len(input.units) /\ Len(input.units) \in Nat
      BY ImportFileIs DEF UnitsOf
    <2> QED BY <2>1
  <1>2. CASE job.traits.metadata = "reader"
    <2>1. Import!Known(m) = NamedBy(input, m)
      BY <1>2 DEF Import!Known, Import!LocalesOf, NamedBy
    <2> QED BY <1>1, <2>1, NamedGrows
  <1>3. CASE job.traits.metadata = "header" /\ input.reader \in Import!HeaderReaders
    <2>1. Import!Known(m) = input.declared
      BY <1>3 DEF Import!Known
    <2>2. \A u \in Import!ToSet(input.units) : DOMAIN u.targets \subseteq input.declared
      BY <1>3 DEF Import!FilesAssumption
    <2> QED BY <1>1, <2>1, <2>2 DEF NamedBy
  <1> QED BY <1>2, <1>3 DEF ToldBy

\* A unit is delivered when it has been fetched.
LEMMA FetchedReaches ==
  ASSUME Import!FilesAssumption, ImportInv
  PROVE  /\ Import!Fetched \in Nat /\ job.pulled \in Nat /\ job.pulled <= Import!Fetched
         /\ job.pulled < ReadableOf(input) => job.pulled + 1 \in 0..ReadableOf(input) /\ job.pulled + 1 \in 0..Import!Fetched
  <1> DEFINE p == job.pulled
             g == job.fetched
             r == ReadableOf(input)
             b == FetchedUnits
  <1>1. g \in Nat /\ p \in 0..g /\ p \in 0..r /\ r \in Nat /\ b \in Nat \ {0}
    <2>1. ReadableOf(input) \in Nat
      BY ReadableNat DEF ImportInv
    <2> QED BY <2>1 DEF ImportInv, Importing, ImportNames, Import!FilesAssumption
  <1>2. Import!Fetched = IF p < g THEN g ELSE IF g + b > r THEN r ELSE g + b
    BY DEF Import!Fetched, Import!Limit, ReadableOf
  <1> HIDE DEF p, g, r, b
  <1>3. Import!Fetched \in Nat /\ p \in Nat /\ p <= Import!Fetched /\ (p < r => p + 1 \in 0..r /\ p + 1 \in 0..Import!Fetched)
    BY <1>1, <1>2
  <1> QED BY <1>3 DEF p, r

LEMMA ImportBegins ==
  ASSUME Import!FilesAssumption, Import!Init
  PROVE  ImportInv
  <1>1. job = Import!Idle /\ input \in Files
    BY DEF Import!Init
  <1>2. IsImportJob(job) /\ job.pc = "idle"
    BY <1>1 DEF Import!Idle, IsImportJob
  <1>3. ImportStage(input, job) /\ ImportGives(input, job) /\ ImportHolds(job)
    BY <1>1, <1>2 DEF ImportStage, ImportGives, ImportHolds, Unread
  <1>4. ImportNames(input, job)
    <2>1. job.pulled = 0 /\ job.fetched = 0
      BY <1>1 DEF Import!Idle
    <2>2. ReadableOf(input) \in Nat
      BY <1>1, ReadableNat
    <2> QED BY <1>2, <2>1, <2>2 DEF ImportNames
  <1> QED BY <1>1, <1>2, <1>3, <1>4 DEF ImportInv, Importing

\* A call is made.
LEMMA CallImports ==
  ASSUME Import!FilesAssumption, Import!ImportersAssumption, ImportInv, NEW p, NEW progress, Import!Call(p, progress)
  PROVE  Importing(input, job')
  <1> DEFINE name == Import!Importer(Import!Readers[p].to, input.reader)
  <1> DEFINE t == Import!Importers[name]
  <1> DEFINE k == job'
  <1>1. /\ job = Import!Idle /\ name \in DOMAIN Import!Importers
        /\ t.gives = "po_targets" <=> DOMAIN input.more # {}
        /\ t.reader = input.reader
    BY DEF Import!Call, ImportInv, Importing, ImportStage
  <1>2. \E passes : k = [job EXCEPT
       !.pc = CASE t.gives = "file" -> "convert"
                [] t.gives \in {"stream", "bridge", "batches"} -> IF t.primed THEN "prime" ELSE "open"
                [] OTHER -> IF t.native /\ ~progress THEN "native" ELSE "collect",
       !.importer = name, !.traits = t, !.given = passes, !.rule = t.merge,
       !.locales = IF t.primed \/ t.metadata = "none" THEN {} ELSE input.declared,
       !.readers = (IF t.eager THEN {"main"} ELSE {}) \cup (IF t.probe THEN {"header"} ELSE {})]
    BY DEF Import!Call
  <1>3. (t.primed \/ t.gives = "file" => ~t.eager) /\ (t.primed => t.gives = "stream")
    BY <1>1 DEF Import!ImportersAssumption
  <1>4. /\ SubSeq(input.units, 1, 0) = <<>> /\ <<>> \in UnitsOf(input) /\ 0 \in 0..ReadableOf(input)
    BY ImportFileIs DEF ImportInv, UnitsOf
  <1> HIDE DEF k, t, name
  <1>5. /\ IsImportJob(k) /\ k.traits = t /\ k.out = <<>> /\ k.pending = <<>> /\ k.pulled = 0 /\ k.fetched = 0
        /\ k.locales = IF t.primed \/ t.metadata = "none" THEN {} ELSE input.declared
        /\ k.readers = (IF t.eager THEN {"main"} ELSE {}) \cup (IF t.probe THEN {"header"} ELSE {})
        /\ k.pc = CASE t.gives = "file" -> "convert"
                    [] t.gives \in {"stream", "bridge", "batches"} -> IF t.primed THEN "prime" ELSE "open"
                    [] OTHER -> IF t.native /\ ~progress THEN "native" ELSE "collect"
    BY <1>1, <1>2, ZenonT(60) DEF IsImportJob, Import!Idle
  <1>6. /\ k.pc \in {"convert", "prime", "open", "native", "collect"}
        /\ k.pc = "convert" => t.gives = "file" /\ ~t.eager
        /\ k.pc \in {"prime", "open"} => t.gives \in Streaming
        /\ k.pc = "prime" => ~t.eager
        /\ k.pc \in {"convert", "open"} => ~t.primed
        /\ k.pc \in {"native", "collect"} => t.gives \notin Streaming \cup {"file"}
    BY <1>3, <1>5 DEF Streaming
  <1>7. ImportStage(input, k)
    BY <1>1, <1>5, <1>6 DEF ImportStage
  <1>8. ImportGives(input, k)
    BY <1>4, <1>5, <1>6 DEF ImportGives
  <1>9. ImportHolds(k)
    BY <1>5, <1>6 DEF ImportHolds, HeaderOf, Unread
  <1>10. ImportNames(input, k)
    <2>1. NamedBy(input, 0) = input.declared
      <3>1. 1..0 = {}
        OBVIOUS
      <3> QED BY <3>1 DEF NamedBy
    <2> QED BY <1>4, <1>5, <1>6, <2>1 DEF ImportNames, ToldBy
  <1> QED BY <1>5, <1>7, <1>8, <1>9, <1>10 DEF Importing, k

\* A unit is read.
LEMMA TakeImports ==
  ASSUME Import!FilesAssumption, ImportInv, Import!Take
  PROVE  Importing(input, job')
  <1> DEFINE k == job'
  <1> DEFINE u == input.units[job.pulled + 1]
  <1> DEFINE batch == Append(job.pending, u)
  <1>1. Importing(input, job) /\ input \in Files
    BY DEF ImportInv
  <1>2. /\ job.pc \in {"collect", "open", "export"} /\ job.pulled < ReadableOf(input)
        /\ \E doc, docs : k =
             [job EXCEPT !.readers = @ \cup {"main"}, !.begun = TRUE, !.fetched = Import!Fetched, !.pulled = @ + 1,
                         !.locales = Import!Known(Import!Fetched),
                         !.doc = doc, !.docs = docs,
                         !.pending = IF job.traits.gives # "batches" \/ Len(batch) = FetchedUnits THEN <<>> ELSE batch,
                         !.out = IF job.pc = "collect" THEN @
                                 ELSE IF job.traits.gives # "batches" THEN Append(@, u)
                                 ELSE IF Len(batch) = FetchedUnits THEN @ \o batch ELSE @]
    BY ZenonT(30) DEF Import!Take, Import!Reading, Import!Limit, ReadableOf
  <1> HIDE DEF k, u, batch
  <1>3. /\ IsImportJob(k) /\ k.pc = job.pc /\ k.traits = job.traits /\ k.readers = job.readers \cup {"main"}
        /\ k.pulled = job.pulled + 1 /\ k.fetched = Import!Fetched /\ k.locales = Import!Known(Import!Fetched)
        /\ k.pending = IF job.traits.gives # "batches" \/ Len(batch) = FetchedUnits THEN <<>> ELSE batch
        /\ k.out = IF job.pc = "collect" THEN job.out
                   ELSE IF job.traits.gives # "batches" THEN Append(job.out, u)
                   ELSE IF Len(batch) = FetchedUnits THEN job.out \o batch ELSE job.out
    BY <1>1, <1>2 DEF Importing, IsImportJob
  <1>4. ImportStage(input, k)
    BY <1>1, <1>2, <1>3 DEF Importing, ImportStage
  <1>5. ImportHolds(k)
    BY <1>1, <1>2, <1>3 DEF Importing, ImportHolds, HeaderOf, Unread
  <1>6. ImportNames(input, k)
    <2>1. /\ Import!Fetched \in Nat /\ job.pulled + 1 \in 0..ReadableOf(input) /\ job.pulled + 1 \in 0..Import!Fetched
          /\ job.pulled + 1 <= Import!Fetched
      BY <1>2, FetchedReaches
    <2>2. job.traits.reader = input.reader
      BY <1>1, <1>2 DEF Importing, ImportStage
    <2>3. ToldBy(k) => NamedBy(input, k.pulled) \subseteq k.locales
      BY <1>1, <1>3, <2>1, <2>2, KnownNames DEF ToldBy
    <2> QED BY <1>2, <1>3, <2>1, <2>3 DEF ImportNames
  <1>7. ASSUME job.pc \in {"open", "export"} PROVE ImportGives(input, k)
    <2> DEFINE C == Import!ToSet(input.units)
    <2>8. /\ job.pulled \in 0..ReadableOf(input) /\ job.out \in Seq(C) /\ job.pending \in Seq(C)
          /\ job.out \o job.pending = SubSeq(input.units, 1, job.pulled)
          /\ job.traits.gives # "batches" => job.pending = <<>>
      BY <1>1, <1>7 DEF Importing, ImportGives, UnitsOf
    <2>9. job.pulled \in 0..ReadableOf(input) - 1 /\ ReadableOf(input) \in Nat
      BY <1>1, <1>2, <2>8, ImportFileIs
    <2>1. /\ job.pulled \in 0..ReadableOf(input) - 1 /\ job.out \in Seq(C) /\ job.pending \in Seq(C)
          /\ job.out \o job.pending = SubSeq(input.units, 1, job.pulled)
          /\ job.traits.gives # "batches" => job.pending = <<>>
          /\ SubSeq(input.units, 1, job.pulled + 1) = Append(SubSeq(input.units, 1, job.pulled), u) /\ u \in C
      BY <1>1, <2>8, <2>9, ImportFileIs DEF u
    <2> HIDE DEF C
    <2>2. Append(job.out \o job.pending, u) = job.out \o batch /\ batch \in Seq(C) /\ Append(job.out, u) \in Seq(C)
          /\ job.out \o batch \in Seq(C) /\ <<>> \in Seq(C)
      <3>1. \A a, b \in Seq(C) : \A v \in C :
              /\ Append(a \o b, v) = a \o Append(b, v) /\ Append(b, v) \in Seq(C) /\ Append(a, v) \in Seq(C)
              /\ a \o Append(b, v) \in Seq(C) /\ <<>> \in Seq(C)
        BY AppendJoins, Zenon
      <3>2. batch = Append(job.pending, u)
        BY DEF batch
      <3> QED BY <2>1, <3>1, <3>2, Zenon
    <2>3. Append(job.out, u) \o <<>> = Append(job.out, u) /\ (job.out \o batch) \o <<>> = job.out \o batch /\ job.out \o <<>> = job.out
      BY <2>1, <2>2
    <2>4. k.out \o k.pending = SubSeq(input.units, 1, k.pulled) /\ k.out \in Seq(C) /\ k.pending \in Seq(C)
          /\ (job.traits.gives # "batches" => k.pending = <<>>)
      BY <1>3, <1>7, <2>1, <2>2, <2>3
    <2>5. k.pulled \in 0..ReadableOf(input)
      <3>1. k.pulled = job.pulled + 1
        BY <1>3
      <3> QED BY <2>9, <3>1
    <2> QED BY <1>3, <1>7, <2>4, <2>5 DEF ImportGives, UnitsOf, C
  <1>8. ASSUME job.pc = "collect" PROVE ImportGives(input, k)
    BY <1>3, <1>8 DEF ImportGives
  <1> QED BY <1>2, <1>3, <1>4, <1>5, <1>6, <1>7, <1>8 DEF Importing, k

\* The file is at its end.
LEMMA FinishImports ==
  ASSUME Import!FilesAssumption, ImportInv, Import!Finish
  PROVE  Importing(input, job')
  <1> DEFINE k == job'
  <1>1. Importing(input, job) /\ input \in Files
    BY DEF ImportInv
  <1>2. /\ job.pc \in {"collect", "open", "export"} /\ job.pulled = ReadableOf(input) /\ input.failAt = 0
        /\ \E doc, docs : k = [job EXCEPT
             !.pc = IF job.traits.gives = "po_targets" THEN "targets" ELSE "done",
             !.readers = @ \ {"main"}, !.begun = TRUE, !.locales = Import!Known(ReadableOf(input)), !.left = DOMAIN input.more,
             !.doc = doc, !.docs = docs, !.out = @ \o job.pending, !.pending = <<>>]
    BY DEF Import!Finish, Import!Reading, Import!Limit, ReadableOf
  <1> HIDE DEF k
  <1>3. /\ IsImportJob(k) /\ k.traits = job.traits /\ k.readers = job.readers \ {"main"}
        /\ k.pc = (IF job.traits.gives = "po_targets" THEN "targets" ELSE "done") /\ k.out = job.out \o job.pending
        /\ k.locales = Import!Known(ReadableOf(input)) /\ k.left = DOMAIN input.more
        /\ k.pulled = job.pulled /\ k.fetched = job.fetched
    BY <1>1, <1>2 DEF Importing, IsImportJob
  <1>4. ImportStage(input, k)
    BY <1>1, <1>2, <1>3 DEF Importing, ImportStage, Streaming
  <1>5. ImportHolds(k)
    BY <1>1, <1>2, <1>3 DEF Importing, ImportStage, ImportHolds, HeaderOf, Unread
  <1>6. ASSUME ToldBy(job) PROVE NamesOf(input) \subseteq k.locales
    <2>1. job.traits.reader = input.reader /\ ReadableOf(input) \in Nat /\ ReadableOf(input) \in 0..ReadableOf(input)
      BY <1>1, <1>2, ReadableNat DEF Importing, ImportStage
    <2> QED BY <1>1, <1>3, <1>6, <2>1, KnownNames DEF NamesOf, NamedBy
  <1>7. job.traits.gives # "po_targets" => DOMAIN input.more = {}
    BY <1>1, <1>2 DEF Importing, ImportStage
  <1>8. ImportNames(input, k)
    BY <1>1, <1>3, <1>6, <1>7 DEF Importing, ImportNames, ToldBy
  <1>9. ASSUME job.traits.gives \in Streaming \cup {"file"} PROVE k.out = input.units
    <2>1. job.pc \in {"open", "export"}
      BY <1>1, <1>2, <1>9 DEF Importing, ImportStage
    <2>2. k.out = SubSeq(input.units, 1, ReadableOf(input))
      BY <1>1, <1>2, <1>3, <2>1 DEF Importing, ImportGives
    <2> QED BY <1>1, <1>2, <2>2, ImportFileIs
  <1>10. ImportGives(input, k)
    BY <1>3, <1>9 DEF ImportGives
  <1> QED BY <1>3, <1>4, <1>5, <1>8, <1>10 DEF Importing, k

\* The reader fails.
LEMMA ReaderFailsImports ==
  ASSUME Import!FilesAssumption, ImportInv, Import!ReaderFails
  PROVE  Importing(input, job')
  <1> DEFINE k == job'
  <1>1. Importing(input, job) /\ input \in Files
    BY DEF ImportInv
  <1>2. /\ job.pc \in {"collect", "open", "export"} /\ job.pulled = ReadableOf(input) /\ input.failAt > 0
        /\ k = [job EXCEPT !.pc = "failed", !.readers = @ \ {"main"}, !.doc = <<>>, !.docs = <<>>, !.out = @ \o job.pending,
                           !.pending = <<>>]
    BY DEF Import!ReaderFails, Import!Reading, Import!Limit, ReadableOf
  <1> HIDE DEF k
  <1>3. /\ IsImportJob(k) /\ k.traits = job.traits /\ k.readers = job.readers \ {"main"} /\ k.pc = "failed"
        /\ k.out = job.out \o job.pending /\ k.pulled = job.pulled /\ k.fetched = job.fetched
    BY <1>1, <1>2 DEF Importing, IsImportJob
  <1>4. ImportStage(input, k)
    BY <1>1, <1>2, <1>3 DEF Importing, ImportStage
  <1>5. ImportHolds(k) /\ ImportNames(input, k)
    BY <1>1, <1>2, <1>3 DEF Importing, ImportStage, ImportHolds, HeaderOf, Unread, ImportNames
  <1>6. ASSUME job.traits.gives \in Streaming PROVE k.out = SubSeq(input.units, 1, input.failAt - 1)
    <2>1. job.pc = "open"
      BY <1>1, <1>2, <1>6 DEF Importing, ImportStage, Streaming
    <2>2. k.out = SubSeq(input.units, 1, ReadableOf(input))
      BY <1>1, <1>2, <1>3, <2>1 DEF Importing, ImportGives
    <2>3. ReadableOf(input) = input.failAt - 1
      BY <1>1, <1>2, ImportFileIs
    <2> QED BY <2>2, <2>3
  <1>7. ImportGives(input, k)
    BY <1>3, <1>6 DEF ImportGives
  <1> QED BY <1>3, <1>4, <1>5, <1>7 DEF Importing, k

\* The first unit is read ahead.
LEMMA PrimeImports ==
  ASSUME Import!FilesAssumption, ImportInv, Import!Prime
  PROVE  Importing(input, job')
  <1> DEFINE k == job'
  <1>1. Importing(input, job) /\ input \in Files
    BY DEF ImportInv
  <1>2. /\ job.pc = "prime"
        /\ \/ k = [job EXCEPT !.pc = "open", !.readers = {"main"}, !.fetched = Import!Fetched, !.locales = Import!Known(Import!Fetched)]
           \/ k = [job EXCEPT !.pc = "open", !.locales = Import!Known(0)] /\ ~(ReadableOf(input) > 0)
           \/ k = [job EXCEPT !.pc = "failed", !.locales = Import!Known(0)] /\ ~(ReadableOf(input) > 0) /\ input.failAt # 0
    BY DEF Import!Prime, Import!Limit, ReadableOf
  <1> HIDE DEF k
  <1>3. /\ IsImportJob(k) /\ k.traits = job.traits /\ k.readers \subseteq job.readers \cup {"main"}
        /\ k.pc = "failed" => k.readers = job.readers /\ ~(ReadableOf(input) > 0) /\ input.failAt # 0
        /\ k.pc \in {"open", "failed"} /\ k.out = job.out /\ k.pending = job.pending /\ k.pulled = job.pulled
        /\ \/ k.fetched = Import!Fetched /\ k.locales = Import!Known(Import!Fetched)
           \/ k.fetched = job.fetched /\ k.locales = Import!Known(0) /\ ~(ReadableOf(input) > 0)
    BY <1>1, <1>2 DEF Importing, IsImportJob
  <1>4. ImportStage(input, k)
    BY <1>1, <1>2, <1>3 DEF Importing, ImportStage
  <1>5. ImportHolds(k)
    BY <1>1, <1>2, <1>3 DEF Importing, ImportHolds, HeaderOf, Unread
  <1>8. ImportNames(input, k)
    <2> DEFINE m == IF k.fetched = Import!Fetched /\ k.locales = Import!Known(Import!Fetched) THEN Import!Fetched ELSE 0
    <2>1. /\ Import!Fetched \in Nat /\ job.pulled \in Nat /\ job.pulled <= Import!Fetched
          /\ job.fetched \in Nat /\ job.pulled \in 0..job.fetched /\ job.pulled \in 0..ReadableOf(input)
      BY <1>1, FetchedReaches DEF Importing, ImportNames
    <2>2. job.traits.reader = input.reader /\ ReadableOf(input) \in Nat
      BY <1>1, <1>2, ReadableNat DEF Importing, ImportStage
    <2>3. k.locales = Import!Known(m) /\ m \in Nat /\ job.pulled <= m
      BY <1>3, <2>1, <2>2
    <2>4. k.fetched \in Nat /\ job.pulled \in 0..k.fetched
      BY <1>3, <2>1
    <2> HIDE DEF m
    <2>5. ToldBy(k) => NamedBy(input, k.pulled) \subseteq k.locales
      BY <1>1, <1>3, <2>1, <2>2, <2>3, KnownNames DEF ToldBy
    <2> QED BY <1>3, <2>1, <2>4, <2>5 DEF ImportNames
  <1>6. ASSUME k.pc = "failed" PROVE k.out = SubSeq(input.units, 1, input.failAt - 1)
    <2>1. input.failAt - 1 = 0
      BY <1>1, <1>3, <1>6, ImportFileIs
    <2>2. k.out = <<>>
      BY <1>1, <1>2, <1>3 DEF Importing, ImportGives
    <2>3. SubSeq(input.units, 1, 0) = <<>>
      BY <1>1, ImportFileIs
    <2> QED BY <2>1, <2>2, <2>3
  <1>7. ImportGives(input, k)
    BY <1>1, <1>2, <1>3, <1>6 DEF Importing, ImportGives
  <1> QED BY <1>3, <1>4, <1>5, <1>7, <1>8 DEF Importing, k

\* A TMX file is converted, by Rust or through a stream.
LEMMA ConvertImports ==
  ASSUME Import!FilesAssumption, ImportInv, Import!Convert
  PROVE  Importing(input, job')
  <1> DEFINE k == job'
  <1>1. Importing(input, job) /\ input \in Files
    BY DEF ImportInv
  <1>2. /\ job.pc = "convert"
        /\ \/ k = [job EXCEPT !.pc = "done", !.locales = NamesOf(input), !.out = input.units]
           \/ k = [job EXCEPT !.pc = "failed"]
           \/ k = [job EXCEPT !.pc = "export", !.readers = {"main"}]
    BY DEF Import!Convert, Import!Limit, ReadableOf, Import!LocalesOf, NamesOf
  <1> HIDE DEF k
  <1>3. /\ IsImportJob(k) /\ k.traits = job.traits /\ k.readers \subseteq job.readers \cup {"main"}
        /\ k.pc \in {"done", "failed"} => k.readers = job.readers
        /\ k.pc \in {"done", "failed", "export"} /\ k.pending = job.pending /\ k.pulled = job.pulled
        /\ k.pc = "done" => k.out = input.units /\ k.locales = NamesOf(input)
        /\ k.pc = "export" => k.out = job.out /\ k.locales = job.locales
        /\ k.fetched = job.fetched
    BY <1>1, <1>2 DEF Importing, IsImportJob
  <1>4. job.traits.gives = "file" /\ DOMAIN input.more = {}
    BY <1>1, <1>2 DEF Importing, ImportStage
  <1>5. ImportStage(input, k)
    BY <1>1, <1>2, <1>3, <1>4 DEF Importing, ImportStage
  <1>6. ImportHolds(k) /\ ImportNames(input, k)
    BY <1>1, <1>2, <1>3, <1>4 DEF Importing, ImportHolds, HeaderOf, Unread, ImportNames, ToldBy
  <1>7. ImportGives(input, k)
    BY <1>1, <1>2, <1>3, <1>4 DEF Importing, ImportGives, Streaming
  <1> QED BY <1>3, <1>5, <1>6, <1>7 DEF Importing, k

\* The targets of another PO file are added.
LEMMA AddTargetsImports ==
  ASSUME ImportInv, NEW l \in job.left, Import!AddTargets(l)
  PROVE  Importing(input, job')
  <1> DEFINE k == job'
  <1>1. Importing(input, job) /\ input \in Files
    BY DEF ImportInv
  <1>2. /\ job.pc = "targets" /\ l \in job.left
        /\ \E doc : k = [job EXCEPT !.doc = doc, !.left = @ \ {l}, !.locales = @ \cup {l},
                                    !.pc = IF job.left = {l} THEN "done" ELSE @]
    BY DEF Import!AddTargets
  <1> HIDE DEF k
  <1>3. /\ IsImportJob(k) /\ k.traits = job.traits /\ k.readers = job.readers /\ k.left = job.left \ {l}
        /\ k.locales = job.locales \cup {l} /\ k.pc = (IF job.left = {l} THEN "done" ELSE "targets")
        /\ k.pulled = job.pulled /\ k.fetched = job.fetched
    BY <1>1, <1>2 DEF Importing, IsImportJob
  <1>4. ImportStage(input, k)
    BY <1>1, <1>2, <1>3 DEF Importing, ImportStage
  <1>5. ImportHolds(k)
    BY <1>1, <1>2, <1>3 DEF Importing, ImportHolds, HeaderOf, Unread
  <1>6. ImportGives(input, k)
    BY <1>1, <1>2, <1>3 DEF Importing, ImportStage, ImportGives, Streaming
  <1>7. /\ job.left \subseteq DOMAIN input.more
        /\ ToldBy(job) => NamesOf(input) \cup (DOMAIN input.more \ job.left) \subseteq job.locales
        /\ job.fetched \in Nat /\ job.pulled \in 0..job.fetched /\ job.pulled \in 0..ReadableOf(input)
    BY <1>1, <1>2 DEF Importing, ImportNames
  <1>8. ImportNames(input, k)
    BY <1>3, <1>7 DEF ImportNames, ToldBy
  <1> QED BY <1>3, <1>4, <1>5, <1>6, <1>8 DEF Importing, k

\* Rust is tried, the stream is closed, or the exporter of a conversion fails.
LEMMA OthersImport ==
  ASSUME ImportInv, Import!TryNative \/ Import!Close \/ Import!ExporterFails
  PROVE  Importing(input, job')
  <1> DEFINE k == job'
  <1>1. Importing(input, job) /\ input \in Files
    BY DEF ImportInv
  <1>2. CASE Import!TryNative
    <2>1. job.pc = "native" /\ \E rule : k = [job EXCEPT !.pc = "collect", !.rule = rule]
      BY <1>2 DEF Import!TryNative
    <2> HIDE DEF k
    <2>2. IsImportJob(k) /\ k.pc = "collect" /\ k.traits = job.traits /\ k.readers = job.readers /\ k.pulled = job.pulled
          /\ k.fetched = job.fetched
      BY <1>1, <2>1 DEF Importing, IsImportJob
    <2> QED BY <1>1, <2>1, <2>2 DEF Importing, ImportStage, ImportGives, ImportHolds, HeaderOf, Unread, ImportNames, ToldBy, k
  <1>3. CASE Import!Close
    <2>1. job.pc = "open"
          /\ k = [job EXCEPT !.pc = "closed", !.readers = IF job.traits.closes \/ job.begun THEN @ \ {"main"} ELSE @,
                             !.pending = <<>>]
      BY <1>3 DEF Import!Close
    <2> HIDE DEF k
    <2>2. /\ IsImportJob(k) /\ k.pc = "closed" /\ k.traits = job.traits /\ k.begun = job.begun
          /\ k.pulled = job.pulled /\ k.fetched = job.fetched /\ k.locales = job.locales
          /\ k.readers = IF job.traits.closes \/ job.begun THEN job.readers \ {"main"} ELSE job.readers
      BY <1>1, <2>1 DEF Importing, IsImportJob
    <2> QED BY <1>1, <2>1, <2>2 DEF Importing, ImportStage, ImportGives, ImportHolds, HeaderOf, Unread, ImportNames, ToldBy, k
  <1>4. CASE Import!ExporterFails
    <2>1. job.pc = "export" /\ k = [job EXCEPT !.pc = "broken"]
      BY <1>4 DEF Import!ExporterFails
    <2> HIDE DEF k
    <2>2. IsImportJob(k) /\ k.pc = "broken" /\ k.traits = job.traits /\ k.readers = job.readers /\ k.pulled = job.pulled
          /\ k.fetched = job.fetched /\ k.locales = job.locales
      BY <1>1, <2>1 DEF Importing, IsImportJob
    <2> QED BY <1>1, <2>1, <2>2 DEF Importing, ImportStage, ImportGives, ImportHolds, HeaderOf, Unread, ImportNames, ToldBy, k
  <1> QED BY <1>2, <1>3, <1>4

LEMMA ImportNext ==
  ASSUME Import!FilesAssumption, Import!ImportersAssumption, ImportInv, [Import!Next]_(Import!vars)
  PROVE  ImportInv'
  <1>1. CASE Import!Next
    <2>1. input' = input
      BY <1>1 DEF Import!Next, Import!Call, Import!TryNative, Import!Take, Import!Finish, Import!ReaderFails, Import!Prime,
           Import!Close, Import!Convert, Import!ExporterFails, Import!AddTargets
    <2>2. Importing(input, job')
      BY <1>1, CallImports, TakeImports, FinishImports, ReaderFailsImports, PrimeImports, ConvertImports, AddTargetsImports,
         OthersImport DEF Import!Next
    <2> QED BY <2>1, <2>2 DEF ImportInv
  <1>2. CASE UNCHANGED Import!vars
    BY <1>2 DEF Import!vars, ImportInv
  <1> QED BY <1>1, <1>2

\* What a call has of the file.  It goes by the row of its importer; a document is filled from
\* the first unit on, and what its caller gets says all that the file says.
ByTable(f, j) ==
  /\ j.traits.reader = f.reader /\ j.given \subseteq j.traits.takes /\ j.rule \in Rules
  /\ j.importer = "import_xliff" => j.traits.reader = "xliff" /\ j.traits.metadata = "reader" /\ j.traits.gives = "document"
  /\ j.traits.gives \in {"document", "documents", "po_targets"} => j.traits.metadata \in {"reader", "header"}
  /\ j.traits.gives = "documents" => f.reader \in Import!TableReaders
Telling(f, j) ==
  /\ j.pc # "idle" => ByTable(f, j)
  /\ j.pc = "native" => j.pulled = 0 /\ j.doc = <<>> /\ j.docs = <<>>
  /\ j.pc = "collect" =>
       /\ j.pulled \in 0..ReadableOf(f)
       /\ IF j.traits.gives = "documents" THEN ColumnsTell(j.docs, f, j.pulled) ELSE Tells(j.doc, f.units, j.pulled)
  /\ j.pc = "targets" => j.left # {} /\ TellsAdded(j.doc, f, Counts(f, j.left))
  /\ j.pc = "done" =>
       /\ j.traits.gives \in {"document", "po_targets"} => SaysAll(j.doc, f, j.locales)
       /\ j.traits.gives = "documents" =>
            \A l \in f.declared : Import!AllTranslations(j.docs[l], l) = {t \in TextsIn(f) : t[2] = l}

LEMMA TellingBegins ==
  ASSUME Import!Init
  PROVE  Telling(input, job)
  <1>1. job.pc = "idle"
    BY DEF Import!Init, Import!Idle
  <1> QED BY <1>1 DEF Telling

LEMMA CallTells ==
  ASSUME Import!ImportersAssumption, Import!FilesAssumption, ImportInv, NEW p \in DOMAIN Import!Readers, NEW progress,
         Import!Call(p, progress)
  PROVE  Telling(input, job')
  <1> DEFINE name == Import!Importer(Import!Readers[p].to, input.reader)
             t == Import!Importers[name]
             k == job'
  <1>1. job = Import!Idle /\ name \in DOMAIN Import!Importers /\ t.reader = input.reader
    BY DEF Import!Call, ImportInv, Importing, ImportStage
  <1>3. /\ t.gives = "documents" => t.reader \in Import!TableReaders
        /\ t.merge \in {"each", "end", "last"}
        /\ name = "import_xliff" => t.reader = "xliff" /\ t.metadata = "reader" /\ t.gives = "document"
        /\ t.gives \in {"document", "documents", "po_targets"} => t.metadata \in {"reader", "header"}
        /\ Import!Readers[p].passes \subseteq t.takes
    BY <1>1 DEF Import!ImportersAssumption
  <1>4. \E pc \in {"convert", "prime", "open", "native", "collect"} : \E readers, locales : k =
          [job EXCEPT !.pc = pc, !.importer = name, !.traits = t, !.given = Import!Readers[p].passes, !.rule = t.merge,
                      !.locales = locales, !.readers = readers]
    <2> DEFINE at == CASE t.gives = "file" -> "convert"
                       [] t.gives \in {"stream", "bridge", "batches"} -> IF t.primed THEN "prime" ELSE "open"
                       [] OTHER -> IF t.native /\ ~progress THEN "native" ELSE "collect"
               named == IF t.primed \/ t.metadata = "none" THEN {} ELSE input.declared
               opened == (IF t.eager THEN {"main"} ELSE {}) \cup (IF t.probe THEN {"header"} ELSE {})
    <2>1. at \in {"convert", "prime", "open", "native", "collect"}
      OBVIOUS
    <2>2. k = [job EXCEPT !.pc = at, !.importer = name, !.traits = t, !.given = Import!Readers[p].passes, !.rule = t.merge,
                          !.locales = named, !.readers = opened]
      BY DEF Import!Call
    <2> HIDE DEF k, t, name, at, named, opened
    <2> QED BY <2>1, <2>2
  <1> HIDE DEF k, t, name
  <1>5. /\ k.importer = name /\ k.traits = t /\ k.given = Import!Readers[p].passes /\ k.rule = t.merge
        /\ k.pc \in {"convert", "prime", "open", "native", "collect"} /\ k.pulled = 0 /\ k.doc = <<>> /\ k.docs = <<>>
    BY <1>1, <1>4, ZenonT(30) DEF Import!Idle
  <1>6. ByTable(input, k)
    BY <1>1, <1>3, <1>5 DEF ByTable, Rules
  <1>7. /\ 0 \in 0..ReadableOf(input) /\ ColumnsTell(<<>>, input, 0) /\ Tells(<<>>, input.units, 0)
    BY FileHas, NoColumns, TellsNothing DEF ImportInv
  <1> QED BY <1>5, <1>6, <1>7 DEF Telling, k

\* A unit is read.
LEMMA TakeTelling ==
  ASSUME Import!FilesAssumption, ImportInv, Telling(input, job), Import!Take
  PROVE  Telling(input, job')
  <1> DEFINE us == input.units
             n == job.pulled
             u == us[n + 1]
             k == job'
  <1>1. /\ IsImportJob(job) /\ input \in Files /\ job.pc \in {"collect", "open", "export"} /\ n < ReadableOf(input)
        /\ ByTable(input, job)
    BY DEF ImportInv, Importing, Import!Take, Import!Reading, Import!Limit, ReadableOf, Telling
  <1>2. \E readers, fetched, locales, pending, out : k =
          [job EXCEPT !.readers = readers, !.begun = TRUE, !.fetched = fetched, !.pulled = n + 1, !.locales = locales,
                      !.doc = IF job.pc = "collect" /\ job.traits.gives # "documents" THEN Import!TakeInto(job.doc, u, locales)
                              ELSE job.doc,
                      !.docs = IF job.traits.gives = "documents" THEN Import!TakeRow(job.docs, u) ELSE job.docs,
                      !.pending = pending, !.out = out]
    BY ZenonT(60) DEF Import!Take
  <1> HIDE DEF k
  <1>3. /\ k.pc = job.pc /\ k.traits = job.traits /\ k.importer = job.importer /\ k.given = job.given /\ k.rule = job.rule
        /\ k.pulled = n + 1
        /\ k.docs = IF job.traits.gives = "documents" THEN Import!TakeRow(job.docs, u) ELSE job.docs
        /\ \E locales : k.doc = IF job.pc = "collect" /\ job.traits.gives # "documents" THEN Import!TakeInto(job.doc, u, locales)
                                ELSE job.doc
    BY <1>1, <1>2 DEF IsImportJob
  <1>4. ByTable(input, k)
    BY <1>1, <1>3 DEF ByTable
  <1>5. ASSUME job.pc = "collect"
        PROVE  /\ k.pulled \in 0..ReadableOf(input)
               /\ IF k.traits.gives = "documents" THEN ColumnsTell(k.docs, input, k.pulled) ELSE Tells(k.doc, us, k.pulled)
    <2>1. /\ n \in 0..ReadableOf(input)
          /\ IF job.traits.gives = "documents" THEN ColumnsTell(job.docs, input, n) ELSE Tells(job.doc, us, n)
      BY <1>5 DEF Telling
    <2>2. AreUnits(us) /\ DOMAIN us = 1..Len(us) /\ ReadableOf(input) \in 0..Len(us) /\ Len(us) \in Nat
      BY <1>1, FileHas
    <2>3. n \in Nat /\ n + 1 \in DOMAIN us /\ n + 1 \in 0..ReadableOf(input)
      BY <1>1, <2>1, <2>2
    <2> HIDE DEF us, n, u
    <2>4. CASE job.traits.gives = "documents"
      <3>1. ColumnsTell(Import!TakeRow(job.docs, u), input, n + 1)
        BY <1>1, <2>1, <2>3, <2>4, TakeRowTells DEF us, u
      <3> QED BY <1>3, <2>3, <2>4, <3>1
    <2>5. CASE job.traits.gives # "documents"
      <3>1. PICK locales : k.doc = Import!TakeInto(job.doc, u, locales)
        BY <1>3, <1>5, <2>5
      <3>2. job.rule \in Rules
        BY <1>1 DEF ByTable
      <3>3. Tells(Import!TakeInto(job.doc, u, locales), us, n + 1)
        BY <2>1, <2>2, <2>3, <2>5, <3>2, TakeTells DEF u
      <3> QED BY <1>3, <2>3, <2>5, <3>1, <3>3
    <2> QED BY <2>4, <2>5
  <1> HIDE DEF n
  <1> QED BY <1>1, <1>3, <1>4, <1>5 DEF Telling, k

\* The file is at its end.
LEMMA FinishTells ==
  ASSUME Import!FilesAssumption, ImportInv, Telling(input, job), Import!Finish
  PROVE  Telling(input, job')
  <1> DEFINE k == job'
             locales == Import!Known(ReadableOf(input))
             columns == job.traits.gives = "documents"
  <1>1. /\ IsImportJob(job) /\ ImportStage(input, job) /\ input \in Files /\ job.pc \in {"collect", "open", "export"}
        /\ job.pulled = ReadableOf(input) /\ input.failAt = 0 /\ ByTable(input, job)
    BY DEF ImportInv, Importing, Import!Finish, Import!Reading, Import!Limit, ReadableOf, Telling
  <1>2. \E readers, out : k = [job EXCEPT
           !.pc = IF job.traits.gives = "po_targets" THEN "targets" ELSE "done",
           !.readers = readers, !.begun = TRUE, !.locales = locales, !.left = DOMAIN input.more,
           !.doc = Import!Built(job.doc, locales), !.docs = IF columns THEN Import!EveryColumn(job.docs) ELSE job.docs,
           !.out = out, !.pending = <<>>]
    BY ZenonT(30) DEF Import!Finish, Import!Limit, ReadableOf
  <1> HIDE DEF k
  <1>3. /\ k.pc = (IF job.traits.gives = "po_targets" THEN "targets" ELSE "done") /\ k.traits = job.traits
        /\ k.importer = job.importer /\ k.given = job.given /\ k.rule = job.rule /\ k.locales = locales
        /\ k.left = DOMAIN input.more /\ k.doc = Import!Built(job.doc, locales)
        /\ k.docs = IF columns THEN Import!EveryColumn(job.docs) ELSE job.docs
    BY <1>1, <1>2 DEF IsImportJob
  <1>4. ByTable(input, k)
    BY <1>1, <1>3 DEF ByTable
  <1>5. /\ job.traits.metadata \in {"reader", "header"} => locales \in {input.declared, NamesOf(input)}
        /\ job.traits.metadata = "reader" => locales = NamesOf(input)
    BY DEF Import!Known, Import!LocalesOf, NamesOf
  <1>6. Len(input.units) = ReadableOf(input)
    BY <1>1, FileHas
  <1>7. job.traits.gives = "po_targets" <=> DOMAIN input.more # {}
    BY <1>1 DEF ImportStage
  <1>8. job.importer = "import_xliff" => input.reader = "xliff" /\ locales = NamesOf(input) /\ job.traits.gives = "document"
    BY <1>1, <1>5 DEF ByTable
  <1> HIDE DEF locales, columns
  <1>9. ASSUME job.traits.gives \in {"document", "po_targets", "documents"} PROVE job.pc = "collect"
    BY <1>1, <1>9 DEF ImportStage, Streaming
  <1>10. ASSUME job.traits.gives = "document" PROVE SaysAll(k.doc, input, k.locales)
    <2>1. Tells(job.doc, input.units, Len(input.units))
      BY <1>1, <1>6, <1>9, <1>10 DEF Telling
    <2>2. locales \in {input.declared, NamesOf(input)}
      BY <1>1, <1>5, <1>10 DEF ByTable
    <2> QED BY <1>1, <1>3, <1>7, <1>8, <1>10, <2>1, <2>2, BuiltSays
  <1>11. ASSUME job.traits.gives = "po_targets" PROVE k.left # {} /\ TellsAdded(k.doc, input, Counts(input, k.left))
    <2>1. Tells(job.doc, input.units, Len(input.units))
      BY <1>1, <1>6, <1>9, <1>11 DEF Telling
    <2>2. k.doc = job.doc
      BY <1>3, <1>8, <1>11 DEF Import!Built
    <2> QED BY <1>1, <1>3, <1>7, <1>11, <2>1, <2>2, NothingAdded
  <1>12. ASSUME job.traits.gives = "documents", NEW l \in input.declared
         PROVE  Import!AllTranslations(k.docs[l], l) = {t \in TextsIn(input) : t[2] = l}
    <2>1. ColumnsTell(job.docs, input, Len(input.units))
      BY <1>1, <1>6, <1>9, <1>12 DEF Telling
    <2>2. input.reader \in Import!TableReaders /\ DOMAIN input.more = {}
      BY <1>1, <1>7, <1>12 DEF ByTable
    <2>3. k.docs[l] = ColumnOf(job.docs, l)
      BY <1>3, <1>12 DEF columns, Import!EveryColumn, ColumnOf
    <2> QED BY <1>1, <2>1, <2>2, <2>3, ColumnsSay
  <1> QED BY <1>1, <1>3, <1>4, <1>10, <1>11, <1>12 DEF Telling, k

\* The targets of another PO file are added.
LEMMA AddTargetsTells ==
  ASSUME Import!FilesAssumption, ImportInv, Telling(input, job), NEW l \in job.left, Import!AddTargets(l)
  PROVE  Telling(input, job')
  <1> DEFINE k == job'
             c == Counts(input, job.left)
  <1>1. /\ IsImportJob(job) /\ ImportStage(input, job) /\ input \in Files /\ job.pc = "targets" /\ ByTable(input, job)
        /\ job.left \subseteq DOMAIN input.more /\ TellsAdded(job.doc, input, c)
        /\ k = [job EXCEPT !.doc = Import!WithTargets(job.doc, input.more[l], l), !.left = job.left \ {l},
                           !.locales = job.locales \cup {l}, !.pc = IF job.left = {l} THEN "done" ELSE job.pc]
    BY DEF ImportInv, Importing, ImportNames, Import!AddTargets, Telling
  <1> HIDE DEF k
  <1>2. /\ k.pc = (IF job.left = {l} THEN "done" ELSE "targets") /\ k.traits = job.traits /\ k.importer = job.importer
        /\ k.given = job.given /\ k.rule = job.rule /\ k.left = job.left \ {l}
        /\ k.doc = Import!WithTargets(job.doc, input.more[l], l)
    BY <1>1 DEF IsImportJob
  <1>3. ByTable(input, k)
    BY <1>1, <1>2 DEF ByTable
  <1>4. l \in DOMAIN input.more /\ c[l] = 0
    BY <1>1 DEF Counts
  <1>5. WithCount(c, l, Len(input.more[l])) = Counts(input, k.left)
    BY <1>1, <1>2, <1>4 DEF WithCount, Counts
  <1> HIDE DEF c
  <1>6. TellsAdded(k.doc, input, Counts(input, k.left))
    BY <1>1, <1>2, <1>4, <1>5, WithTargetsTells
  <1>7. job.traits.gives # "documents" /\ DOMAIN input.more # {}
    BY <1>1, <1>4 DEF ImportStage
  <1>8. ASSUME job.left = {l} PROVE SaysAll(k.doc, input, k.locales)
    <2>1. k.left = {}
      BY <1>2, <1>8
    <2> QED BY <1>1, <1>6, <1>7, <2>1, AddedSays
  <1>9. job.left # {l} => k.left # {}
    BY <1>2
  <1> QED BY <1>2, <1>3, <1>6, <1>7, <1>8, <1>9 DEF Telling, k

\* Rust is tried; the other steps are not those of a document.
LEMMA OthersTell ==
  ASSUME ImportInv, Telling(input, job), Import!FilesAssumption,
         Import!TryNative \/ Import!ReaderFails \/ Import!Prime \/ Import!Close \/ Import!Convert \/ Import!ExporterFails
  PROVE  Telling(input, job')
  <1> DEFINE k == job'
  <1>1. IsImportJob(job) /\ ImportStage(input, job) /\ input \in Files
    BY DEF ImportInv, Importing
  <1>2. CASE Import!TryNative
    <2>1. job.pc = "native" /\ \E rule \in {"native", job.rule} : k = [job EXCEPT !.pc = "collect", !.rule = rule]
      BY <1>2 DEF Import!TryNative
    <2> HIDE DEF k
    <2>2. /\ k.pc = "collect" /\ k.traits = job.traits /\ k.rule \in {"native", job.rule} /\ k.importer = job.importer
          /\ k.given = job.given /\ k.pulled = job.pulled /\ k.doc = job.doc /\ k.docs = job.docs
      BY <1>1, <2>1 DEF IsImportJob
    <2>3. ByTable(input, k)
      BY <2>1, <2>2 DEF Telling, ByTable, Rules
    <2>4. k.pulled = 0 /\ k.doc = <<>> /\ k.docs = <<>>
      BY <2>1, <2>2 DEF Telling
    <2>5. /\ 0 \in 0..ReadableOf(input) /\ ColumnsTell(<<>>, input, 0) /\ Tells(<<>>, input.units, 0)
      BY <1>1, FileHas, NoColumns, TellsNothing
    <2> QED BY <2>2, <2>3, <2>4, <2>5 DEF Telling, k
  <1>3. ASSUME Import!ReaderFails \/ Import!Prime \/ Import!Close \/ Import!Convert \/ Import!ExporterFails
        PROVE  /\ job.pc # "idle" /\ k.pc \in {"failed", "open", "closed", "done", "export", "broken"}
               /\ k.pc = "done" => job.traits.gives = "file"
               /\ k.traits = job.traits /\ k.rule = job.rule /\ k.importer = job.importer /\ k.given = job.given
    <2>1. CASE Import!ReaderFails
      <3>1. /\ job.pc # "idle"
            /\ k = [job EXCEPT !.pc = "failed", !.readers = @ \ {"main"}, !.doc = <<>>, !.docs = <<>>, !.out = @ \o job.pending,
                               !.pending = <<>>]
        BY <2>1 DEF Import!ReaderFails, Import!Reading
      <3> HIDE DEF k
      <3> QED BY <1>1, <3>1 DEF IsImportJob
    <2>2. CASE Import!Prime
      <3>1. /\ job.pc # "idle"
            /\ \/ \E fetched, locales : k = [job EXCEPT !.pc = "open", !.readers = {"main"}, !.fetched = fetched, !.locales = locales]
               \/ \E locales : \E pc \in {"open", "failed"} : k = [job EXCEPT !.pc = pc, !.locales = locales]
        BY <2>2 DEF Import!Prime
      <3> HIDE DEF k
      <3> QED BY <1>1, <3>1 DEF IsImportJob
    <2>3. CASE Import!Close
      <3>1. /\ job.pc # "idle" /\ \E readers : k = [job EXCEPT !.pc = "closed", !.readers = readers, !.pending = <<>>]
        BY <2>3 DEF Import!Close
      <3> HIDE DEF k
      <3> QED BY <1>1, <3>1 DEF IsImportJob
    <2>4. CASE Import!Convert
      <3>1. /\ job.pc = "convert"
            /\ \/ \E locales : k = [job EXCEPT !.pc = "done", !.locales = locales, !.out = input.units]
               \/ k = [job EXCEPT !.pc = "failed"]
               \/ k = [job EXCEPT !.pc = "export", !.readers = {"main"}]
        BY <2>4 DEF Import!Convert
      <3> HIDE DEF k
      <3> QED BY <1>1, <3>1 DEF IsImportJob, ImportStage
    <2>5. CASE Import!ExporterFails
      <3>1. job.pc = "export" /\ k = [job EXCEPT !.pc = "broken"]
        BY <2>5 DEF Import!ExporterFails
      <3> HIDE DEF k
      <3> QED BY <1>1, <3>1 DEF IsImportJob
    <2> QED BY <1>3, <2>1, <2>2, <2>3, <2>4, <2>5
  <1>4. CASE ~Import!TryNative
    <2> HIDE DEF k
    <2>1. /\ job.pc # "idle" /\ k.pc \in {"failed", "open", "closed", "done", "export", "broken"}
          /\ k.pc = "done" => job.traits.gives = "file"
          /\ k.traits = job.traits /\ k.rule = job.rule /\ k.importer = job.importer /\ k.given = job.given
      BY <1>3, <1>4
    <2>2. ByTable(input, k)
      BY <2>1 DEF Telling, ByTable
    <2> QED BY <2>1, <2>2 DEF Telling, k
  <1> QED BY <1>2, <1>4

TellingInv == ImportInv /\ Telling(input, job)

LEMMA TellingNext ==
  ASSUME Import!FilesAssumption, Import!ImportersAssumption, TellingInv, [Import!Next]_(Import!vars)
  PROVE  TellingInv'
  <1>1. ImportInv'
    BY ImportNext DEF TellingInv
  <1>2. CASE Import!Next
    <2>1. input' = input
      BY <1>2 DEF Import!Next, Import!Call, Import!TryNative, Import!Take, Import!Finish, Import!ReaderFails, Import!Prime,
           Import!Close, Import!Convert, Import!ExporterFails, Import!AddTargets
    <2>2. Telling(input, job')
      BY <1>2, CallTells, TakeTelling, FinishTells, AddTargetsTells, OthersTell DEF Import!Next, TellingInv
    <2> QED BY <1>1, <2>1, <2>2 DEF TellingInv
  <1>3. CASE UNCHANGED Import!vars
    BY <1>1, <1>3 DEF Import!vars, TellingInv
  <1> QED BY <1>2, <1>3

\* The import of a file: the invariant holds in every behaviour.
THEOREM ImportInvariant ==
  ASSUME Import!FilesAssumption, Import!ImportersAssumption
  PROVE  Import!Spec => []TellingInv
  <1>1. Import!Init => TellingInv
    BY ImportBegins, TellingBegins DEF TellingInv
  <1>2. TellingInv /\ [Import!Next]_(Import!vars) => TellingInv'
    BY TellingNext
  <1> QED BY <1>1, <1>2, PTL DEF Import!Spec

LEMMA TellingAgrees ==
  ASSUME Telling(input, job)
  PROVE  Import!RoutesAgree
  <1>1. Import!FileTranslations = TextsIn(input)
    BY DEF Import!FileTranslations, TextsIn
  <1>2. job.pc # "idle" => job.given \subseteq job.traits.takes
    BY DEF Telling, ByTable
  <1>3. ASSUME job.pc = "done", job.traits.gives \in {"document", "po_targets"}
        PROVE  /\ Import!AllTranslations(job.doc, Import!TargetLocale(job.locales)) = Import!FileTranslations
               /\ \A i, j \in DOMAIN job.doc : job.doc[i].id = job.doc[j].id => i = j
               /\ {u.source : u \in Import!ToSet(job.doc)} = {u.source : u \in Import!ToSet(input.units)} \cup
                     UNION {{u.source : u \in Import!ToSet(input.more[l])} : l \in DOMAIN input.more}
    <2>1. SaysAll(job.doc, input, job.locales)
      BY <1>3 DEF Telling
    <2> QED BY <1>1, <2>1 DEF SaysAll, Import!Distinct, SourcesIn, SourcesOf
  <1>4. ASSUME job.pc = "done", job.traits.gives = "documents"
        PROVE  \A l \in input.declared : Import!AllTranslations(job.docs[l], l) = {t \in Import!FileTranslations : t[2] = l}
    BY <1>1, <1>4 DEF Telling
  <1> QED BY <1>2, <1>3, <1>4, Zenon DEF Import!RoutesAgree

LEMMA ImportDelivers ==
  ASSUME Import!FilesAssumption, ImportInv
  PROVE  Import!UnitsDelivered /\ Import!MetadataComplete /\ Import!ReadersClosed
  <1>1. Importing(input, job)
    BY DEF ImportInv
  <1>2. Import!UnitsDelivered
    BY <1>1 DEF Importing, ImportGives, Streaming, Import!UnitsDelivered
  <1>3. Import!MetadataComplete
    <2>1. /\ Import!Told <=> ToldBy(job)
          /\ \A n : Import!LocalesOf(n) = NamedBy(input, n)
          /\ Import!LocalesOf(Import!Limit) = NamesOf(input)
      BY DEF Import!Told, ToldBy, Import!LocalesOf, NamedBy, NamesOf, Import!Limit, ReadableOf
    <2>2. NamedBy(input, job.pulled) \subseteq NamesOf(input)
      <3>1. job.pulled \in Nat /\ ReadableOf(input) \in Nat /\ job.pulled <= ReadableOf(input)
        BY <1>1, ReadableNat DEF Importing, ImportNames, ImportInv
      <3> QED BY <3>1, NamedGrows DEF NamesOf, NamedBy
    <2> QED BY <1>1, <2>1, <2>2 DEF Importing, ImportNames, Import!MetadataComplete
  <1>4. Import!ReadersClosed
    <2>1. /\ job.pc # "idle" => job.readers \subseteq {"main"} \cup HeaderOf(job)
          /\ job.pc \in {"done", "failed"} \/ (job.pc = "closed" /\ ~Unread(job)) => "main" \notin job.readers
      BY <1>1 DEF Importing, ImportHolds
    <2>2. Import!LeftOpen = HeaderOf(job) \cup (IF job.pc = "broken" \/ Unread(job) THEN {"main"} ELSE {})
      BY DEF Import!LeftOpen, HeaderOf, Unread
    <2> QED BY <2>1, <2>2 DEF Import!ReadersClosed
  <1> QED BY <1>2, <1>3, <1>4

-----------------------------------------------------------------------------
(***************************************************************************)
(* What the exporters write (exporters, data/targets.py): out of which     *)
(* unit, under which locale.                                               *)
(***************************************************************************)
\* Locales, with the one of texts that name none, which the caller may have chosen
IsLocales(S) == IsFiniteSet(S) /\ Absent \notin S
IsMeta(m, chosen) ==
  /\ IsLocales(m.locales) /\ chosen \in {Absent, ChosenLocale}
  /\ m = IF chosen = Absent THEN Export!Meta(m.locales) ELSE [locale |-> ChosenLocale, locales |-> m.locales]
CoveredBy(us, locales) == \A i \in DOMAIN us : DOMAIN us[i].targets \subseteq locales

Says(t, u, l, text) == text # Absent /\ l # Absent /\ t = <<u.id, l, text>>

LEMMA OwnHas ==
  ASSUME NEW us, NEW l, NEW t
  PROVE  t \in Export!Own(us, l) <=> \E i \in DOMAIN us : Says(t, us[i], l, us[i].target)
  BY DEF Export!Own, Export!Each, Export!Text, Says

LEMMA LocalizedHas ==
  ASSUME NEW us, NEW t
  PROVE  t \in Export!Localized(us) <=>
           \E i \in DOMAIN us : \E l \in DOMAIN us[i].targets : Says(t, us[i], l, us[i].targets[l].text)
  BY DEF Export!Localized, Export!Each, Export!Text, Says

LEMMA SingleHas ==
  ASSUME NEW us, NEW l, NEW t
  PROVE  t \in Export!XliffSingle(us, l) <=> \E i \in DOMAIN us : Says(t, us[i], l, Export!XliffSelected(us[i], l))
  BY DEF Export!XliffSingle, Export!Each, Export!Text, Says

LEMMA ColumnHas ==
  ASSUME NEW us, NEW l, NEW t
  PROVE  t \in Export!TextOf(us, l) <=> \E i \in DOMAIN us : Says(t, us[i], l, Export!TargetText(us[i], l))
  BY DEF Export!TextOf, Export!Each, Export!Text, Says

\* A split that leaves no unit out has every unit of the document in every part.
LEMMA KeptAll ==
  ASSUME NEW C, NEW s \in Seq(C), NEW l, NEW legacy
  PROVE  KeptOf(s, <<l, legacy, TRUE>>) = s
  <1> DEFINE n == Len(s)
             r == <<l, legacy, TRUE>>
  <1>1. PICK h : IsKept(h, s, r) /\ KeptOf(s, r) = h[n]
    BY KeptSteps
  <1>2. n \in Nat /\ s = [i \in 1..n |-> s[i]] /\ \A m \in 0..n - 1 : s[m + 1] \in C
    OBVIOUS
  <1> DEFINE Upto(q, m) == q \in Seq(C) /\ Len(q) = m /\ \A i \in 1..m : q[i] = s[i]
             S == {m \in 0..n : Upto(h[m], m)}
  <1>3. 0 \in S
    <2>1. h[0] = <<>>
      BY <1>1 DEF IsKept
    <2>2. Upto(<<>>, 0) /\ 0 \in 0..n
      BY <1>2
    <2> HIDE DEF Upto
    <2> QED BY <2>1, <2>2
  <1>4. ASSUME NEW m \in 0..n - 1, Upto(h[m], m) PROVE Upto(h[m + 1], m + 1)
    <2>1. h[m + 1] = Append(h[m], s[m + 1])
      BY <1>1 DEF IsKept, Keeps, Split!Kept
    <2> DEFINE q == h[m]
               u == s[m + 1]
    <2>2. q \in Seq(C) /\ Len(q) = m /\ (\A i \in 1..m : q[i] = s[i]) /\ u \in C
      BY <1>2, <1>4
    <2> HIDE DEF q, u
    <2>3. Append(q, u) \in Seq(C) /\ Len(Append(q, u)) = m + 1 /\ Append(q, u)[m + 1] = u /\ \A i \in 1..m : Append(q, u)[i] = q[i]
      BY <2>2, AppendProperties
    <2>4. \A i \in 1..m + 1 : Append(q, u)[i] = s[i]
      BY <2>2, <2>3 DEF u
    <2> QED BY <2>1, <2>3, <2>4 DEF q, u
  <1> HIDE DEF n, Upto
  <1>5. \A m \in 0..n - 1 : m \in S => m + 1 \in S
    BY <1>2, <1>4
  <1>6. 0..n \subseteq S
    <2> HIDE DEF S
    <2> QED BY <1>2, <1>3, <1>5, UpTo
  <1>7. Upto(h[n], n)
    BY <1>2, <1>6
  <1>8. h[n] \in Seq(C) /\ Len(h[n]) = n /\ \A i \in 1..n : h[n][i] = s[i]
    BY <1>7 DEF Upto
  <1>9. h[n] = [i \in 1..n |-> h[n][i]]
    BY <1>8
  <1>10. h[n] = s
    BY <1>2, <1>8, <1>9
  <1> QED BY <1>1, <1>10

LegacyIn(v) == Export!LegacyTargetLocale(v.locale, v.locales)
LocalesIn(us, v) == v.locales \cup ({v.locale} \ {Absent}) \cup UNION {DOMAIN us[i].targets : i \in DOMAIN us}

LEMMA PartsHave ==
  ASSUME NEW C, NEW us \in Seq(C), NEW v
  PROVE  Export!Parts(us, v) = [l \in LocalesIn(us, v) |-> [i \in DOMAIN us |-> Export!CloneIn(us[i], l, LegacyIn(v))]]
  <1> DEFINE doc == [locale |-> v.locale, locales |-> v.locales, units |-> us]
  <1>1. ASSUME NEW l PROVE Export!SelectTarget(doc, l, TRUE) = [i \in DOMAIN us |-> Export!CloneIn(us[i], l, LegacyIn(v))]
    <2>1. Export!KeptUnits(us, l, LegacyIn(v), TRUE) = KeptOf(us, <<l, LegacyIn(v), TRUE>>)
      BY DEF KeptOf, Split!KeptUnits, Export!KeptUnits, Split!FoldLeft, Export!FoldLeft, Split!MapThenFoldSet, Export!MapThenFoldSet,
             Split!Max, Export!Max, Split!Kept, Export!Kept, Split!HasLegacy, Export!HasLegacy
    <2>2. Export!KeptUnits(us, l, LegacyIn(v), TRUE) = us
      BY <2>1, KeptAll
    <2> QED BY <2>2 DEF Export!SelectTarget, LegacyIn
  <1>2. Export!DocumentTargetLocales(doc) = LocalesIn(us, v)
    BY DEF Export!DocumentTargetLocales, LocalesIn
  <1>3. Export!Parts(us, v) = [l \in Export!DocumentTargetLocales(doc) |-> Export!SelectTarget(doc, l, TRUE)]
    BY DEF Export!Parts, Export!SplitTargets
  <1> HIDE DEF doc
  <1> QED BY <1>1, <1>2, <1>3

\* The locale of texts without one, where there is one only
LEMMA ExportCounts == \A S : Export!Cardinality(S) = Cardinality(S) /\ (Export!IsFiniteSet(S) <=> IsFiniteSet(S))
  BY DEF Export!Cardinality, Cardinality, Export!IsFiniteSet, IsFiniteSet

LEMMA LegacyIs ==
  ASSUME NEW S, IsLocales(S)
  PROVE  /\ LegacyIn(Export!Meta(S)) = Export!Meta(S).locale
         /\ Export!Meta(S).locales = S
         /\ Export!Meta(S).locale # Absent => S = {Export!Meta(S).locale}
         /\ \A l : S = {l} => Export!Meta(S).locale = l
  <1> DEFINE m == Export!Meta(S)
             legacy == Export!LegacyTargetLocale(Absent, S)
  <1>1. m.locales = S /\ m.locale = legacy
    BY DEF Export!Meta
  <1>2. Cardinality(S) = 1 <=> \E l : S = {l}
    BY FS_Singleton DEF IsLocales
  <1>3. legacy = IF Cardinality(S) = 1 THEN CHOOSE l \in S : TRUE ELSE Absent
    BY ExportCounts DEF Export!LegacyTargetLocale
  <1>4. ASSUME NEW l, S = {l} PROVE legacy = l
    BY <1>2, <1>3, <1>4
  <1>5. legacy # Absent => S = {legacy}
    BY <1>2, <1>3, <1>4
  <1>6. LegacyIn(m) = legacy
    <2>1. Export!LegacyTargetLocale(legacy, S) = legacy
      BY DEF Export!LegacyTargetLocale
    <2> QED BY <1>1, <2>1 DEF LegacyIn
  <1> HIDE DEF m, legacy
  <1> QED BY <1>1, <1>4, <1>5, <1>6 DEF m

\* A unit that is exported, and what the exporters take of it
IsExported(u) ==
  /\ Export!UnitFields \subseteq DOMAIN u /\ IsLocales(DOMAIN u.targets)
  /\ \A l \in DOMAIN u.targets : u.targets[l] # Absent
AreExported(us) == us \in Seq(Export!Range(us)) /\ \A i \in DOMAIN us : IsExported(us[i])

LEMMA SelectedIs ==
  ASSUME NEW u, IsExported(u), NEW l
  PROVE  /\ l \in DOMAIN u.targets => Export!XliffSelected(u, l) = u.targets[l].text
         /\ l \notin DOMAIN u.targets => \/ Export!XliffSelected(u, l) = u.target
                                        \/ \E k \in DOMAIN u.targets : Export!XliffSelected(u, l) = u.targets[k].text
         /\ DOMAIN u.targets = {} => Export!XliffSelected(u, l) = u.target
  <1>1. Cardinality(DOMAIN u.targets) = 1 => DOMAIN u.targets # {}
    BY FS_EmptySet
  <1>2. Export!Cardinality(DOMAIN u.targets) = Cardinality(DOMAIN u.targets)
    BY ExportCounts
  <1> QED BY <1>1, <1>2 DEF Export!XliffSelected

LEMMA ColumnIs ==
  ASSUME NEW u, IsExported(u), NEW l, l # Absent
  PROVE  Export!TargetText(u, l) = IF l \in DOMAIN u.targets THEN u.targets[l].text ELSE u.target
  BY DEF Export!TargetText, Export!SelectedTarget, IsExported

LEMMA CloneIs ==
  ASSUME NEW u, IsExported(u), NEW l, NEW legacy
  PROVE  LET c == Export!CloneIn(u, l, legacy) IN
         /\ c.id = u.id /\ DOMAIN c.targets = {} /\ IsExported(c)
         /\ l \in DOMAIN u.targets => c.target = u.targets[l].text
         /\ l \notin DOMAIN u.targets => c.target \in {u.target, Absent}
  <1> DEFINE c == Export!CloneIn(u, l, legacy)
  <1>1. {"id", "target", "status", "usage", "tags", "targets"} \subseteq DOMAIN u
    BY DEF IsExported, Export!UnitFields
  <1>2. DOMAIN c = DOMAIN u /\ c.id = u.id /\ c.targets = <<>>
    BY <1>1 DEF Export!CloneIn, Export!CloneForTarget
  <1>3. DOMAIN c.targets = {} /\ IsLocales({})
    <2>1. DOMAIN <<>> = {}
      OBVIOUS
    <2> QED BY <1>2, <2>1, FS_EmptySet DEF IsLocales
  <1>4. IsExported(c)
    BY <1>2, <1>3 DEF IsExported
  <1>5. l \in DOMAIN u.targets => c.target = u.targets[l].text
    BY <1>1 DEF Export!CloneIn, Export!CloneForTarget, IsExported
  <1>6. l \notin DOMAIN u.targets => c.target \in {u.target, Absent}
    BY <1>1 DEF Export!CloneIn, Export!CloneForTarget
  <1> QED BY <1>2, <1>3, <1>4, <1>5, <1>6

-----------------------------------------------------------------------------
\* What is written comes from a unit, and is its translation or the text that it has without a locale.
OfUnit(t, us) == \E i \in DOMAIN us : us[i].id = t[1]
OwnOf(t, us) == \E i \in DOMAIN us : t[1] = us[i].id /\ t[3] = us[i].target
ComesOf(t, us) == t \in Export!Localized(us) \/ OwnOf(t, us)
\* A translation of a unit, and the text without a locale of a unit without translations
Translates(t, us, i, l) == i \in DOMAIN us /\ l \in DOMAIN us[i].targets /\ Says(t, us[i], l, us[i].targets[l].text)
Plain(t, us, i, l) == i \in DOMAIN us /\ DOMAIN us[i].targets = {} /\ Says(t, us[i], l, us[i].target)

LEMMA FromUnit ==
  ASSUME NEW us, NEW t, ComesOf(t, us)
  PROVE  OfUnit(t, us)
  <1>1. CASE t \in Export!Localized(us)
    <2>1. PICK i \in DOMAIN us : \E l \in DOMAIN us[i].targets : Says(t, us[i], l, us[i].targets[l].text)
      BY <1>1, LocalizedHas
    <2> QED BY <2>1 DEF Says, OfUnit
  <1>2. CASE OwnOf(t, us)
    BY <1>2 DEF OwnOf, OfUnit
  <1> QED BY <1>1, <1>2 DEF ComesOf

LEMMA OwnWrites ==
  ASSUME NEW us, NEW l, NEW t
  PROVE  /\ t \in Export!Own(us, l) => OwnOf(t, us) /\ t[2] = l
         /\ \A i : Plain(t, us, i, l) => t \in Export!Own(us, l)
  <1>1. ASSUME t \in Export!Own(us, l) PROVE OwnOf(t, us) /\ t[2] = l
    <2>1. PICK i \in DOMAIN us : Says(t, us[i], l, us[i].target)
      BY <1>1, OwnHas
    <2> QED BY <2>1 DEF Says, OwnOf
  <1>2. ASSUME NEW i, Plain(t, us, i, l) PROVE t \in Export!Own(us, l)
    BY <1>2, OwnHas DEF Plain
  <1> QED BY <1>1, <1>2

LEMMA LocalizedIs ==
  ASSUME NEW us, NEW t
  PROVE  t \in Export!Localized(us) <=> \E i, l : Translates(t, us, i, l)
  BY LocalizedHas DEF Translates

\* XLIFF in one language
LEMMA SingleWrites ==
  ASSUME NEW us, AreExported(us), NEW l, NEW t
  PROVE  /\ t \in Export!XliffSingle(us, l) => OfUnit(t, us) /\ t[2] = l
         /\ t \in Export!XliffSingle(us, l) /\ CoveredBy(us, {l}) => ComesOf(t, us)
         /\ \A i : Translates(t, us, i, l) \/ Plain(t, us, i, l) => t \in Export!XliffSingle(us, l)
  <1>1. \A i \in DOMAIN us : IsExported(us[i])
    BY DEF AreExported
  <1>2. ASSUME NEW i \in DOMAIN us, Says(t, us[i], l, Export!XliffSelected(us[i], l)) PROVE us[i].id = t[1] /\ t[2] = l
    BY <1>2 DEF Says
  <1>3. ASSUME NEW i \in DOMAIN us, Says(t, us[i], l, Export!XliffSelected(us[i], l)), CoveredBy(us, {l}) PROVE ComesOf(t, us)
    <2>1. DOMAIN us[i].targets \subseteq {l}
      BY <1>3 DEF CoveredBy
    <2>2. CASE l \in DOMAIN us[i].targets
      <3>1. Translates(t, us, i, l)
        BY <1>1, <1>3, <2>2, SelectedIs DEF Translates
      <3> QED BY <3>1, LocalizedIs DEF ComesOf
    <2>3. CASE l \notin DOMAIN us[i].targets
      <3>1. Export!XliffSelected(us[i], l) = us[i].target
        BY <1>1, <2>1, <2>3, SelectedIs
      <3> QED BY <1>3, <3>1 DEF Says, ComesOf, OwnOf
    <2> QED BY <2>2, <2>3
  <1>4. ASSUME NEW i, Translates(t, us, i, l) \/ Plain(t, us, i, l) PROVE t \in Export!XliffSingle(us, l)
    <2>1. i \in DOMAIN us /\ Says(t, us[i], l, Export!XliffSelected(us[i], l))
      BY <1>1, <1>4, SelectedIs DEF Translates, Plain
    <2> QED BY <2>1, SingleHas
  <1> QED BY <1>2, <1>3, <1>4, SingleHas DEF OfUnit

\* The column of a locale
LEMMA ColumnWrites ==
  ASSUME NEW us, AreExported(us), NEW l, NEW t
  PROVE  /\ t \in Export!TextOf(us, l) => ComesOf(t, us)
         /\ \A i : Translates(t, us, i, l) \/ Plain(t, us, i, l) => t \in Export!TextOf(us, l)
  <1>1. \A i \in DOMAIN us : IsExported(us[i])
    BY DEF AreExported
  <1>2. ASSUME NEW i \in DOMAIN us, Says(t, us[i], l, Export!TargetText(us[i], l)) PROVE ComesOf(t, us)
    <2>1. l # Absent
      BY <1>2 DEF Says
    <2>2. CASE l \in DOMAIN us[i].targets
      <3>1. Translates(t, us, i, l)
        BY <1>1, <1>2, <2>1, <2>2, ColumnIs DEF Translates
      <3> QED BY <3>1, LocalizedIs DEF ComesOf
    <2>3. CASE l \notin DOMAIN us[i].targets
      <3>1. Export!TargetText(us[i], l) = us[i].target
        BY <1>1, <2>1, <2>3, ColumnIs
      <3> QED BY <1>2, <3>1 DEF Says, ComesOf, OwnOf
    <2> QED BY <2>2, <2>3
  <1>3. ASSUME NEW i, Translates(t, us, i, l) \/ Plain(t, us, i, l) PROVE t \in Export!TextOf(us, l)
    <2>1. i \in DOMAIN us /\ l # Absent
      BY <1>3 DEF Translates, Plain, Says
    <2>2. Says(t, us[i], l, Export!TargetText(us[i], l))
      BY <1>1, <1>3, <2>1, ColumnIs DEF Translates, Plain
    <2> QED BY <2>1, <2>2, ColumnHas
  <1> QED BY <1>2, <1>3, ColumnHas

\* The part of a locale, in a file of its own
LEMMA PartWrites ==
  ASSUME NEW us, AreExported(us), NEW v, NEW l \in LocalesIn(us, v), NEW t
  PROVE  LET piece == Export!Parts(us, v)[l] IN
         /\ Export!XliffSingle(piece, l) = Export!Own(piece, l)
         /\ t \in Export!Own(piece, l) => ComesOf(t, us)
         /\ \A i : Translates(t, us, i, l) => t \in Export!Own(piece, l)
  <1> DEFINE piece == Export!Parts(us, v)[l]
             Clone(i) == Export!CloneIn(us[i], l, LegacyIn(v))
  <1>1. piece = [i \in DOMAIN us |-> Clone(i)]
    <2>1. us \in Seq(Export!Range(us))
      BY DEF AreExported
    <2> QED BY <2>1, PartsHave
  <1>2. ASSUME NEW i \in DOMAIN us
        PROVE  /\ Clone(i).id = us[i].id /\ Export!XliffSelected(Clone(i), l) = Clone(i).target
               /\ l \in DOMAIN us[i].targets => Clone(i).target = us[i].targets[l].text
               /\ l \notin DOMAIN us[i].targets => Clone(i).target \in {us[i].target, Absent}
    <2>1. IsExported(us[i])
      BY DEF AreExported
    <2> QED BY <2>1, CloneIs, SelectedIs
  <1> HIDE DEF piece, Clone
  <1>3. DOMAIN piece = DOMAIN us /\ \A i \in DOMAIN us : piece[i] = Clone(i)
    BY <1>1
  <1>4. Export!XliffSingle(piece, l) = Export!Own(piece, l)
    <2>1. ASSUME NEW x PROVE x \in Export!XliffSingle(piece, l) <=> x \in Export!Own(piece, l)
      <3>1. \A i \in DOMAIN piece : Export!XliffSelected(piece[i], l) = piece[i].target
        BY <1>2, <1>3
      <3> QED BY <3>1, SingleHas, OwnHas
    <2> QED BY <2>1
  <1>5. ASSUME t \in Export!Own(piece, l) PROVE ComesOf(t, us)
    <2>1. PICK i \in DOMAIN us : Says(t, Clone(i), l, Clone(i).target)
      BY <1>3, <1>5, OwnHas
    <2>2. CASE l \in DOMAIN us[i].targets
      <3>1. Translates(t, us, i, l)
        BY <1>2, <2>1, <2>2 DEF Translates, Says
      <3> QED BY <3>1, LocalizedIs DEF ComesOf
    <2>3. CASE l \notin DOMAIN us[i].targets
      <3>1. Clone(i).target # Absent /\ t = <<us[i].id, l, Clone(i).target>>
        BY <1>2, <2>1 DEF Says
      <3> QED BY <1>2, <2>3, <3>1 DEF ComesOf, OwnOf
    <2> QED BY <2>2, <2>3
  <1>6. ASSUME NEW i, Translates(t, us, i, l) PROVE t \in Export!Own(piece, l)
    <2>1. i \in DOMAIN us /\ Says(t, Clone(i), l, Clone(i).target)
      BY <1>2, <1>6 DEF Translates, Says
    <2> QED BY <1>3, <2>1, OwnHas
  <1> QED BY <1>4, <1>5, <1>6 DEF piece

-----------------------------------------------------------------------------
\* What every format writes, out of these
PieceOf(us, v, l) == Export!Own(Export!Parts(us, v)[l], l)

LEMMA SplitHas ==
  ASSUME NEW us, AreExported(us), NEW v, NEW t
  PROVE  /\ v.locale = Absent => (t \in Export!XliffText(us, v) <=> \E l \in LocalesIn(us, v) : t \in PieceOf(us, v, l))
         /\ v.locale # Absent => Export!XliffText(us, v) = Export!XliffSingle(us, v.locale)
         /\ t \in Export!PartText(us, v, v.locales) <=> \E l \in v.locales : t \in PieceOf(us, v, l)
  <1>1. DOMAIN Export!Parts(us, v) = LocalesIn(us, v)
    <2>1. us \in Seq(Export!Range(us))
      BY DEF AreExported
    <2> QED BY <2>1, PartsHave
  <1>2. \A l \in LocalesIn(us, v) : Export!XliffSingle(Export!Parts(us, v)[l], l) = PieceOf(us, v, l)
    BY PartWrites DEF PieceOf
  <1>3. v.locale = Absent => (t \in Export!XliffText(us, v) <=> \E l \in LocalesIn(us, v) : t \in PieceOf(us, v, l))
    BY <1>1, <1>2 DEF Export!XliffText
  <1> QED BY <1>3 DEF Export!XliffText, Export!PartText, PieceOf

LEMMA WrittenIs ==
  ASSUME NEW us, NEW v
  PROVE  /\ Export!Written("tmx", us, v) = Export!TmxText(us, v)
         /\ Export!Written("lokit", us, v) = Export!TmxText(us, v)
         /\ Export!Written("xliff", us, v) = Export!XliffText(us, v)
         /\ Export!Written("csv", us, v) = Export!TableText(us, v)
         /\ Export!Written("json", us, v) = Export!JsonText(us, v)
         /\ Export!Written("po", us, v) = Export!PoText(us, v)
         /\ Export!Written("html", us, v) = Export!HtmlText(us, v)
         /\ Export!Written("idml", us, v) = Export!HtmlText(us, v)
  BY DEF Export!Written, Export!TmxText, Export!LokitText, Export!HtmlText, Export!IdmlText

LEMMA PieceComes ==
  ASSUME NEW us, AreExported(us), NEW v, NEW l \in LocalesIn(us, v), NEW t
  PROVE  /\ t \in PieceOf(us, v, l) => ComesOf(t, us)
         /\ \A i : Translates(t, us, i, l) => t \in PieceOf(us, v, l)
  BY PartWrites DEF PieceOf

LEMMA LocalesAreIn ==
  ASSUME NEW us, NEW v
  PROVE  v.locales \subseteq LocalesIn(us, v) /\ \A t, i, l : Translates(t, us, i, l) => l \in LocalesIn(us, v)
  BY DEF LocalesIn, Translates

LEMMA TmxWrites ==
  ASSUME NEW us, NEW v, NEW t
  PROVE  /\ t \in Export!TmxText(us, v) => ComesOf(t, us)
         /\ \A i, l : Translates(t, us, i, l) => t \in Export!TmxText(us, v)
         /\ \A i : Plain(t, us, i, v.locale) => t \in Export!TmxText(us, v)
  BY OwnWrites, LocalizedIs DEF Export!TmxText, ComesOf

\* Nothing is written that is not of a unit, and one file of XLIFF has one locale.
LEMMA WritesUnits ==
  ASSUME NEW us, AreExported(us), NEW v, NEW format \in Export!FormatNames, NEW t \in Export!Written(format, us, v)
  PROVE  OfUnit(t, us) /\ (format = "xliff" /\ v.locale # Absent => t[2] = v.locale)
  <1>1. CASE format \in {"tmx", "lokit"}
    BY <1>1, WrittenIs, TmxWrites, FromUnit
  <1>2. CASE format = "xliff"
    <2>1. CASE v.locale = Absent
      <3>1. t \in Export!XliffText(us, v)
        BY <1>2, WrittenIs
      <3> QED BY <1>2, <2>1, <3>1, SplitHas, PieceComes, FromUnit
    <2>2. CASE v.locale # Absent
      <3>1. t \in Export!XliffSingle(us, v.locale)
        BY <1>2, <2>2, WrittenIs, SplitHas
      <3> QED BY <3>1, SingleWrites
    <2> QED BY <2>1, <2>2
  <1>3. ASSUME NEW l, t \in Export!TextOf(us, l) PROVE OfUnit(t, us)
    BY <1>3, ColumnWrites, FromUnit
  <1>4. ASSUME t \in Export!PartText(us, v, v.locales) PROVE OfUnit(t, us)
    BY <1>4, SplitHas, LocalesAreIn, PieceComes, FromUnit
  <1>5. ASSUME NEW l, t \in Export!Own(us, l) PROVE OfUnit(t, us)
    <2>1. ComesOf(t, us)
      BY <1>5, OwnWrites DEF ComesOf
    <2> QED BY <2>1, FromUnit
  <1>6. CASE format \in {"csv", "json"}
    BY <1>3, <1>6, WrittenIs DEF Export!TableText, Export!JsonText
  <1>7. CASE format = "po"
    BY <1>3, <1>4, <1>7, WrittenIs DEF Export!PoText
  <1>8. CASE format \in {"html", "idml"}
    BY <1>4, <1>5, <1>8, WrittenIs DEF Export!HtmlText
  <1> QED BY <1>1, <1>2, <1>6, <1>7, <1>8 DEF Export!FormatNames

\* The metadata name every locale that has a translation.
TrueOf(us, v) == IsLocales(v.locales) /\ v = Export!Meta(v.locales) /\ CoveredBy(us, v.locales)

LEMMA TrueLocale ==
  ASSUME NEW us, NEW v, TrueOf(us, v)
  PROVE  /\ v.locale # Absent => v.locales = {v.locale}
         /\ \A l : v.locales = {l} => v.locale = l
         /\ \A t, i, l : Translates(t, us, i, l) => l \in v.locales
  BY LegacyIs DEF TrueOf, CoveredBy, Translates

\* With such metadata, what is written is of a unit and under its locale ...
LEMMA WritesComes ==
  ASSUME NEW us, AreExported(us), NEW v, TrueOf(us, v), NEW format \in Export!FormatNames, NEW t \in Export!Written(format, us, v)
  PROVE  ComesOf(t, us)
  <1>1. CASE format \in {"tmx", "lokit"}
    BY <1>1, WrittenIs, TmxWrites
  <1>2. CASE format = "xliff"
    <2>1. CASE v.locale = Absent
      <3>1. t \in Export!XliffText(us, v)
        BY <1>2, WrittenIs
      <3> QED BY <2>1, <3>1, SplitHas, PieceComes
    <2>2. CASE v.locale # Absent
      <3>1. CoveredBy(us, {v.locale})
        BY <2>2, TrueLocale DEF TrueOf
      <3>2. t \in Export!XliffSingle(us, v.locale)
        BY <1>2, <2>2, WrittenIs, SplitHas
      <3> QED BY <3>1, <3>2, SingleWrites
    <2> QED BY <2>1, <2>2
  <1>3. ASSUME NEW l, t \in Export!TextOf(us, l) PROVE ComesOf(t, us)
    BY <1>3, ColumnWrites
  <1>4. ASSUME t \in Export!PartText(us, v, v.locales) PROVE ComesOf(t, us)
    BY <1>4, SplitHas, LocalesAreIn, PieceComes
  <1>5. ASSUME NEW l, t \in Export!Own(us, l) PROVE ComesOf(t, us)
    BY <1>5, OwnWrites DEF ComesOf
  <1>6. CASE format \in {"csv", "json"}
    BY <1>3, <1>6, WrittenIs DEF Export!TableText, Export!JsonText
  <1>7. CASE format = "po"
    BY <1>3, <1>4, <1>7, WrittenIs DEF Export!PoText
  <1>8. CASE format \in {"html", "idml"}
    BY <1>4, <1>5, <1>8, WrittenIs DEF Export!HtmlText
  <1> QED BY <1>1, <1>2, <1>6, <1>7, <1>8 DEF Export!FormatNames

\* ... every translation is written, as it is whatever the metadata are in the formats that name
\* the locale of each text ...
LEMMA WritesAll ==
  ASSUME NEW us, AreExported(us), NEW v, NEW format \in Export!FormatNames,
         TrueOf(us, v) \/ format \in {"tmx", "lokit"} \/ (format = "xliff" /\ v.locale = Absent),
         format \in {"html", "idml"} => Export!PerLocale(v),
         NEW t, NEW i, NEW l, Translates(t, us, i, l)
  PROVE  t \in Export!Written(format, us, v)
  <1>1. CASE format \in {"tmx", "lokit"}
    BY <1>1, WrittenIs, TmxWrites
  <1>2. CASE format = "xliff" /\ v.locale = Absent
    BY <1>2, WrittenIs, SplitHas, PieceComes, LocalesAreIn
  <1>3. CASE TrueOf(us, v)
    <2>1. l \in v.locales /\ (v.locale # Absent => l = v.locale)
      BY <1>3, TrueLocale
    <2>2. t \in Export!TextOf(us, l)
      BY ColumnWrites
    <2>3. t \in Export!PartText(us, v, v.locales)
      BY <2>1, SplitHas, LocalesAreIn, PieceComes
    <2>4. CASE format = "xliff" /\ v.locale # Absent
      <3>1. Export!Written(format, us, v) = Export!XliffSingle(us, v.locale) /\ l = v.locale
        BY <2>1, <2>4, WrittenIs, SplitHas
      <3>2. t \in Export!XliffSingle(us, l)
        BY SingleWrites
      <3> QED BY <3>1, <3>2
    <2>5. CASE format \in {"csv", "json"}
      BY <2>1, <2>2, <2>5, WrittenIs DEF Export!TableText, Export!JsonText, Export!Columns
    <2>6. CASE format = "po"
      <3>1. Export!PerLocale(v) \/ v.locale = l
        BY <2>1 DEF Export!PerLocale
      <3> QED BY <2>2, <2>3, <2>6, <3>1, WrittenIs DEF Export!PoText
    <2>7. CASE format \in {"html", "idml"}
      BY <2>3, <2>7, WrittenIs DEF Export!HtmlText
    <2> QED BY <1>1, <1>2, <2>4, <2>5, <2>6, <2>7 DEF Export!FormatNames
  <1> QED BY <1>1, <1>2, <1>3

\* ... and so is the text of a unit without translations, under the locale of such texts.
LEMMA WritesPlain ==
  ASSUME NEW us, AreExported(us), NEW v, TrueOf(us, v), NEW format \in Export!FormatNames,
         NEW t, NEW i, Plain(t, us, i, v.locale)
  PROVE  t \in Export!Written(format, us, v)
  <1>1. v.locale # Absent /\ v.locales = {v.locale}
    BY TrueLocale DEF Plain, Says
  <1>2. t \in Export!TextOf(us, v.locale) /\ t \in Export!Own(us, v.locale) /\ t \in Export!XliffSingle(us, v.locale)
    BY ColumnWrites, OwnWrites, SingleWrites
  <1>3. ~Export!PerLocale(v) /\ v.locale \in Export!Columns(v)
    BY <1>1 DEF Export!PerLocale, Export!Columns
  <1>4. CASE format \in {"tmx", "lokit"}
    BY <1>4, WrittenIs, TmxWrites
  <1>5. CASE format = "xliff"
    BY <1>1, <1>2, <1>5, WrittenIs, SplitHas
  <1>6. CASE format \in {"csv", "json"}
    BY <1>1, <1>2, <1>3, <1>6, WrittenIs DEF Export!TableText, Export!JsonText
  <1>7. CASE format \in {"po", "html", "idml"}
    BY <1>2, <1>3, <1>7, WrittenIs DEF Export!PoText, Export!HtmlText
  <1> QED BY <1>4, <1>5, <1>6, <1>7 DEF Export!FormatNames

\* A locale that the caller chose gets its translations.
LEMMA WritesChosen ==
  ASSUME NEW us, AreExported(us), NEW v, v.locale # Absent, NEW format \in {"tmx", "xliff", "po", "json"},
         NEW t, NEW i, Translates(t, us, i, v.locale)
  PROVE  t \in Export!Written(format, us, v)
  <1>1. t \in Export!TextOf(us, v.locale) /\ t \in Export!XliffSingle(us, v.locale)
    BY ColumnWrites, SingleWrites
  <1>2. CASE format = "tmx"
    BY <1>2, WrittenIs, TmxWrites
  <1>3. CASE format = "xliff"
    BY <1>1, <1>3, WrittenIs, SplitHas
  <1>4. CASE format \in {"po", "json"}
    BY <1>1, <1>4, WrittenIs DEF Export!PoText, Export!JsonText, Export!PerLocale
  <1> QED BY <1>2, <1>3, <1>4

-----------------------------------------------------------------------------
(***************************************************************************)
(* An export, from its beginning to its end (parsers/interchange.py,       *)
(* office/native.py, export_projection.py).                                *)
(***************************************************************************)
IsExportJob(j) ==
  j = [pc |-> j.pc, format |-> j.format, group |-> j.group, path |-> j.path, route |-> j.route, chosen |-> j.chosen, meta |-> j.meta,
       view |-> j.view, peeked |-> j.peeked, taken |-> j.taken, content |-> j.content]
\* Nothing was read from the document, and nothing chosen.
AsOpened(d, j) == j.peeked = 0 /\ j.chosen = Absent /\ j.meta = Export!Meta(d.opened)
ExportSees(d, j) ==
  /\ IsMeta(j.meta, j.chosen) /\ j.peeked \in 0..1 /\ j.peeked <= ReadableOf(d)
  /\ d.kind = "document" => AsOpened(d, j)
  /\ j.pc \in {"idle", "native"} => /\ j.view = Export!Meta(d.opened) /\ j.taken = j.peeked
                                    /\ j.peeked = 0 /\ j.chosen = Absent => AsOpened(d, j)
ExportStage(d, j) ==
  /\ j.pc \in {"idle", "native"} => j.route = ""
  /\ j.pc \in {"python", "read"} => j.route \in {"", "declined"}
  /\ j.pc # "idle" => j.format \in Export!FormatNames
  /\ j.pc = "native" => /\ j.format \in {"tmx", "xliff"} /\ AsOpened(d, j)
                        /\ d.kind = "office" => j.format = "xliff"
  /\ j.route = "declined" => j.peeked = 0 /\ j.chosen = Absent /\ CoveredBy(d.units, j.meta.locales)
  /\ j.pc = "read" => j.view = j.meta
ByRust(d, j) ==
  /\ AsOpened(d, j) /\ j.view = j.meta
  /\ j.route = "copied" => d.kind = "interchange" /\ j.content = Export!Localized(d.units)
  /\ j.route = "native" =>
       \/ j.format = "tmx" /\ j.content = Export!TmxText(d.units, j.meta)
       \/ j.format = "xliff" /\ d.kind = "interchange" /\ j.meta.locale = Absent /\ j.content = {}
       \/ /\ j.format = "xliff" /\ j.content = Export!XliffSingle(d.units, j.meta.locale)
          /\ j.meta.locale # Absent \/ d.kind = "office"
LeftOf(d, j) == SubSeq(d.units, j.peeked + 1, ReadableOf(d))
ByPython(d, j) == j.view = j.meta /\ j.content = Export!Written(j.format, LeftOf(d, j), j.view)
ExportGives(d, j) == j.pc = "done" =>
  /\ d.failAt = 0
  /\ \/ j.route \in {"native", "copied"} /\ ByRust(d, j)
     \/ j.route \in {"python", "declined"} /\ ByPython(d, j)
Exporting(d, j) == IsExportJob(j) /\ ExportSees(d, j) /\ ExportStage(d, j) /\ ExportGives(d, j)
ExportInv == input \in ExportInputs /\ Exporting(input, job)

LEMMA ExportInputIs ==
  ASSUME Export!DocumentsAssumption, input \in ExportInputs
  PROVE  /\ AreExported(input.units) /\ Len(input.units) \in Nat /\ DOMAIN input.units = 1..Len(input.units)
         /\ input.failAt \in 0..Len(input.units) + 1 /\ Export!Limit = ReadableOf(input) /\ ReadableOf(input) \in 0..Len(input.units) /\ IsLocales(input.opened)
         /\ input.kind = "document" => input.failAt = 0 /\ CoveredBy(input.units, input.opened)
         /\ input.kind = "office" => \A i \in DOMAIN input.units : DOMAIN input.units[i].targets = {}
         /\ input.kind = "interchange" =>
              \A i \in DOMAIN input.units : input.units[i].target # Absent => Cardinality(Export!KnownBefore(input, i)) # 1
         /\ ChosenLocale # Absent
  <1> DEFINE us == input.units
  <1>1. us \in Seq(Export!Range(us)) /\ input.failAt \in 0..Len(us) + 1
    BY DEF Export!DocumentsAssumption
  <1>2. Len(us) \in Nat /\ DOMAIN us = 1..Len(us) /\ \A i \in DOMAIN us : us[i] \in Export!Range(us)
    BY <1>1
  <1>3. \A u \in Export!Range(us) : IsExported(u)
    BY ExportCounts DEF Export!DocumentsAssumption, IsExported, IsLocales
  <1>4. AreExported(us)
    BY <1>1, <1>2, <1>3 DEF AreExported
  <1>5. IsLocales(input.opened)
    BY ExportCounts DEF Export!DocumentsAssumption, IsLocales
  <1>6. Export!Limit = ReadableOf(input) /\ ReadableOf(input) \in 0..Len(us)
    BY <1>1, <1>2 DEF Export!Limit, ReadableOf
  <1>7. input.kind = "document" => input.failAt = 0 /\ CoveredBy(us, input.opened)
    BY <1>2 DEF Export!DocumentsAssumption, CoveredBy
  <1>8. input.kind = "office" => \A i \in DOMAIN us : DOMAIN us[i].targets = {}
    BY <1>2 DEF Export!DocumentsAssumption
  <1>9. input.kind = "interchange" => \A i \in DOMAIN us : us[i].target # Absent => Cardinality(Export!KnownBefore(input, i)) # 1
    BY ExportCounts DEF Export!DocumentsAssumption
  <1>10. ChosenLocale # Absent
    BY DEF Export!DocumentsAssumption
  <1> QED BY <1>1, <1>2, <1>4, <1>5, <1>6, <1>7, <1>8, <1>9, <1>10

\* The units that are left of a stream
LEMMA LeftAre ==
  ASSUME Export!DocumentsAssumption, input \in ExportInputs, job.peeked \in 0..1, job.peeked <= ReadableOf(input)
  PROVE  /\ AreExported(Export!Units) /\ Export!Units = LeftOf(input, job)
         /\ \A i \in DOMAIN Export!Units : i + job.peeked \in DOMAIN input.units /\ Export!Units[i] = input.units[i + job.peeked]
         /\ job.peeked = 0 /\ input.failAt = 0 => Export!Units = input.units
  <1> DEFINE us == input.units
             m == job.peeked
             n == ReadableOf(input)
             left == Export!Units
             C == Export!Range(us)
  <1>1. AreExported(us) /\ Len(us) \in Nat /\ DOMAIN us = 1..Len(us) /\ Export!Limit = n /\ n \in 0..Len(us) /\ us \in Seq(C)
    BY ExportInputIs DEF AreExported
  <1>2. m \in Nat /\ n \in Nat /\ m <= n
    BY <1>1
  <1>3. left = SubSeq(us, m + 1, n)
    BY <1>1 DEF Export!Units
  <1>4. left \in Seq(C) /\ Len(left) = n - m /\ DOMAIN left = 1..n - m /\ \A i \in 1..n - m : left[i] = us[i + m]
    <2> HIDE DEF us, m, n, left, C
    <2> QED BY <1>1, <1>2, <1>3
  <1> HIDE DEF us, m, n, left, C
  <1>5. \A i \in DOMAIN left : i + m \in DOMAIN us /\ left[i] = us[i + m]
    BY <1>1, <1>2, <1>4
  <1>6. AreExported(left)
    <2>1. left \in Seq(Export!Range(left))
      <3>1. \A i \in 1..Len(left) : left[i] \in Export!Range(left)
        BY <1>4 DEF Export!Range
      <3> QED BY <1>4, <3>1
    <2> QED BY <1>1, <1>5, <2>1 DEF AreExported
  <1>7. ASSUME m = 0, input.failAt = 0 PROVE left = us
    <2>1. n = Len(us)
      BY <1>7 DEF ReadableOf, n, us
    <2>2. left = [i \in 1..n |-> left[i]] /\ us = [i \in 1..n |-> us[i]]
      BY <1>1, <1>4, <1>7, <2>1
    <2>3. \A i \in 1..n : left[i] = us[i]
      BY <1>1, <1>2, <1>4, <1>7
    <2> QED BY <2>2, <2>3
  <1> QED BY <1>3, <1>5, <1>6, <1>7 DEF LeftOf, us, m, n, left

\* What is known after some units, and after all of them
LEMMA MetaKnows ==
  ASSUME Export!DocumentsAssumption, input \in ExportInputs, NEW n \in Nat
  PROVE  /\ IsMeta(Export!MetaAfter(n), Absent)
         /\ input.kind = "interchange" /\ n = Export!Limit /\ input.failAt = 0 => CoveredBy(input.units, Export!MetaAfter(n).locales)
         /\ n = 0 \/ input.kind # "interchange" => Export!MetaAfter(n) = Export!Meta(input.opened)
  <1> DEFINE us == input.units
             N == Len(us)
             Upto(k) == UNION {DOMAIN us[i].targets : i \in 1..k}
  <1>1. AreExported(us) /\ N \in Nat /\ DOMAIN us = 1..N /\ Export!Limit = ReadableOf(input) /\ ReadableOf(input) \in 0..N /\ IsLocales(input.opened)
    BY ExportInputIs
  <1>2. \A k \in 1..N : IsLocales(DOMAIN us[k].targets)
    BY <1>1 DEF AreExported, IsExported
  <1>3. \A k \in 0..N : IsLocales(Upto(k))
    <2> DEFINE S == {k \in 0..N : IsLocales(Upto(k))}
    <2>1. 0 \in S
      <3>1. Upto(0) = {}
        OBVIOUS
      <3>2. IsLocales({})
        BY FS_EmptySet DEF IsLocales
      <3>3. 0 \in 0..N
        BY <1>1
      <3> HIDE DEF Upto, N
      <3> QED BY <3>1, <3>2, <3>3
    <2>2. ASSUME NEW k \in 0..N - 1, k \in S PROVE k + 1 \in S
      <3>1. k + 1 \in 1..N /\ k + 1 \in 0..N
        BY <1>1
      <3>2. Upto(k + 1) = Upto(k) \cup DOMAIN us[k + 1].targets
        BY <3>1
      <3>3. IsLocales(Upto(k)) /\ IsLocales(DOMAIN us[k + 1].targets)
        BY <1>2, <2>2, <3>1
      <3> HIDE DEF Upto
      <3>4. IsLocales(Upto(k + 1))
        BY <3>2, <3>3, FS_Union DEF IsLocales
      <3> QED BY <3>1, <3>4
    <2> HIDE DEF Upto, N
    <2>3. \A k \in 0..N - 1 : k \in S => k + 1 \in S
      BY <2>2
    <2>4. 0..N \subseteq S
      <3> HIDE DEF S
      <3> QED BY <1>1, <2>1, <2>3, UpTo
    <2> QED BY <2>4
  <1>4. Export!Fetched(n) \in 0..N /\ (n = 0 => Export!Fetched(n) = 0) /\ (n = Export!Limit => Export!Fetched(n) = n)
    <2> DEFINE L == Export!Limit
    <2>1. Export!Batch = 2
      BY DEF Export!Batch
    <2> HIDE DEF L, N
    <2>2. ((n + 2 - 1) \div 2) * 2 \in Nat /\ ((n + 2 - 1) \div 2) * 2 >= n
      OBVIOUS
    <2>3. Export!Fetched(n) = IF n = 0 THEN 0 ELSE IF ((n + 2 - 1) \div 2) * 2 > L THEN L ELSE ((n + 2 - 1) \div 2) * 2
      BY <2>1 DEF Export!Fetched, L
    <2> DEFINE m == ((n + 2 - 1) \div 2) * 2
    <2>4. m \in Nat /\ m >= n /\ Export!Fetched(n) = IF n = 0 THEN 0 ELSE IF m > L THEN L ELSE m
      BY <2>2, <2>3
    <2>5. L \in 0..N
      BY <1>1 DEF L, N
    <2> HIDE DEF m
    <2> QED BY <1>1, <2>4, <2>5 DEF L
  <1>5. Export!LocalesOf(Export!Fetched(n)) = input.opened \cup Upto(Export!Fetched(n))
    BY DEF Export!LocalesOf
  <1> DEFINE known == IF input.kind = "interchange" THEN Export!LocalesOf(Export!Fetched(n)) ELSE input.opened
  <1>6. Export!MetaAfter(n) = Export!Meta(known)
    BY DEF Export!MetaAfter
  <1>7. IsLocales(Upto(Export!Fetched(n)))
    BY <1>3, <1>4
  <1> HIDE DEF Upto
  <1>8. IsLocales(known)
    BY <1>1, <1>5, <1>7, FS_Union DEF IsLocales
  <1>9. Export!Meta(known).locales = known
    BY DEF Export!Meta
  <1>10. IsMeta(Export!MetaAfter(n), Absent)
    BY <1>6, <1>8, <1>9 DEF IsMeta
  <1>11. ASSUME input.kind = "interchange", n = Export!Limit, input.failAt = 0 PROVE CoveredBy(us, known)
    <2>1. Export!Fetched(n) = N
      BY <1>4, <1>11 DEF Export!Limit
    <2> QED BY <1>1, <1>5, <1>11, <2>1 DEF CoveredBy, Upto
  <1>12. ASSUME n = 0 \/ input.kind # "interchange" PROVE known = input.opened
    <2>1. Upto(0) = {}
      BY DEF Upto
    <2> QED BY <1>4, <1>5, <1>12, <2>1
  <1> HIDE DEF known
  <1> QED BY <1>6, <1>9, <1>10, <1>11, <1>12

\* Every step of an export keeps what is known of it.
LEMMA ExportBegins ==
  ASSUME Export!DocumentsAssumption, Export!Init
  PROVE  ExportInv
  <1>1. input \in ExportInputs /\ job = Export!Idle
    BY DEF Export!Init
  <1>2. IsMeta(Export!Meta(input.opened), Absent) /\ Export!MetaAfter(0) = Export!Meta(input.opened) /\ ReadableOf(input) \in Nat
    <2>1. 0 \in Nat
      OBVIOUS
    <2>2. IsMeta(Export!MetaAfter(0), Absent) /\ Export!MetaAfter(0) = Export!Meta(input.opened)
      BY <1>1, <2>1, MetaKnows
    <2> QED BY <1>1, <2>2, ExportInputIs
  <1>3. /\ job.pc = "idle" /\ job.route = "" /\ job.chosen = Absent /\ job.peeked = 0 /\ job.taken = 0
        /\ job.meta = Export!Meta(input.opened) /\ job.view = Export!Meta(input.opened) /\ IsExportJob(job)
    BY <1>1, <1>2 DEF Export!Idle, IsExportJob
  <1>4. IsMeta(job.meta, job.chosen) /\ AsOpened(input, job)
    <2>1. IsMeta(job.meta, job.chosen)
      BY <1>2, <1>3 DEF IsMeta
    <2>2. AsOpened(input, job)
      BY <1>3 DEF AsOpened
    <2> QED BY <2>1, <2>2
  <1>5. ExportSees(input, job)
    <2>1. job.peeked \in 0..1 /\ job.peeked <= ReadableOf(input) /\ job.taken = job.peeked
      <3>1. ReadableOf(input) \in Nat
        BY <1>2
      <3>2. job.peeked = 0 /\ job.taken = 0
        BY <1>3
      <3> QED BY <3>1, <3>2
    <2>2. job.view = Export!Meta(input.opened)
      BY <1>3
    <2> QED BY <1>4, <2>1, <2>2, Zenon DEF ExportSees
  <1>6. ExportStage(input, job) /\ ExportGives(input, job)
    BY <1>3 DEF ExportStage, ExportGives
  <1>7. Exporting(input, job)
    BY <1>3, <1>5, <1>6 DEF Exporting
  <1> QED BY <1>1, <1>7 DEF ExportInv

LEMMA PeekExports ==
  ASSUME Export!DocumentsAssumption, ExportInv, Export!Peek
  PROVE  Exporting(input, job')
  <1> DEFINE m == Export!MetaAfter(job.taken + 1)
             meta == IF job.chosen = Absent THEN m ELSE [m EXCEPT !.locale = job.chosen]
             k == job'
  <1>1. input \in ExportInputs /\ job.pc = "idle" /\ input.kind # "document" /\ job.peeked < Export!Limit /\ job.peeked < 1
    BY DEF Export!Peek, Export!Streamed, ExportInv
  <1>2. k = [job EXCEPT !.peeked = @ + 1, !.taken = @ + 1, !.meta = meta]
    BY DEF Export!Peek
  <1>3. IsExportJob(job) /\ ExportSees(input, job) /\ ExportStage(input, job)
    BY DEF ExportInv, Exporting
  <1>4. job.peeked = 0 /\ job.taken = 0 /\ 1 <= ReadableOf(input) /\ IsMeta(m, Absent) /\ job.chosen \in {Absent, ChosenLocale}
    <2>1. Export!Limit = ReadableOf(input) /\ ReadableOf(input) \in Nat
      BY <1>1, ExportInputIs
    <2>2. job.peeked = 0 /\ job.taken = 0
      BY <1>1, <1>3 DEF ExportSees
    <2>3. job.taken + 1 \in Nat
      BY <2>2
    <2> QED BY <1>1, <1>3, <2>1, <2>2, <2>3, MetaKnows DEF ExportSees, IsMeta
  <1>5. IsMeta(meta, job.chosen)
    <2>1. m = [locale |-> m.locale, locales |-> m.locales]
      BY <1>4 DEF IsMeta, Export!Meta
    <2> HIDE DEF m
    <2> QED BY <1>4, <2>1 DEF IsMeta
  <1> HIDE DEF k, meta
  <1>6. k.pc = "idle" /\ k.peeked = 1 /\ k.taken = 1 /\ k.meta = meta /\ k.chosen = job.chosen /\ k.view = job.view /\ k.route = job.route /\ IsExportJob(k)
    <2>1. IsExportJob(job) /\ job.pc = "idle" /\ job.peeked + 1 = 1 /\ job.taken + 1 = 1
      BY <1>1, <1>3, <1>4
    <2>2. k = [job EXCEPT !.peeked = 1, !.taken = 1, !.meta = meta]
      BY <1>2, <2>1
    <2> QED BY <2>1, <2>2 DEF IsExportJob
  <1>7. ExportSees(input, k)
    BY <1>1, <1>3, <1>4, <1>5, <1>6 DEF ExportSees
  <1>8. ExportStage(input, k) /\ ExportGives(input, k)
    BY <1>1, <1>3, <1>6 DEF ExportStage, ExportGives
  <1>9. Exporting(input, k)
    BY <1>6, <1>7, <1>8 DEF Exporting
  <1> QED BY <1>9 DEF k

LEMMA ChooseExports ==
  ASSUME Export!DocumentsAssumption, ExportInv, Export!Choose
  PROVE  Exporting(input, job')
  <1> DEFINE k == job'
  <1>1. /\ input \in ExportInputs /\ job.pc = "idle" /\ input.kind # "document" /\ job.chosen = Absent
        /\ k = [job EXCEPT !.chosen = ChosenLocale, !.meta.locale = ChosenLocale]
    BY DEF Export!Choose, Export!Streamed, ExportInv
  <1>2. IsExportJob(job) /\ ExportSees(input, job) /\ ExportStage(input, job) /\ ChosenLocale # Absent
    BY <1>1, ExportInputIs DEF ExportInv, Exporting
  <1>3. job.meta = [locale |-> job.meta.locale, locales |-> job.meta.locales] /\ IsLocales(job.meta.locales)
    BY <1>1, <1>2 DEF ExportSees, IsMeta, Export!Meta
  <1> HIDE DEF k
  <1>4. /\ k.pc = "idle" /\ k.peeked = job.peeked /\ k.taken = job.taken /\ k.chosen = ChosenLocale /\ k.view = job.view /\ k.route = job.route
        /\ k.meta = [job.meta EXCEPT !.locale = ChosenLocale] /\ IsExportJob(k)
    BY <1>1, <1>2 DEF IsExportJob
  <1>5. IsMeta(k.meta, ChosenLocale)
    BY <1>2, <1>3, <1>4 DEF IsMeta
  <1>6. Exporting(input, k)
    BY <1>1, <1>2, <1>4, <1>5 DEF Exporting, ExportSees, ExportStage, ExportGives
  <1> QED BY <1>6 DEF k

LEMMA WriteExports ==
  ASSUME Export!FormatsAssumption, ExportInv, NEW writer, NEW group, NEW resolve, NEW path, Export!Write(writer, group, resolve, path)
  PROVE  Exporting(input, job')
  <1> DEFINE k == job'
             format == Export!Formats[Export!Writers[writer].to]
             native == Export!Native(format, group, resolve)
  <1>1. /\ job.pc = "idle" /\ Export!Writers[writer].to \in DOMAIN Export!Formats
        /\ k = [job EXCEPT !.pc = IF native THEN "native" ELSE "python", !.format = format, !.group = group, !.path = path]
    BY DEF Export!Write
  <1>2. IsExportJob(job) /\ ExportSees(input, job) /\ ExportStage(input, job)
    BY DEF ExportInv, Exporting
  <1>3. format \in Export!FormatNames
    BY <1>1 DEF Export!FormatsAssumption
  <1>4. ASSUME native PROVE format \in {"tmx", "xliff"} /\ AsOpened(input, job) /\ (input.kind = "office" => format = "xliff")
    <2>1. format \in {"tmx", "xliff"} /\ (input.kind = "office" => format = "xliff") /\ (input.kind # "document" => job.peeked = 0 /\ job.chosen = Absent)
      BY <1>4 DEF Export!Native, Export!Streamed
    <2>2. AsOpened(input, job)
      BY <1>1, <1>2, <2>1 DEF ExportSees
    <2> QED BY <2>1, <2>2
  <1> HIDE DEF k, native, format
  <1>5. /\ k.pc = IF native THEN "native" ELSE "python"
        /\ k.format = format /\ k.peeked = job.peeked /\ k.taken = job.taken /\ k.chosen = job.chosen /\ k.view = job.view
        /\ k.meta = job.meta /\ k.route = job.route /\ IsExportJob(k)
    BY <1>1, <1>2 DEF IsExportJob
  <1>6. AsOpened(input, k) <=> AsOpened(input, job)
    BY <1>5 DEF AsOpened
  <1>7. ExportSees(input, k)
    BY <1>1, <1>2, <1>5, <1>6 DEF ExportSees
  <1>8. ExportStage(input, k) /\ ExportGives(input, k)
    <2>1. native => k.format \in {"tmx", "xliff"} /\ AsOpened(input, k) /\ (input.kind = "office" => k.format = "xliff")
      BY <1>4, <1>5, <1>6
    <2>2. job.route = "" /\ k.pc \in {"native", "python"} /\ (k.pc = "native" => native)
      <3>1. k.pc = IF native THEN "native" ELSE "python"
        BY <1>5
      <3>2. job.route = ""
        BY <1>1, <1>2 DEF ExportStage
      <3> QED BY <3>1, <3>2
    <2>3. k.route = "" /\ k.format \in Export!FormatNames
      BY <1>3, <1>5, <2>2
    <2>4. ExportGives(input, k)
      BY <2>2 DEF ExportGives
    <2>5. ExportStage(input, k)
      BY <2>1, <2>2, <2>3 DEF ExportStage
    <2> QED BY <2>4, <2>5
  <1>9. Exporting(input, k)
    BY <1>5, <1>7, <1>8 DEF Exporting
  <1> QED BY <1>9 DEF k

\* An export that stops, one that Rust declines, and one that Rust writes
LEMMA StopExports ==
  ASSUME Exporting(input, job), job.pc # "idle", NEW place \in {"failed", "refused"}
  PROVE  Exporting(input, [job EXCEPT !.pc = place])
  <1> DEFINE k == [job EXCEPT !.pc = place]
  <1>1. IsExportJob(job) /\ ExportSees(input, job) /\ ExportStage(input, job)
    BY DEF Exporting
  <1>2. /\ k.pc = place /\ k.format = job.format /\ k.peeked = job.peeked /\ k.taken = job.taken /\ k.chosen = job.chosen /\ k.view = job.view
        /\ k.meta = job.meta /\ k.route = job.route /\ IsExportJob(k)
    BY <1>1 DEF IsExportJob
  <1> HIDE DEF k
  <1>3. AsOpened(input, k) <=> AsOpened(input, job)
    BY <1>2 DEF AsOpened
  <1>4. ExportSees(input, k)
    BY <1>1, <1>2, <1>3 DEF ExportSees
  <1>5. ExportStage(input, k) /\ ExportGives(input, k)
    BY <1>1, <1>2 DEF ExportStage, ExportGives
  <1>6. Exporting(input, k)
    BY <1>2, <1>4, <1>5 DEF Exporting
  <1> QED BY <1>6 DEF k

LEMMA DeclineExports ==
  ASSUME Exporting(input, job), job.pc = "native", NEW m, IsMeta(m, Absent), CoveredBy(input.units, m.locales),
         input.kind = "document" => m = job.meta
  PROVE  Exporting(input, Export!Declined(m))
  <1> DEFINE k == Export!Declined(m)
  <1>1. IsExportJob(job) /\ ExportSees(input, job) /\ ExportStage(input, job)
    BY DEF Exporting
  <1>2. AsOpened(input, job) /\ job.peeked = 0 /\ job.chosen = Absent
    BY <1>1 DEF ExportStage, AsOpened
  <1>3. /\ k.pc = "python" /\ k.format = job.format /\ k.peeked = job.peeked /\ k.taken = job.taken /\ k.chosen = job.chosen /\ k.view = job.view
        /\ k.meta = m /\ k.route = "declined" /\ IsExportJob(k)
    <2>1. k = [job EXCEPT !.pc = "python", !.route = "declined", !.meta = m]
      BY DEF Export!Declined
    <2> HIDE DEF k
    <2> QED BY <1>1, <2>1 DEF IsExportJob
  <1> HIDE DEF k
  <1>4. input.kind = "document" => AsOpened(input, k)
    BY <1>2, <1>3 DEF AsOpened
  <1>5. ExportSees(input, k)
    BY <1>1, <1>2, <1>3, <1>4 DEF ExportSees
  <1>6. ExportStage(input, k) /\ ExportGives(input, k)
    BY <1>1, <1>2, <1>3 DEF ExportStage, ExportGives
  <1>7. Exporting(input, k)
    BY <1>3, <1>5, <1>6 DEF Exporting
  <1> QED BY <1>7 DEF k

LEMMA DoneIs ==
  ASSUME IsExportJob(job), NEW content, NEW route
  PROVE  LET k == Export!Done(content, route) IN
         /\ k.pc = "done" /\ k.format = job.format /\ k.peeked = job.peeked /\ k.taken = job.taken /\ k.chosen = job.chosen /\ k.view = job.view
         /\ k.meta = job.meta /\ k.route = route /\ k.content = content /\ IsExportJob(k)
  <1>1. Export!Done(content, route) = [job EXCEPT !.pc = "done", !.route = route, !.content = content]
    BY DEF Export!Done
  <1> QED BY <1>1 DEF IsExportJob

LEMMA NativeIs ==
  ASSUME Export!DocumentsAssumption, ExportInv, job.pc = "native"
  PROVE  /\ input \in ExportInputs /\ IsExportJob(job) /\ Exporting(input, job) /\ job.format \in {"tmx", "xliff"} /\ AsOpened(input, job)
         /\ job.meta = Export!Meta(input.opened) /\ job.meta.locales = input.opened /\ job.view = job.meta /\ IsMeta(job.meta, Absent)
         /\ input.kind = "office" => job.format = "xliff"
  <1>1. input \in ExportInputs /\ IsExportJob(job) /\ Exporting(input, job) /\ ExportSees(input, job) /\ ExportStage(input, job)
    BY DEF ExportInv, Exporting
  <1>2. AsOpened(input, job) /\ job.format \in {"tmx", "xliff"} /\ (input.kind = "office" => job.format = "xliff")
    BY <1>1 DEF ExportStage
  <1>3. job.meta = Export!Meta(input.opened) /\ job.chosen = Absent
    BY <1>2 DEF AsOpened
  <1>4. job.view = Export!Meta(input.opened) /\ IsMeta(job.meta, job.chosen)
    BY <1>1 DEF ExportSees
  <1>5. job.meta.locales = input.opened
    BY <1>3 DEF Export!Meta
  <1> QED BY <1>1, <1>2, <1>3, <1>4, <1>5

LEMMA RustExports ==
  ASSUME Exporting(input, job), job.pc = "native", input.failAt = 0, NEW content, NEW route \in {"native", "copied"},
         ByRust(input, Export!Done(content, route))
  PROVE  Exporting(input, Export!Done(content, route))
  <1> DEFINE k == Export!Done(content, route)
  <1>1. IsExportJob(job) /\ ExportSees(input, job) /\ ExportStage(input, job)
    BY DEF Exporting
  <1>2. /\ k.pc = "done" /\ k.format = job.format /\ k.peeked = job.peeked /\ k.taken = job.taken /\ k.chosen = job.chosen /\ k.view = job.view
        /\ k.meta = job.meta /\ k.route = route /\ IsExportJob(k)
    BY <1>1, DoneIs
  <1> HIDE DEF k
  <1>3. AsOpened(input, k) <=> AsOpened(input, job)
    BY <1>2 DEF AsOpened
  <1>4. ExportSees(input, k)
    BY <1>1, <1>2, <1>3 DEF ExportSees
  <1>5. ExportStage(input, k)
    BY <1>1, <1>2 DEF ExportStage
  <1>6. ExportGives(input, k)
    BY <1>2 DEF ExportGives, k
  <1>7. Exporting(input, k)
    BY <1>2, <1>4, <1>5, <1>6 DEF Exporting
  <1> QED BY <1>7 DEF k

LEMMA NativeBaseExports ==
  ASSUME Export!DocumentsAssumption, ExportInv, Export!NativeBase
  PROVE  Exporting(input, job')
  <1> DEFINE one == Cardinality(job.meta.locales) <= 1 /\ (job.format = "xliff" => job.meta.locale # Absent)
             content == IF job.format = "tmx" THEN Export!TmxText(input.units, job.meta) ELSE Export!XliffSingle(input.units, job.meta.locale)
             k == Export!Done(content, "native")
  <1>1. job.pc = "native" /\ input.kind = "document"
    BY DEF Export!NativeBase
  <1>2. /\ input \in ExportInputs /\ IsExportJob(job) /\ Exporting(input, job) /\ job.format \in {"tmx", "xliff"} /\ AsOpened(input, job)
        /\ job.meta.locales = input.opened /\ job.view = job.meta /\ IsMeta(job.meta, Absent)
    BY <1>1, NativeIs
  <1>3. input.failAt = 0 /\ CoveredBy(input.units, input.opened)
    BY <1>1, <1>2, ExportInputIs
  <1>4. Exporting(input, Export!Declined(job.meta))
    BY <1>1, <1>2, <1>3, DeclineExports
  <1>5. Exporting(input, Export!Failed)
    BY <1>1, <1>2, StopExports DEF Export!Failed
  <1>6. ASSUME one PROVE Exporting(input, k)
    <2>1. /\ k.view = job.view /\ k.meta = job.meta /\ k.route = "native" /\ k.content = content /\ k.format = job.format
          /\ k.peeked = job.peeked /\ k.chosen = job.chosen
      BY <1>2, DoneIs
    <2> HIDE DEF k
    <2>2. AsOpened(input, k) /\ k.view = k.meta
      BY <1>2, <2>1 DEF AsOpened
    <2>3. \/ k.format = "tmx" /\ k.content = Export!TmxText(input.units, k.meta)
          \/ k.format = "xliff" /\ k.content = Export!XliffSingle(input.units, k.meta.locale) /\ k.meta.locale # Absent
      BY <1>2, <1>6, <2>1
    <2>4. ByRust(input, k)
      BY <2>1, <2>2, <2>3 DEF ByRust
    <2> QED BY <1>1, <1>2, <1>3, <2>4, RustExports DEF k
  <1>7. job' \in {Export!Declined(job.meta), Export!Failed} \/ (one /\ job' = k)
    BY ExportCounts DEF Export!NativeBase
  <1> HIDE DEF one, k
  <1> QED BY <1>4, <1>5, <1>6, <1>7

LEMMA NativeOfficeExports ==
  ASSUME Export!DocumentsAssumption, ExportInv, Export!NativeOffice
  PROVE  Exporting(input, job')
  <1> DEFINE content == Export!XliffSingle(input.units, job.meta.locale)
             k == Export!Done(content, "native")
  <1>1. job.pc = "native" /\ input.kind = "office"
    BY DEF Export!NativeOffice
  <1>2. /\ input \in ExportInputs /\ IsExportJob(job) /\ Exporting(input, job) /\ job.format = "xliff" /\ AsOpened(input, job)
        /\ job.meta.locales = input.opened /\ job.view = job.meta /\ IsMeta(job.meta, Absent)
    BY <1>1, NativeIs
  <1>3. CoveredBy(input.units, job.meta.locales)
    BY <1>1, <1>2, ExportInputIs DEF CoveredBy
  <1>4. Exporting(input, Export!Declined(job.meta))
    BY <1>1, <1>2, <1>3, DeclineExports
  <1>5. Exporting(input, Export!Failed)
    BY <1>1, <1>2, StopExports DEF Export!Failed
  <1>6. ASSUME input.failAt = 0 PROVE Exporting(input, k)
    <2>1. /\ k.view = job.view /\ k.meta = job.meta /\ k.route = "native" /\ k.content = content /\ k.format = job.format
          /\ k.peeked = job.peeked /\ k.chosen = job.chosen
      BY <1>2, DoneIs
    <2> HIDE DEF k
    <2>2. AsOpened(input, k) /\ k.view = k.meta
      BY <1>2, <2>1 DEF AsOpened
    <2>3. ByRust(input, k)
      BY <1>1, <1>2, <2>1, <2>2 DEF ByRust
    <2> QED BY <1>1, <1>2, <1>6, <2>3, RustExports DEF k
  <1>7. job' \in {Export!Declined(job.meta), Export!Failed} \/ (input.failAt = 0 /\ job' = k)
    <2>1. input.failAt \in Nat
      BY <1>2, ExportInputIs
    <2> QED BY <2>1 DEF Export!NativeOffice
  <1> HIDE DEF k
  <1> QED BY <1>4, <1>5, <1>6, <1>7

LEMMA NativeConvertExports ==
  ASSUME Export!DocumentsAssumption, ExportInv, NEW copied, Export!NativeConvert(copied)
  PROVE  Exporting(input, job')
  <1> DEFINE all == Export!Localized(input.units)
             c == Export!Done(all, "copied")
             k == Export!Done(Export!ConvertText, "native")
  <1>1. job.pc = "native" /\ input.kind = "interchange"
    BY DEF Export!NativeConvert
  <1>2. /\ input \in ExportInputs /\ IsExportJob(job) /\ Exporting(input, job) /\ job.format \in {"tmx", "xliff"} /\ AsOpened(input, job)
        /\ job.meta = Export!Meta(input.opened) /\ job.view = job.meta /\ IsMeta(job.meta, Absent)
    BY <1>1, NativeIs
  <1>3. ASSUME input.failAt = 0 PROVE Exporting(input, Export!Declined(Export!Refresh))
    <2>1. Export!Limit \in Nat
      BY <1>2, ExportInputIs
    <2>2. IsMeta(Export!Refresh, Absent) /\ CoveredBy(input.units, Export!Refresh.locales)
      BY <1>1, <1>2, <1>3, <2>1, MetaKnows DEF Export!Refresh
    <2> QED BY <1>1, <1>2, <2>2, DeclineExports
  <1>4. Exporting(input, Export!Failed)
    BY <1>1, <1>2, StopExports DEF Export!Failed
  <1>5. ASSUME input.failAt = 0 PROVE Exporting(input, c)
    <2>1. /\ c.view = job.view /\ c.meta = job.meta /\ c.route = "copied" /\ c.content = all /\ c.peeked = job.peeked /\ c.chosen = job.chosen
      BY <1>2, DoneIs
    <2> HIDE DEF c
    <2>2. AsOpened(input, c) /\ c.view = c.meta
      BY <1>2, <2>1 DEF AsOpened
    <2>3. ByRust(input, c)
      BY <1>1, <2>1, <2>2 DEF ByRust
    <2> QED BY <1>1, <1>2, <1>5, <2>3, RustExports DEF c
  <1>6. ASSUME input.failAt = 0 PROVE Exporting(input, k)
    <2>1. /\ k.view = job.view /\ k.meta = job.meta /\ k.route = "native" /\ k.content = Export!ConvertText /\ k.format = job.format
          /\ k.peeked = job.peeked /\ k.chosen = job.chosen
      BY <1>2, DoneIs
    <2> HIDE DEF k
    <2>2. AsOpened(input, k) /\ k.view = k.meta
      BY <1>2, <2>1 DEF AsOpened
    <2>3. Export!MetaAfter(0) = job.meta
      <3>1. 0 \in Nat
        OBVIOUS
      <3> QED BY <1>2, <3>1, MetaKnows
    <2>4. Export!ConvertText = IF job.format = "tmx" THEN Export!TmxText(input.units, job.meta)
                               ELSE IF job.meta.locale = Absent THEN {} ELSE Export!XliffSingle(input.units, job.meta.locale)
      BY <2>3 DEF Export!ConvertText
    <2>5. \/ k.format = "tmx" /\ k.content = Export!TmxText(input.units, k.meta)
          \/ k.format = "xliff" /\ k.meta.locale = Absent /\ k.content = {}
          \/ k.format = "xliff" /\ k.content = Export!XliffSingle(input.units, k.meta.locale) /\ k.meta.locale # Absent
      BY <1>2, <2>1, <2>4
    <2>6. ByRust(input, k)
      BY <1>1, <2>1, <2>2, <2>5 DEF ByRust
    <2> QED BY <1>1, <1>2, <1>6, <2>6, RustExports DEF k
  <1>7. job' = Export!Failed \/ (input.failAt = 0 /\ job' \in {Export!Declined(Export!Refresh), c, k})
    <2>1. input.failAt \in Nat
      BY <1>2, ExportInputIs
    <2> QED BY <2>1 DEF Export!NativeConvert
  <1> HIDE DEF c, k
  <1> QED BY <1>3, <1>4, <1>5, <1>6, <1>7

LEMMA ReadIs ==
  ASSUME IsExportJob(job)
  PROVE  LET k == [job EXCEPT !.pc = "read", !.view = job.meta] IN
         /\ k.pc = "read" /\ k.format = job.format /\ k.peeked = job.peeked /\ k.taken = job.taken /\ k.chosen = job.chosen /\ k.view = job.meta
         /\ k.meta = job.meta /\ k.route = job.route /\ IsExportJob(k)
  <1> DEFINE k == [job EXCEPT !.pc = "read", !.view = job.meta]
  <1>1. PICK m : m = job.meta
    OBVIOUS
  <1>2. k = [job EXCEPT !.pc = "read", !.view = m]
    BY <1>1
  <1> HIDE DEF k
  <1>3. k = [pc |-> "read", format |-> job.format, group |-> job.group, path |-> job.path, route |-> job.route, chosen |-> job.chosen,
             meta |-> job.meta, view |-> m, peeked |-> job.peeked, taken |-> job.taken, content |-> job.content]
    BY <1>2 DEF IsExportJob
  <1>4. IsExportJob(k)
    BY <1>3 DEF IsExportJob
  <1> QED BY <1>1, <1>3, <1>4 DEF k

LEMMA PrepareExports ==
  ASSUME ExportInv, Export!Prepare
  PROVE  Exporting(input, job')
  <1> DEFINE k == [job EXCEPT !.pc = "read", !.view = job.meta]
  <1>1. job.pc = "python" /\ job' \in {k, [job EXCEPT !.pc = "refused"]}
    BY DEF Export!Prepare
  <1>2. Exporting(input, job) /\ IsExportJob(job) /\ ExportSees(input, job) /\ ExportStage(input, job)
    BY DEF ExportInv, Exporting
  <1>3. Exporting(input, [job EXCEPT !.pc = "refused"])
    BY <1>1, <1>2, StopExports
  <1>4. /\ k.pc = "read" /\ k.format = job.format /\ k.peeked = job.peeked /\ k.taken = job.taken /\ k.chosen = job.chosen /\ k.view = job.meta
        /\ k.meta = job.meta /\ k.route = job.route /\ IsExportJob(k)
    BY <1>2, ReadIs
  <1> HIDE DEF k
  <1>5. AsOpened(input, k) <=> AsOpened(input, job)
    BY <1>4 DEF AsOpened
  <1>6. ExportSees(input, k)
    BY <1>2, <1>4, <1>5 DEF ExportSees
  <1>7. ExportStage(input, k) /\ ExportGives(input, k)
    BY <1>1, <1>2, <1>4 DEF ExportStage, ExportGives
  <1>8. Exporting(input, k)
    BY <1>4, <1>6, <1>7 DEF Exporting
  <1> QED BY <1>1, <1>3, <1>8

LEMMA PullExports ==
  ASSUME ExportInv, Export!Pull
  PROVE  Exporting(input, job')
  <1> DEFINE k == [job EXCEPT !.taken = @ + 1]
  <1>1. job.pc = "read" /\ job' = k
    BY DEF Export!Pull
  <1>2. IsExportJob(job) /\ ExportSees(input, job) /\ ExportStage(input, job)
    BY DEF ExportInv, Exporting
  <1>3. /\ k.pc = "read" /\ k.format = job.format /\ k.peeked = job.peeked /\ k.chosen = job.chosen /\ k.view = job.view
        /\ k.meta = job.meta /\ k.route = job.route /\ IsExportJob(k)
    BY <1>1, <1>2 DEF IsExportJob
  <1> HIDE DEF k
  <1>4. AsOpened(input, k) <=> AsOpened(input, job)
    BY <1>3 DEF AsOpened
  <1>5. ExportSees(input, k)
    BY <1>2, <1>3, <1>4 DEF ExportSees
  <1>6. ExportStage(input, k) /\ ExportGives(input, k)
    BY <1>1, <1>2, <1>3 DEF ExportStage, ExportGives
  <1>7. Exporting(input, k)
    BY <1>3, <1>5, <1>6 DEF Exporting
  <1> QED BY <1>1, <1>7

LEMMA CommitExports ==
  ASSUME Export!DocumentsAssumption, ExportInv, Export!Commit
  PROVE  Exporting(input, job')
  <1> DEFINE content == Export!Written(job.format, Export!Units, job.view)
             route == IF job.route = "" THEN "python" ELSE job.route
             k == Export!Done(content, route)
  <1>1. job.pc = "read" /\ input.failAt = 0 /\ job' \in {k, Export!Failed}
    BY DEF Export!Commit
  <1>2. input \in ExportInputs /\ Exporting(input, job) /\ IsExportJob(job) /\ ExportSees(input, job) /\ ExportStage(input, job)
    BY DEF ExportInv, Exporting
  <1>3. Exporting(input, Export!Failed)
    BY <1>1, <1>2, StopExports DEF Export!Failed
  <1>4. /\ k.pc = "done" /\ k.format = job.format /\ k.peeked = job.peeked /\ k.taken = job.taken /\ k.chosen = job.chosen /\ k.view = job.view
        /\ k.meta = job.meta /\ k.route = route /\ k.content = content /\ IsExportJob(k)
    <2> HIDE DEF content, route
    <2> QED BY <1>2, DoneIs
  <1>5. Export!Units = LeftOf(input, job)
    BY <1>2, LeftAre DEF ExportSees
  <1> HIDE DEF k
  <1>6. LeftOf(input, k) = LeftOf(input, job)
    BY <1>4 DEF LeftOf
  <1>7. AsOpened(input, k) <=> AsOpened(input, job)
    BY <1>4 DEF AsOpened
  <1>8. ExportSees(input, k)
    BY <1>2, <1>4, <1>7 DEF ExportSees
  <1>9. job.route \in {"", "declined"} /\ job.view = job.meta
    BY <1>1, <1>2 DEF ExportStage
  <1>10. ExportStage(input, k)
    BY <1>1, <1>2, <1>4, <1>9 DEF ExportStage
  <1>11. ByPython(input, k)
    BY <1>4, <1>5, <1>6, <1>9 DEF ByPython
  <1>12. k.route \in {"python", "declined"}
    BY <1>4, <1>9
  <1>13. ExportGives(input, k)
    BY <1>1, <1>11, <1>12 DEF ExportGives
  <1>14. Exporting(input, k)
    BY <1>4, <1>8, <1>10, <1>13 DEF Exporting
  <1> QED BY <1>1, <1>3, <1>14

LEMMA ExportNext ==
  ASSUME Export!DocumentsAssumption, Export!FormatsAssumption, ExportInv, [Export!Next]_(Export!vars)
  PROVE  ExportInv'
  <1>1. CASE UNCHANGED Export!vars
    BY <1>1 DEF Export!vars, ExportInv
  <1>2. CASE Export!Next
    <2>1. input' = input
      BY <1>2 DEF Export!Next, Export!Peek, Export!Choose, Export!Write, Export!NativeBase, Export!NativeOffice, Export!Prepare,
                  Export!Pull, Export!Commit, Export!ReaderFails, Export!NativeConvert
    <2>2. ASSUME Export!ReaderFails PROVE Exporting(input, job')
      <3>1. job.pc = "read" /\ job' = [job EXCEPT !.pc = "failed"]
        BY <2>2 DEF Export!ReaderFails, Export!Failed
      <3> QED BY <3>1, StopExports DEF ExportInv
    <2>3. Exporting(input, job')
      BY <1>2, <2>2, PeekExports, ChooseExports, WriteExports, NativeBaseExports, NativeOfficeExports, NativeConvertExports,
         PrepareExports, PullExports, CommitExports DEF Export!Next
    <2> QED BY <2>1, <2>3 DEF ExportInv
  <1> QED BY <1>1, <1>2

\* What Rust wrote, and what Python wrote
NamesLocales(us, v, format) ==
  TrueOf(us, v) \/ format \in {"tmx", "lokit"} \/ (format = "xliff" /\ v.locale = Absent)

LEMMA RustKeeps ==
  ASSUME Export!DocumentsAssumption, ExportInv, job.pc = "done", job.route \in {"native", "copied"}
  PROVE  /\ Export!Exported = input.units /\ Export!Units = input.units /\ job.chosen = Absent /\ job.view = job.meta
         /\ NamesLocales(input.units, job.view, job.format) /\ ~Export!KnownLoss => Export!Localized(input.units) \subseteq job.content
         /\ \A t \in job.content : OfUnit(t, input.units)
         /\ TrueOf(input.units, job.view) =>
              /\ \A t \in job.content : ComesOf(t, input.units)
              /\ \A t, i : Plain(t, input.units, i, job.view.locale) => t \in job.content
  <1> DEFINE us == input.units
             v == job.view
             all == Export!Localized(us)
  <1>1. input \in ExportInputs /\ input.failAt = 0 /\ ByRust(input, job) /\ ExportSees(input, job)
    <2>1. Exporting(input, job) /\ ExportGives(input, job) /\ input \in ExportInputs /\ ExportSees(input, job)
      BY DEF ExportInv, Exporting
    <2> QED BY <2>1 DEF ExportGives
  <1>2. AsOpened(input, job) /\ v = job.meta /\ job.peeked = 0 /\ job.chosen = Absent /\ v = Export!Meta(input.opened)
    BY <1>1 DEF ByRust, AsOpened
  <1>3. Export!Exported = us /\ Export!Units = us /\ AreExported(us)
    <2>1. Export!Units = us
      BY <1>1, <1>2, LeftAre DEF ExportSees
    <2>2. AreExported(us)
      BY <1>1, ExportInputIs
    <2> QED BY <2>1, <2>2 DEF Export!Exported
  <1>4. CASE job.route = "copied"
    <2>1. input.kind = "interchange" /\ job.content = all
      BY <1>1, <1>4 DEF ByRust
    <2>2. \A t \in all : ComesOf(t, us) /\ OfUnit(t, us)
      BY FromUnit DEF ComesOf
    <2>3. ASSUME TrueOf(us, v), NEW t, NEW i, Plain(t, us, i, v.locale) PROVE t \in job.content
      <3>1. v.locales = input.opened
        BY <1>2 DEF Export!Meta
      <3>2. v.locale # Absent /\ i \in DOMAIN us /\ us[i].target # Absent
        BY <2>3 DEF Plain, Says
      <3>3. input.opened = {v.locale} /\ CoveredBy(us, {v.locale})
        BY <2>3, <3>1, <3>2, TrueLocale DEF TrueOf
      <3>4. Export!KnownBefore(input, i) = {v.locale}
        <4>1. \A j \in 1..i - 1 : j \in DOMAIN us
          <5>1. DOMAIN us = 1..Len(us) /\ Len(us) \in Nat
            BY <1>1, ExportInputIs
          <5> QED BY <3>2, <5>1
        <4>2. UNION {DOMAIN us[j].targets : j \in 1..i - 1} \subseteq {v.locale}
          BY <3>3, <4>1 DEF CoveredBy
        <4> QED BY <3>3, <4>2 DEF Export!KnownBefore
      <3>5. Cardinality(Export!KnownBefore(input, i)) # 1
        BY <1>1, <2>1, <3>2, ExportInputIs
      <3> QED BY <3>4, <3>5, FS_Singleton
    <2> QED BY <1>2, <1>3, <2>1, <2>2, <2>3
  <1>5. CASE job.route = "native" /\ job.content = Export!TmxText(us, v)
    <2>1. ASSUME NEW t PROVE /\ t \in job.content => ComesOf(t, us) /\ OfUnit(t, us)
                             /\ t \in all => t \in job.content
                             /\ \A i : Plain(t, us, i, v.locale) => t \in job.content
      <3>1. t \in job.content <=> t \in Export!TmxText(us, v)
        BY <1>5
      <3>2. t \in job.content => ComesOf(t, us) /\ OfUnit(t, us)
        BY <3>1, TmxWrites, FromUnit
      <3>3. t \in all => t \in job.content
        BY <3>1, TmxWrites, LocalizedIs
      <3>4. \A i : Plain(t, us, i, v.locale) => t \in job.content
        BY <3>1, TmxWrites
      <3> QED BY <3>2, <3>3, <3>4
    <2> QED BY <1>2, <1>3, <2>1
  <1>6. CASE job.route = "native" /\ job.format = "xliff" /\ input.kind = "interchange" /\ v.locale = Absent /\ job.content = {}
    <2>1. Export!KnownLoss
      <3>1. 0 \in Nat
        OBVIOUS
      <3>2. Export!MetaAfter(0) = v
        BY <1>1, <1>2, <3>1, MetaKnows
      <3> QED BY <1>6, <3>2 DEF Export!KnownLoss
    <2>2. \A t, i : ~Plain(t, us, i, v.locale)
      BY <1>6 DEF Plain, Says
    <2> QED BY <1>2, <1>3, <1>6, <2>1, <2>2
  <1>7. CASE /\ job.route = "native" /\ job.format = "xliff" /\ job.content = Export!XliffSingle(us, v.locale)
             /\ v.locale # Absent \/ input.kind = "office"
    <2>0. \A t : t \in job.content <=> t \in Export!XliffSingle(us, v.locale)
      BY <1>7
    <2>1. \A t \in job.content : OfUnit(t, us)
      BY <1>3, <2>0, SingleWrites
    <2>2. \A t, i : Plain(t, us, i, v.locale) => t \in job.content
      BY <1>3, <2>0, SingleWrites
    <2>3. TrueOf(us, v) => CoveredBy(us, {v.locale})
      <3>1. CASE v.locale # Absent
        BY <3>1, TrueLocale DEF TrueOf
      <3>2. CASE input.kind = "office"
        BY <1>1, <3>2, ExportInputIs DEF CoveredBy
      <3> QED BY <1>7, <3>1, <3>2
    <2>4. TrueOf(us, v) => \A t \in job.content : ComesOf(t, us)
      BY <1>3, <2>0, <2>3, SingleWrites
    <2>5. ASSUME NamesLocales(us, v, job.format), NEW t \in all PROVE t \in job.content
      <3>1. PICK i, l : Translates(t, us, i, l)
        BY <2>5, LocalizedIs
      <3>2. input.kind # "office"
        BY <1>1, <3>1, ExportInputIs DEF Translates
      <3>3. l = v.locale
        BY <1>7, <2>3, <2>5, <3>1, <3>2 DEF NamesLocales, CoveredBy, Translates
      <3>4. Translates(t, us, i, v.locale)
        BY <3>1, <3>3
      <3>5. t \in Export!XliffSingle(us, v.locale)
        BY <1>3, <3>4, SingleWrites
      <3> QED BY <2>0, <3>5
    <2> QED BY <1>2, <1>3, <1>7, <2>1, <2>2, <2>4, <2>5
  <1>8. \/ job.route = "copied"
        \/ job.route = "native" /\ job.content = Export!TmxText(us, v)
        \/ job.route = "native" /\ job.format = "xliff" /\ input.kind = "interchange" /\ v.locale = Absent /\ job.content = {}
        \/ /\ job.route = "native" /\ job.format = "xliff" /\ job.content = Export!XliffSingle(us, v.locale)
           /\ v.locale # Absent \/ input.kind = "office"
    BY <1>1, <1>2 DEF ByRust
  <1> HIDE DEF us, v, all
  <1> QED BY <1>4, <1>5, <1>6, <1>7, <1>8

LEMMA PythonKeeps ==
  ASSUME Export!DocumentsAssumption, ExportInv, job.pc = "done", job.route \in {"python", "declined"}
  PROVE  /\ Export!Exported = Export!Units /\ job.view = job.meta
         /\ NamesLocales(Export!Units, job.view, job.format) /\ ~Export!OnlyOwn => Export!Localized(Export!Units) \subseteq job.content
         /\ \A t \in job.content : OfUnit(t, Export!Units) /\ (job.format = "xliff" /\ job.view.locale # Absent => t[2] = job.view.locale)
         /\ TrueOf(Export!Units, job.view) =>
              /\ \A t \in job.content : ComesOf(t, Export!Units)
              /\ \A t, i : Plain(t, Export!Units, i, job.view.locale) => t \in job.content
         /\ job.view.locale # Absent /\ job.format \in {"tmx", "xliff", "po", "json"} =>
              \A t, i : Translates(t, Export!Units, i, job.view.locale) => t \in job.content
  <1> DEFINE us == Export!Units
             v == job.view
  <1>1. ByPython(input, job) /\ ExportSees(input, job) /\ input \in ExportInputs /\ job.format \in Export!FormatNames
    <2>1. Exporting(input, job) /\ ExportGives(input, job) /\ input \in ExportInputs /\ ExportSees(input, job) /\ ExportStage(input, job)
      BY DEF ExportInv, Exporting
    <2> QED BY <2>1 DEF ExportGives, ExportStage
  <1>2. AreExported(us) /\ us = LeftOf(input, job)
    BY <1>1, LeftAre DEF ExportSees
  <1>3. v = job.meta /\ job.content = Export!Written(job.format, us, v)
    BY <1>1, <1>2 DEF ByPython
  <1>4. Export!Exported = us
    BY DEF Export!Exported
  <1> HIDE DEF us
  <1>5. ASSUME NamesLocales(us, v, job.format), ~Export!OnlyOwn, NEW t \in Export!Localized(us) PROVE t \in job.content
    <2>1. PICK i, l : Translates(t, us, i, l)
      BY <1>5, LocalizedIs
    <2>2. job.format \in {"html", "idml"} => Export!PerLocale(v)
      BY <1>5 DEF Export!OnlyOwn
    <2> QED BY <1>1, <1>2, <1>3, <1>5, <2>1, <2>2, WritesAll DEF NamesLocales
  <1>6. ASSUME NEW t \in job.content
        PROVE  /\ OfUnit(t, us) /\ (job.format = "xliff" /\ v.locale # Absent => t[2] = v.locale)
               /\ TrueOf(us, v) => ComesOf(t, us)
    BY <1>1, <1>2, <1>3, <1>6, WritesUnits, WritesComes
  <1>7. ASSUME TrueOf(us, v), NEW t, NEW i, Plain(t, us, i, v.locale) PROVE t \in job.content
    BY <1>1, <1>2, <1>3, <1>7, WritesPlain
  <1>8. ASSUME v.locale # Absent, job.format \in {"tmx", "xliff", "po", "json"}, NEW t, NEW i, Translates(t, us, i, v.locale)
        PROVE  t \in job.content
    BY <1>2, <1>3, <1>8, WritesChosen
  <1> QED BY <1>3, <1>4, <1>5, <1>6, <1>7, <1>8 DEF us

\* An export keeps the translations.
LEMMA ExportKeeps ==
  ASSUME Export!DocumentsAssumption, ExportInv
  PROVE  Export!ExportKeepsTranslations
  <1> SUFFICES ASSUME job.pc = "done" PROVE Export!ExportKeepsTranslations
    BY DEF Export!ExportKeepsTranslations
  <1> DEFINE us == Export!Exported
             v == job.view
             all == Export!Localized(us)
             byRust == job.route \in {"native", "copied"}
  <1>1. /\ input \in ExportInputs /\ ExportSees(input, job) /\ ExportStage(input, job) /\ input.failAt = 0
        /\ job.route \in {"native", "copied", "python", "declined"}
    <2>1. Exporting(input, job) /\ ExportGives(input, job) /\ input \in ExportInputs /\ ExportSees(input, job) /\ ExportStage(input, job)
      BY DEF ExportInv, Exporting
    <2> QED BY <2>1 DEF ExportGives
  <1>2. IsMeta(v, job.chosen) /\ v = job.meta /\ ChosenLocale # Absent
    BY <1>1, RustKeeps, PythonKeeps, ExportInputIs DEF ExportSees
  <1>3. us = Export!Units
    BY <1>1, RustKeeps, PythonKeeps
  <1>4. Export!TrueMeta(v) <=> CoveredBy(us, v.locales) /\ v = Export!Meta(v.locales)
    BY DEF Export!TrueMeta, CoveredBy
  <1>5. Export!TrueMeta(v) <=> TrueOf(us, v)
    BY <1>2, <1>4 DEF TrueOf, IsMeta
  <1>6. NamesLocales(us, v, job.format) /\ ~Export!KnownLoss /\ ~Export!OnlyOwn => all \subseteq job.content
    BY <1>1, <1>3, RustKeeps, PythonKeeps
  <1>7. ASSUME TrueOf(us, v)
        PROVE  /\ \A t \in job.content : t \in all \/ \E i \in DOMAIN us : t[1] = us[i].id /\ t[3] = us[i].target
               /\ \A i \in DOMAIN us : DOMAIN us[i].targets = {} => Export!Text(us[i], v.locale, us[i].target) \subseteq job.content
    <2>1. /\ \A t \in job.content : ComesOf(t, us)
          /\ \A t, i : Plain(t, us, i, v.locale) => t \in job.content
      BY <1>1, <1>3, <1>7, RustKeeps, PythonKeeps
    <2>2. \A t \in job.content : t \in all \/ \E i \in DOMAIN us : t[1] = us[i].id /\ t[3] = us[i].target
      BY <2>1 DEF ComesOf, OwnOf
    <2>3. ASSUME NEW i \in DOMAIN us, DOMAIN us[i].targets = {}, NEW t \in Export!Text(us[i], v.locale, us[i].target) PROVE t \in job.content
      <3>1. Plain(t, us, i, v.locale)
        BY <2>3 DEF Plain, Says, Export!Text
      <3> QED BY <2>1, <3>1
    <2> QED BY <2>2, <2>3
  <1>8. \A t \in job.content : /\ \E i \in DOMAIN Export!Units : Export!Units[i].id = t[1]
                               /\ job.chosen = ChosenLocale /\ job.format = "xliff" => t[2] = ChosenLocale
    <2>1. job.chosen = ChosenLocale => v.locale = ChosenLocale
      BY <1>2 DEF IsMeta
    <2>2. CASE byRust
      BY <1>2, <2>2, RustKeeps DEF OfUnit
    <2>3. CASE ~byRust
      BY <1>1, <1>2, <2>1, <2>3, PythonKeeps DEF OfUnit
    <2> QED BY <2>2, <2>3
  <1>9. ASSUME job.chosen = ChosenLocale, job.format \in {"tmx", "xliff", "po", "json"}, NEW t \in all, t[2] = ChosenLocale
        PROVE  t \in job.content
    <2>1. ~byRust /\ v.locale = ChosenLocale
      BY <1>2, <1>9, RustKeeps DEF IsMeta
    <2>2. PICK i, l : Translates(t, us, i, l)
      BY <1>9, LocalizedIs
    <2>3. l = ChosenLocale
      BY <1>9, <2>2 DEF Translates, Says
    <2> QED BY <1>1, <1>2, <1>3, <1>9, <2>1, <2>2, <2>3, PythonKeeps
  <1>10. (job.route = "declined" \/ input.kind = "document") => Export!TrueMeta(job.meta)
    <2>1. CASE input.kind = "document"
      <3>1. v = Export!Meta(input.opened) /\ job.peeked = 0
        BY <1>1, <1>2, <2>1 DEF ExportSees, AsOpened
      <3>2. us = input.units
        BY <1>1, <1>3, <3>1, LeftAre DEF ExportSees
      <3>3. CoveredBy(us, input.opened) /\ v.locales = input.opened
        BY <1>1, <2>1, <3>1, <3>2, ExportInputIs DEF Export!Meta
      <3> QED BY <1>2, <1>4, <3>1, <3>3
    <2>2. CASE job.route = "declined"
      <3>1. job.peeked = 0 /\ job.chosen = Absent /\ CoveredBy(input.units, v.locales)
        BY <1>1, <1>2, <2>2 DEF ExportStage
      <3>2. us = input.units
        BY <1>1, <1>3, <3>1, LeftAre DEF ExportSees
      <3>3. v = Export!Meta(v.locales)
        BY <1>2, <3>1 DEF IsMeta
      <3> QED BY <1>2, <1>4, <3>1, <3>2, <3>3
    <2> QED BY <2>1, <2>2
  <1>11. Export!TrueMeta(IF job.route = "native" THEN job.meta ELSE v) <=> TrueOf(us, v)
    BY <1>2, <1>5
  <1> HIDE DEF us, v, all
  <1> DEFINE true == v.locale # ChosenLocale /\ Export!TrueMeta(IF job.route = "native" THEN job.meta ELSE v)
  <1>13. true => TrueOf(us, v)
    BY <1>11
  <1>14. ((true \/ job.format \in {"tmx", "lokit"} \/ (job.format = "xliff" /\ v.locale = Absent)) /\ ~Export!KnownLoss /\ ~Export!OnlyOwn =>
            all \subseteq job.content)
    BY <1>6, <1>13 DEF NamesLocales
  <1>15. {t \in all : t[2] = ChosenLocale} \subseteq job.content \/ ~(job.chosen = ChosenLocale /\ job.format \in {"tmx", "xliff", "po", "json"})
    BY <1>9
  <1> HIDE DEF true
  <1> QED BY <1>7, <1>8, <1>10, <1>13, <1>14, <1>15 DEF Export!ExportKeepsTranslations, us, v, all, true

-----------------------------------------------------------------------------
(***************************************************************************)
(* The parts together: each is in a state that its invariant allows, and   *)
(* what a part does leaves the others as they are.                         *)
(***************************************************************************)
CallsInv ==
  /\ MatchInv /\ StreamInv /\ UnitInv /\ DocumentInv
  /\ part = "import" => TellingInv
  /\ part = "split" => SplitInv
  /\ part = "parallel" => ProjectingInv /\ InTurn(job)
  /\ part = "export" => ExportInv

LEMMA NothingMatches ==
  ASSUME NoMatch
  PROVE  MatchInv
  <1>1. AreRows(<<>>)
    <2>1. DOMAIN <<>> = {}
      OBVIOUS
    <2> QED BY <2>1 DEF AreRows
  <1> QED BY <1>1 DEF NoMatch, MatchInv, MatchGood, MatchState, Idle, Scans, Cursors

LEMMA MatchStep ==
  ASSUME MatchInv, [Next]_vars
  PROVE  MatchInv'
  <1>1. CASE UNCHANGED vars
    BY <1>1 DEF vars, MatchInv
  <1> QED BY <1>1, MatchCall, MatchReads, MatchCommits DEF Next

LEMMA StreamStep ==
  ASSUME Stream!SizesAssumption, StreamInv, [Stream!Next]_(Stream!vars)
  PROVE  StreamInv'
  <1>1. CASE UNCHANGED Stream!vars
    BY <1>1 DEF Stream!vars, StreamInv
  <1> QED BY <1>1, StepKeeps, DisturbKeeps DEF Stream!Next

LEMMA ProjectionStep ==
  ASSUME Parallel!InputsAssumption, ProjectingInv, InTurn(job), [Parallel!Next]_(Parallel!vars)
  PROVE  (ProjectingInv /\ InTurn(job))'
  <1>1. Parallel!IsInput(input)
    BY DEF ProjectingInv, Projecting, Parallel!InputsAssumption
  <1>2. CASE Parallel!Next
    BY <1>1, <1>2, NextGood, NextInTurn
  <1>3. CASE UNCHANGED Parallel!vars
    BY <1>3, NextGood DEF Parallel!vars
  <1> QED BY <1>2, <1>3

LEMMA CallsBegin ==
  ASSUME CallsInit
  PROVE  CallsInv
  <1>1. StreamInv
    BY StreamInit, PartsAssumption DEF CallsInit
  <1>2. MatchInv
    BY MatchInit, NothingMatches DEF CallsInit
  <1>3. ASSUME part = "import" PROVE TellingInv
    BY <1>3, ImportBegins, TellingBegins, PartsAssumption DEF CallsInit, TellingInv
  <1>4. ASSUME part = "split" PROVE SplitInv
    BY <1>4, SplitBegins, PartsAssumption DEF CallsInit
  <1>5. ASSUME part = "parallel" PROVE ProjectingInv /\ InTurn(job)
    <2>1. Parallel!Init /\ job.pending = <<>>
      BY <1>5 DEF CallsInit, Parallel!Init, Parallel!Idle
    <2> QED BY <2>1, InitGood, NoTurn, PartsAssumption
  <1>6. UnitInv /\ DocumentInv
    <2>1. loads = <<>> /\ rows = <<>>
      BY DEF CallsInit, Unit!Init, Document!Init
    <2>2. ResultRows \in Nat
      BY MemoryAssumption DEF Document!KeysAssumption
    <2> QED BY <2>1, <2>2 DEF UnitInv, DocumentInv
  <1>7. ASSUME part = "export" PROVE ExportInv
    BY <1>7, ExportBegins, PartsAssumption DEF CallsInit
  <1> QED BY <1>1, <1>2, <1>3, <1>4, <1>5, <1>6, <1>7 DEF CallsInv

LEMMA CallsStep ==
  ASSUME CallsInv, [CallsNext]_callsVars
  PROVE  CallsInv'
  <1>1. ASSUME UNCHANGED saved PROVE UnitInv' /\ DocumentInv'
    BY <1>1 DEF CallsInv, UnitInv, DocumentInv, saved
  <1>2. CASE UNCHANGED callsVars
    <2>1. UNCHANGED <<part, vars, Stream!vars, input, job, saved>>
      BY <1>2 DEF callsVars, memory, vars, Stream!vars
    <2>2. MatchInv' /\ StreamInv'
      BY <2>1, MatchStep, StreamStep, PartsAssumption DEF CallsInv
    <2> QED BY <1>1, <2>1, <2>2 DEF CallsInv, TellingInv, ImportInv, SplitInv, ProjectingInv, ExportInv
  <1>3. CASE part = "match" /\ Next /\ UNCHANGED <<part, stream, held, faults, input, job, saved>>
    <2>1. UnitInv' /\ DocumentInv'
      BY <1>1, <1>3
    <2> QED BY <1>3, <2>1, MatchStep DEF CallsInv, StreamInv
  <1>4. CASE part = "stream" /\ Stream!Next /\ UNCHANGED <<part, store, match, input, job, saved>>
    <2>1. UnitInv' /\ DocumentInv'
      BY <1>1, <1>4
    <2> QED BY <1>4, <2>1, StreamStep, PartsAssumption DEF CallsInv, MatchInv
  <1>5. ASSUME UNCHANGED <<part, memory>> PROVE MatchInv' /\ StreamInv' /\ part' = part
    BY <1>5 DEF CallsInv, MatchInv, StreamInv, memory
  <1>6. ASSUME UNCHANGED <<part, memory, saved>> PROVE MatchInv' /\ StreamInv' /\ UnitInv' /\ DocumentInv' /\ part' = part
    BY <1>1, <1>5, <1>6
  <1>7. CASE part = "import" /\ Import!Next /\ UNCHANGED <<part, memory, saved>>
    BY <1>6, <1>7, TellingNext, PartsAssumption DEF CallsInv
  <1>8. CASE part = "split" /\ Split!Next /\ UNCHANGED <<part, memory, saved>>
    BY <1>6, <1>8, SplitNext, PartsAssumption DEF CallsInv
  <1>9. CASE part = "parallel" /\ Parallel!Next /\ UNCHANGED <<part, memory, saved>>
    BY <1>6, <1>9, ProjectionStep, PartsAssumption DEF CallsInv
  <1>10. CASE part = "unit" /\ Unit!Next /\ UNCHANGED <<part, memory, input, job, rows>>
    <2>1. UnitInv' /\ DocumentInv'
      BY <1>10, UnitNext DEF CallsInv, DocumentInv
    <2> QED BY <1>5, <1>10, <2>1 DEF CallsInv
  <1>11. CASE part = "document" /\ Document!Next /\ UNCHANGED <<part, memory, input, job, row, loads>>
    <2>1. UnitInv' /\ DocumentInv'
      BY <1>11, DocumentNext DEF CallsInv, UnitInv
    <2> QED BY <1>5, <1>11, <2>1 DEF CallsInv
  <1>12. CASE part = "export" /\ Export!Next /\ UNCHANGED <<part, memory, saved>>
    BY <1>6, <1>12, ExportNext, PartsAssumption DEF CallsInv
  <1> QED BY <1>2, <1>3, <1>4, <1>7, <1>8, <1>9, <1>10, <1>11, <1>12 DEF CallsNext

\* Whatever is read, and however the parts take turns: their invariants hold.
THEOREM CallsInvariant ==
  CallsSpec => []CallsInv
  <1>1. CallsInit => CallsInv
    BY CallsBegin
  <1>2. CallsInv /\ [CallsNext]_callsVars => CallsInv'
    BY CallsStep
  <1> QED BY <1>1, <1>2, PTL DEF CallsSpec

\* A match returns the best rows of the memory, and no load makes it return one twice.
THEOREM MatchesAreSound ==
  CallsSpec => []MatchIsSound
  <1>1. CallsInv => MatchIsSound
    BY MatchAnswers DEF CallsInv
  <1> QED BY <1>1, CallsInvariant, PTL

\* Connections, readers, the files of a split and threads are given back: TranslationMemoryStream.aclose,
\* the importers, StreamingTargetSplit and the parallel projection, whatever fails or is cancelled.
\* A split that fails over a master file before its first unit leaves the caller's stream as given.
THEOREM Releases ==
  CallsSpec => []HandlesReleased
  <1>1. CallsInv => HandlesReleased
    BY StreamReturns, ImportDelivers, SplitSelects, ProjectionJoins, PartsAssumption DEF CallsInv, TellingInv, HandlesReleased
  <1> QED BY <1>1, CallsInvariant, PTL

\* What is read to its end is complete, once and in order, and an error comes after what was
\* read before it: streams out of the memory, importers, and the parallel projection.
THEOREM CleanEndsComplete ==
  CallsSpec => []CleanEndIsComplete
  <1>1. CallsInv => CleanEndIsComplete
    BY StreamCompletes, ImportDelivers, ProjectionGives, PartsAssumption DEF CallsInv, TellingInv, CleanEndIsComplete
  <1> QED BY <1>1, CallsInvariant, PTL

\* The parallel projection holds no more batches and bytes than it may, and the batch its caller
\* waits for is running, done, or next for a thread that is free (parsers/tmx/parallel.py).
THEOREM ProjectionsBounded ==
  CallsSpec => []ProjectionIsBounded
  <1>1. CallsInv => ProjectionIsBounded
    BY ProjectionFits, OldestInTurn, PartsAssumption DEF CallsInv, ProjectionIsBounded
  <1> QED BY <1>1, CallsInvariant, PTL

\* The metadata of an import name the locale of every unit and every further file it read: of TMX
\* and XLIFF, whose metadata follow the reader, and of the readers whose header cannot name less.
\* .lokit, legacy JSON and parallel TMX have the header's locales, and the bridges none.
THEOREM MetadataNamesLocales ==
  CallsSpec => []MetadataComplete
  <1>1. CallsInv => MetadataComplete
    BY ImportDelivers, PartsAssumption DEF CallsInv, TellingInv, MetadataComplete
  <1> QED BY <1>1, CallsInvariant, PTL

\* Every importer, by Rust or in Python: a document that is read to its end says what the units of
\* its file say, each translation under its locale, each unit under its own identifier, and
\* nothing else, however segments are merged, a single locale is moved into the units, columns are
\* kept apart or PO files are added; and a caller's options are those of the function that is
\* called (importers.py, parsers).
THEOREM ImportsAgree ==
  CallsSpec => []RoutesAgree
  <1>1. CallsInv => RoutesAgree
    BY TellingAgrees DEF CallsInv, TellingInv, RoutesAgree
  <1> QED BY <1>1, CallsInvariant, PTL

\* Splitting a stream by locale through files gives what splitting the document in memory gives.
THEOREM SplitSelection ==
  CallsSpec => []SplitIsSelection
  <1>1. CallsInv => SplitIsSelection
    BY SplitSelects DEF CallsInv, SplitIsSelection
  <1> QED BY <1>1, CallsInvariant, PTL

\* Every exporter, by Rust or in Python, of a document or of a stream that was read from, or given a
\* locale: each translation that it must keep is in the file under its own locale, nothing is in it
\* that the document does not say, and the metadata that it writes by are those of the document
\* (exporters, parsers/interchange.py, office/native.py).
THEOREM ExportsKeep ==
  CallsSpec => []ExportKeepsTranslations
  <1>1. CallsInv => ExportKeepsTranslations
    BY ExportKeeps, PartsAssumption DEF CallsInv, ExportKeepsTranslations
  <1> QED BY <1>1, CallsInvariant, PTL

\* What the memory is loaded with reads back: a unit as it was loaded last, for any values it may
\* have and any number of loads, and every row of a query in the document of several locales,
\* under one key and its own locale, whatever keys the rows have and however they are spelt.
THEOREM ReadsBack ==
  CallsSpec => []MemoryReadsBack
  <1>1. CallsInv => MemoryReadsBack
    BY UnitReads, DocumentKeeps DEF CallsInv, MemoryReadsBack
  <1> QED BY <1>1, CallsInvariant, PTL
=============================================================================
