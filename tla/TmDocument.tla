----------------------------- MODULE TmDocument -----------------------------
(***************************************************************************)
(* Documents out of the translation memory (src/lokit/db/operations.py,    *)
(* to_document and to_multilingual_document).  The rows of a query, in its *)
(* order, become units under keys; rows of one unit in several locales     *)
(* become one unit with several targets.                                   *)
(***************************************************************************)
EXTENDS Naturals, FiniteSets, Sequences

CONSTANTS
  Keys,         \* unit keys: sequences of numbers, <<0, 2>> is the text "k#2"
  Texts,        \* the source with its two contexts
  Locales,      \* target locales
  NoLocale,     \* the empty target locale
  MaxRows       \* bound

VARIABLE rows   \* what the query returned

Row == [key : Keys, text : Texts, locale : Locales \cup {NoLocale}]

KeysAssumption == MaxRows \in Nat /\ \A key \in Keys : key \in Seq(Nat)

First(S) == CHOOSE i \in S : \A j \in S : i <= j
LastOf(S) == CHOOSE i \in S : \A j \in S : i >= j

-----------------------------------------------------------------------------
(* to_document: a dict of the rows' keys *)

ToDocument == [k \in {rows[i].key : i \in DOMAIN rows} |-> LastOf({i \in DOMAIN rows : rows[i].key = k})]

-----------------------------------------------------------------------------
(* to_multilingual_document *)

SameIdentity(i, j) == rows[i].key = rows[j].key /\ rows[i].text = rows[j].text
Group(i) == {j \in DOMAIN rows : SameIdentity(i, j)}

\* A locale twice in a group, and each row of it becomes a unit.
Chunk(i) ==
  IF \E a, b \in Group(i) : a # b /\ rows[a].locale = rows[b].locale THEN {i} ELSE Group(i)

\* Units come in the order of the first rows of their groups; each is known by its first row.
Leads == {First(Chunk(i)) : i \in DOMAIN rows}
Before(i, j) ==
  \/ First(Group(i)) < First(Group(j))
  \/ First(Group(i)) = First(Group(j)) /\ i < j
Order == [n \in 1..Cardinality(Leads) |-> CHOOSE i \in Leads : Cardinality({j \in Leads : Before(j, i)}) = n - 1]

reserved_keys == {rows[i].key : i \in DOMAIN rows}

\* The key itself, or the first suffix from the next one on that is neither a row's
\* nor used; 'keys' has the used ones and the next suffix of each.
Allocate(keys, key) ==
  IF key \notin keys.used THEN [keys EXCEPT !.used = @ \cup {key}, !.last = key]
  ELSE LET from == IF key \in DOMAIN keys.next THEN keys.next[key] ELSE 2
           Free(n) == Append(key, n) \notin reserved_keys \cup keys.used
           suffix == CHOOSE n \in from..from + 2 * MaxRows : Free(n) /\ \A m \in from..n - 1 : ~Free(m)
       IN [used |-> keys.used \cup {Append(key, suffix)}, last |-> Append(key, suffix),
           next |-> [k \in DOMAIN keys.next \cup {key} |-> IF k = key THEN suffix + 1 ELSE keys.next[k]]]

\* A unit's targets by their locales; data is keyed by the output keys.
Targets(i) ==
  [l \in {rows[j].locale : j \in Chunk(i)} |-> LastOf({j \in Chunk(i) : rows[j].locale = l})]
Add(acc, i) ==
  LET keys == Allocate([used |-> acc.used, next |-> acc.next, last |-> acc.last], rows[i].key)
  IN [used |-> keys.used, next |-> keys.next, last |-> keys.last,
      data |-> [k \in DOMAIN acc.data \cup {keys.last} |-> IF k = keys.last THEN Targets(i) ELSE acc.data[k]]]
Start == [used |-> {}, next |-> [x \in {} |-> x], last |-> <<>>, data |-> [x \in {} |-> x]]
Added[n \in 0..Cardinality(Leads)] == IF n = 0 THEN Start ELSE Add(Added[n - 1], Order[n])
Multilingual == Added[Cardinality(Leads)].data

-----------------------------------------------------------------------------
Init == rows = <<>>

Fetch(row) == Len(rows) < MaxRows /\ rows' = Append(rows, row)

Next == \E row \in Row : Fetch(row)
Spec == Init /\ [][Next]_rows

-----------------------------------------------------------------------------
(* Properties *)

\* Every row of the query is in the multilingual document, once, under its locale and
\* beside rows of its own unit only; the first unit of each key keeps the key, even
\* when the suffixed key of another unit is spelt the same; and a row whose key no
\* other row has reads the same in a document of one pair of locales.
MultilingualKeepsRows ==
  LET data == Multilingual
      Holds(k, i) == rows[i].locale \in DOMAIN data[k] /\ data[k][rows[i].locale] = i
      SharesKey(i, with) == \E j \in with : j # i /\ rows[j].key = rows[i].key
  IN /\ \A i \in DOMAIN rows : Cardinality({k \in DOMAIN data : Holds(k, i)}) = 1
     /\ \A k \in DOMAIN data : \A l, m \in DOMAIN data[k] : SameIdentity(data[k][l], data[k][m])
     /\ \A i \in DOMAIN rows : ~SharesKey(i, 1..i - 1) => Holds(rows[i].key, i)
     /\ \A i \in DOMAIN rows : ~SharesKey(i, DOMAIN rows) =>
          ToDocument[rows[i].key] = i /\ DOMAIN data[rows[i].key] = {rows[i].locale}
=============================================================================
