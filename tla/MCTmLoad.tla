------------------------------ MODULE MCTmLoad ------------------------------
EXTENDS TmLoad, TLC
CONSTANT None

U(key, src, ctx, tgt) == [key |-> key, src |-> src, ctx |-> ctx, tgt |-> tgt]

\* Two contexts whose parts differ but join to the same text, a second key for the
\* same texts, a unit without a target and one that is too large
UnitA == U("k1", "s1", "a|b", "t1")
SameOtherKey == U("k2", "s1", "a|b", "t1")
Collides == U("k1", "s1", "a||b", "t1")
UnitB == U("k2", "s2", "a|b", "t1")
Untranslated == U("k1", "s1", "a|b", None)
Untranslated2 == U("k2", "s1", "a|b", None)
Large == U("k3", "s2", "a|b", "t2")
MCUnits == {UnitA, SameOtherKey, Collides, UnitB, Untranslated, Untranslated2, Large}

MCDocuments == {<<UnitA, Untranslated, UnitB>>, <<UnitB, Untranslated2, UnitA>>, 
                <<UnitA, Collides>>, <<UnitA, SameOtherKey, Large>>}
MCHash == [c \in {"a|b", "a||b"} |-> 0]
MCBytes == [u \in MCUnits |-> IF u = Large THEN 5 ELSE 2]
MCLegacyRows == [id \in {<<0, 1>>, <<0, 2>>} |->
  (IF id = <<0, 1>> THEN UnitA ELSE Untranslated) @@ [usage |-> 1, by |-> id, indexed |-> FALSE]]
=============================================================================
