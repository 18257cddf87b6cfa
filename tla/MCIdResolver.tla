----------------------------- MODULE MCIdResolver -----------------------------
(* Identifiers of which one spells another's suffixed form; three seeds: all *)
(* hashes equal, the length as hash, and different hashes.                  *)
EXTENDS IdResolver
MCRaw == {<<>>, <<11>>, <<11, 2>>}
MCResources == {20}
MCPreferred == MCRaw \cup {Prefixed(20, raw) : raw \in MCRaw} \cup {AutoId(n) : n \in 0..MaxCalls}
MCIds == MCPreferred \cup {Append(id, n) : id \in MCPreferred, n \in 2..MaxSuffix}
MCHash(seed, id) ==
  IF seed = 0 THEN 5 ELSE IF seed = 1 THEN Len(id) + 1 ELSE FoldLeft(+, Len(id), id)
=============================================================================
