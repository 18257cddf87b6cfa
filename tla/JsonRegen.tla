----------------------------- MODULE JsonRegen ------------------------------
(***************************************************************************)
(* exporters/json_i18n_regen.py: a JSON file is copied as it is read, with *)
(* the translations of a document in place of its strings.  A file with a  *)
(* member for every locale is read once to see which members count (the    *)
(* last of a name, as for a JSON reader), perhaps once more for the root   *)
(* of the source locale, and once to be written: a locale that has no      *)
(* object gets a copy of the source's.  The translations wait in an index, *)
(* by path.  A member is the sequence of its strings with their paths.     *)
(***************************************************************************)
EXTENDS Targets

CONSTANTS
  Originals,   \* [members, source, locale, locales, requested, units]
  RootKey      \* of every name of a member

VARIABLES input, job
vars == <<input, job>>

FirstOf(locale, other) == IF locale # Absent THEN locale ELSE other
SelectedLocale == FirstOf(input.requested, input.locale)
TargetLocales ==
  IF SelectedLocale # Absent THEN <<SelectedLocale>> ELSE input.locales

-----------------------------------------------------------------------------
(* _inspect_root: the last member of a name is the one that counts *)
Named(members, key) == {i \in DOMAIN members : RootKey[members[i].name] = key}
Latest(members, key) ==
  IF Named(members, key) = {} THEN Absent
  ELSE CHOOSE j \in Named(members, key) : \A k \in Named(members, key) : k <= j

SourceRoot == Latest(input.members, RootKey[input.source])
IsObject(i) == i # Absent /\ input.members[i].object

IsMultilingual ==
  /\ IsObject(SourceRoot)
  /\ \E l \in ToSet(TargetLocales) :
       \/ Latest(input.members, RootKey[l]) # Absent
       \/ \E k \in ToSet(input.locales) : RootKey[k] = RootKey[l]
CloneLocales == SelectSeq(TargetLocales, LAMBDA l : ~IsObject(Latest(input.members, RootKey[l])))
LocaleOf(key) ==   \* the last locale with the key
  LET at == {i \in DOMAIN TargetLocales : RootKey[TargetLocales[i]] = key}
  IN IF at = {} THEN Absent ELSE TargetLocales[CHOOSE i \in at : \A j \in at : j <= i]

\* The index: a unit takes the place of an earlier one with its path, in every locale
IndexedLocales == IF IsMultilingual THEN ToSet(TargetLocales) ELSE {SelectedLocale}
TextsOf(u) == [l \in IndexedLocales |-> TargetText(u, l)]
Replacement(index, path, locale, own) ==
  IF path \in DOMAIN index /\ index[path][locale] # Absent THEN index[path][locale] ELSE own
WriteValue(index, leaves, locale) ==
  [k \in DOMAIN leaves |-> [leaves[k] EXCEPT !.text = Replacement(index, leaves[k].path, locale, leaves[k].text)]]

-----------------------------------------------------------------------------
Init ==
  /\ input \in Originals
  /\ job = [pc |-> "index", at |-> 1, index |-> <<>>, clones |-> <<>>, spool |-> Absent, seen |-> [key \in {} |-> 0], written |-> <<>>]

IndexUnit ==
  /\ job.pc = "index" /\ job.at <= Len(input.units)
  /\ LET u == input.units[job.at] IN job' = [job EXCEPT !.at = @ + 1, !.index = (u.path :> TextsOf(u)) @@ @]
  /\ UNCHANGED input

\* The units are read and closed; the root of the source is copied if a locale needs it
Spool ==
  /\ job.pc = "index" /\ job.at > Len(input.units)
  /\ LET clones == IF IsMultilingual THEN CloneLocales ELSE <<>> IN
     job' = [job EXCEPT !.pc = "write", !.at = 1, !.clones = clones,
                        !.spool = IF clones = <<>> THEN Absent ELSE input.members[SourceRoot].leaves]
  /\ UNCHANGED input

\* A member of a file with a root for every locale: which one of its name it is, is counted
Occurrence(m) == IF RootKey[m.name] \in DOMAIN job.seen THEN job.seen[RootKey[m.name]] + 1 ELSE 1
LatestOccurrence(key) == Cardinality(Named(SubSeq(input.members, 1, Latest(input.members, key)), key))
WriteRoot ==
  /\ job.pc = "write" /\ IsMultilingual /\ job.at <= Len(input.members)
  /\ LET m == input.members[job.at]
         key == RootKey[m.name]
         locale == LocaleOf(key)
         selected == locale # Absent /\ Occurrence(m) = LatestOccurrence(key)
         cloned == selected /\ locale \in ToSet(job.clones)
         leaves == IF cloned THEN WriteValue(job.index, job.spool, locale)
                   ELSE IF selected THEN WriteValue(job.index, m.leaves, locale) ELSE m.leaves
     IN job' = [job EXCEPT !.at = @ + 1, !.seen = IF locale = Absent THEN @ ELSE (key :> Occurrence(m)) @@ @,
                           !.written = Append(@, [m EXCEPT !.leaves = leaves, !.object = @ \/ cloned])]
  /\ UNCHANGED input

\* The locales that are not in the file follow its members
AppendRoot ==
  /\ job.pc = "write" /\ IsMultilingual /\ job.at > Len(input.members) /\ job.clones # <<>>
  /\ LET l == Head(job.clones)
         root == [name |-> l, object |-> TRUE, leaves |-> WriteValue(job.index, job.spool, l)]
     IN job' = [job EXCEPT !.clones = Tail(@), !.written = IF Latest(input.members, RootKey[l]) = Absent THEN Append(@, root) ELSE @]
  /\ UNCHANGED input

\* Any other file has one locale, and its paths begin at the root
WriteMember ==
  /\ job.pc = "write" /\ ~IsMultilingual /\ job.at <= Len(input.members)
  /\ LET m == input.members[job.at]
         rooted == [k \in DOMAIN m.leaves |-> [m.leaves[k] EXCEPT !.path = <<m.name>> \o @]]
         leaves == WriteValue(job.index, rooted, SelectedLocale)
     IN job' = [job EXCEPT !.at = @ + 1, !.written = Append(@, [m EXCEPT !.leaves = [k \in DOMAIN @ |-> [@[k] EXCEPT !.text = leaves[k].text]]])]
  /\ UNCHANGED input

Finish ==
  /\ job.pc = "write" /\ job.at > Len(input.members) /\ (IsMultilingual => job.clones = <<>>)
  /\ job' = [job EXCEPT !.pc = "done"]
  /\ UNCHANGED input

Next == IndexUnit \/ Spool \/ WriteRoot \/ AppendRoot \/ WriteMember \/ Finish

Spec == Init /\ [][Next]_vars

-----------------------------------------------------------------------------
(* What a JSON reader finds in a file: the last member of a name, and of a path in it *)
ReadLeaves(leaves) ==
  [path \in {leaf.path : leaf \in ToSet(leaves)} |->
     LET at == {k \in DOMAIN leaves : leaves[k].path = path} IN leaves[CHOOSE k \in at : \A j \in at : j <= k].text]
ReadRoot(members, l) ==
  LET at == {i \in DOMAIN members : RootKey[members[i].name] = RootKey[l] /\ \A j \in DOMAIN members :
               RootKey[members[j].name] = RootKey[l] => j <= i}
  IN IF at = {} THEN Absent ELSE LET m == members[CHOOSE i \in at : TRUE] IN IF m.object THEN ReadLeaves(m.leaves) ELSE Absent
Translation(path, l) ==
  LET at == {i \in DOMAIN input.units : input.units[i].path = path}
  IN IF at = {} THEN Absent ELSE TargetText(input.units[CHOOSE i \in at : \A j \in at : j <= i], l)

\* A reader of the regenerated file finds under every locale asked for the strings it found
\* there before, or those of the source, each with its translation if the document has one;
\* and under every other name what it found before; members that a later one of their name
\* hides stay as they were (exporters/json_i18n_regen.py).
JsonRegenFaithful ==
  job.pc = "done" =>
    IF IsMultilingual
      THEN /\ \A name \in {m.name : m \in ToSet(input.members)} \cup ToSet(TargetLocales) :
             LET before == ReadRoot(input.members, name)
                 base == IF before # Absent THEN before ELSE ReadRoot(input.members, input.source)
                 asked == \E l \in ToSet(TargetLocales) : RootKey[l] = RootKey[name]
                 after == ReadRoot(job.written, name)
             IN IF asked THEN after = [path \in DOMAIN base |-> FirstOf(Translation(path, LocaleOf(RootKey[name])), base[path])]
                ELSE after = before
           /\ \A i \in DOMAIN input.members : i # Latest(input.members, RootKey[input.members[i].name]) => job.written[i] = input.members[i]
      ELSE \A m \in {input.members[i].name : i \in DOMAIN input.members} :
             LET before == ReadRoot(input.members, m)
             IN before # Absent =>
                  ReadRoot(job.written, m) = [path \in DOMAIN before |-> FirstOf(Translation(<<m>> \o path, SelectedLocale), before[path])]
=============================================================================
