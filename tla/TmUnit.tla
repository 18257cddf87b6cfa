------------------------------- MODULE TmUnit -------------------------------
(***************************************************************************)
(* What of a unit the translation memory gives back                        *)
(* (src/lokit/db/serialization.py, and what the UPDATEs of queries.py keep *)
(* of an older row).  A unit is loaded, perhaps more than once, and read.  *)
(* One field stands for those that are treated alike: created for the      *)
(* dates and limits of the metadata, previous for both contexts, original  *)
(* and pair for the optional texts of a tag.                               *)
(***************************************************************************)
EXTENDS Naturals, SequencesExt

CONSTANTS
  Units,        \* the units that are loaded, for one row
  Absent,       \* None
  MaxLoads      \* bound: loads of the row

VARIABLES
  row,          \* the row of translation_units and its children
  loads         \* the units loaded into it

vars == <<row, loads>>

None(x) == x = Absent
OrEmpty(x) == IF None(x) THEN "" ELSE x
OrAbsent(x) == IF x = "" THEN Absent ELSE x

\* A JSON object holds no key for an absent value; 'f' has all of them.
Payload(f) == [k \in {k \in DOMAIN f : ~None(f[k])} |-> f[k]]
Get(object, key) == IF key \in DOMAIN object THEN object[key] ELSE Absent
NonEmpty(object) == IF DOMAIN object = {} THEN Absent ELSE object

Reserved == {"_lokit_meta", "_lokit_plural_present", "_lokit_plural_extensions",
             "_lokit_previous_context", "_lokit_tag_original_text_presence"}

-----------------------------------------------------------------------------
(* serialize_unit *)

MetaPayload(d) == NonEmpty(Payload([usage |-> d.usage, created |-> d.created]))

ContextPayload(c) == IF None(c) THEN Absent ELSE NonEmpty(Payload([unit_id |-> c.unit_id]))
ContextSource(c) == IF None(c) THEN "" ELSE OrEmpty(c.source)

\* The tags whose original text is empty: a column cannot tell it from none.
OriginalTextPresence(tags) ==
  IF None(tags) THEN Absent
  ELSE LET empty == {id \in DOMAIN tags : tags[id].original = ""} IN IF empty = {} THEN Absent ELSE empty

PluralExtensions(d) == IF None(d.plural) THEN Absent ELSE NonEmpty(d.plural.extensions)

DataExtensions(d) ==
  LET reserved == [_lokit_meta |-> MetaPayload(d),
                   _lokit_plural_present |-> IF None(d.plural) THEN Absent ELSE TRUE,
                   _lokit_plural_extensions |-> PluralExtensions(d),
                   _lokit_previous_context |-> ContextPayload(d.previous),
                   _lokit_tag_original_text_presence |-> OriginalTextPresence(d.tags)]
      own == Payload(reserved)
  IN [k \in DOMAIN own \cup DOMAIN d.extensions |-> IF k \in DOMAIN own THEN own[k] ELSE d.extensions[k]]

CommentProject(comments) ==
  LET named == SelectSeq(comments, LAMBDA c : ~None(c.project))
  IN IF named = <<>> THEN "" ELSE Head(named).project
Project(d) ==
  LET own == OrEmpty(Get(d.extensions, "project"))
  IN IF own # "" THEN own ELSE CommentProject(d.comments)

SerializeTags(tags) ==
  IF None(tags) THEN [x \in {} |-> x]
  ELSE [id \in DOMAIN tags |-> [pair |-> OrEmpty(tags[id].pair), original |-> OrEmpty(tags[id].original)]]

SerializeUnit(d) ==
  [usage |-> IF None(d.usage) THEN 0 ELSE d.usage,
   variant |-> IF None(d.plural) THEN "" ELSE d.plural.variant,
   count |-> IF None(d.plural) THEN Absent ELSE d.plural.count,
   previous |-> ContextSource(d.previous),
   project |-> Project(d),
   json |-> DataExtensions(d),
   tags |-> SerializeTags(d.tags),
   comments |-> [i \in DOMAIN d.comments |->
      [timestamp |-> OrEmpty(d.comments[i].timestamp), project |-> OrEmpty(d.comments[i].project)]]]

-----------------------------------------------------------------------------
(* The row that is there already: UPSERT_UNITS and UPDATE_EXISTING_UNTRANSLATED *)

\* mutant: the operands of || swapped
OverwriteSwapped(old, new) ==
  [new EXCEPT
     !.usage = (IF old.usage > @ THEN old.usage ELSE @) + 1,
     !.json = [k \in DOMAIN @ \cup DOMAIN old.json |-> IF k \in DOMAIN old.json THEN old.json[k] ELSE @[k]]]

Overwrite(old, new) ==
  [new EXCEPT
     !.usage = (IF old.usage > @ THEN old.usage ELSE @) + 1,
     !.json = [k \in DOMAIN @ \cup DOMAIN old.json |-> IF k \in DOMAIN @ THEN @[k] ELSE old.json[k]]]

-----------------------------------------------------------------------------
(* deserialize_unit *)

Empty == [x \in {} |-> x]
OrObject(x) == IF None(x) THEN Empty ELSE x

DeserializePlural(r) ==
  IF None(Get(r.json, "_lokit_plural_present")) /\ r.variant = "" /\ None(r.count) THEN Absent
  ELSE [variant |-> r.variant, count |-> r.count,
        extensions |-> OrObject(Get(r.json, "_lokit_plural_extensions"))]

DeserializeContext(source, payload) ==
  IF source = "" /\ DOMAIN payload = {} THEN Absent
  ELSE [unit_id |-> Get(payload, "unit_id"), source |-> OrAbsent(source)]

DeserializeTags(r) ==
  LET presence == Get(r.json, "_lokit_tag_original_text_presence")
      Original(id) == IF r.tags[id].original # "" THEN r.tags[id].original
                      ELSE IF ~None(presence) /\ id \in presence THEN "" ELSE Absent
  IN IF DOMAIN r.tags = {} THEN Absent
     ELSE [id \in DOMAIN r.tags |-> [pair |-> OrAbsent(r.tags[id].pair), original |-> Original(id)]]

DeserializeExtensions(r) ==
  LET own == DOMAIN r.json \ Reserved
  IN [k \in own \cup (IF r.project = "" THEN {} ELSE {"project"}) |->
        IF k = "project" /\ r.project # "" THEN r.project ELSE r.json[k]]

DeserializeUnit(r) ==
  LET meta == OrObject(Get(r.json, "_lokit_meta"))
  IN [usage |-> IF r.usage # 0 THEN r.usage ELSE Get(meta, "usage"),
      created |-> Get(meta, "created"),
      plural |-> DeserializePlural(r),
      previous |-> DeserializeContext(r.previous, OrObject(Get(r.json, "_lokit_previous_context"))),
      tags |-> DeserializeTags(r),
      comments |-> [i \in DOMAIN r.comments |->
         [timestamp |-> OrAbsent(r.comments[i].timestamp), project |-> OrAbsent(r.comments[i].project)]],
      extensions |-> DeserializeExtensions(r)]

\* None is no number, text, set or object, and a unit's own extensions are not named like
\* those of the memory.
UnitsAssumption ==
  /\ Absent \notin {"", TRUE}
  /\ \A d \in Units :
       /\ None(d.usage) \/ d.usage \in Nat
       /\ Payload([usage |-> d.usage, created |-> d.created]) # Absent
       /\ ~None(d.plural) =>
            /\ d.plural = [variant |-> d.plural.variant, count |-> d.plural.count, extensions |-> d.plural.extensions]
            /\ ~None(d.plural.extensions)
            /\ d.plural.extensions = [k \in DOMAIN d.plural.extensions |-> d.plural.extensions[k]]
       /\ ~None(d.previous) =>
            /\ d.previous = [unit_id |-> d.previous.unit_id, source |-> d.previous.source]
            /\ Payload([unit_id |-> d.previous.unit_id]) # Absent
       /\ ~None(d.tags) => {id \in DOMAIN d.tags : d.tags[id].original = ""} # Absent
       /\ DOMAIN d.extensions \cap Reserved = {}
       /\ \A e \in Units :
            /\ ~None(d.plural) => [d.plural EXCEPT !.extensions = OrObject(PluralExtensions(e))] # Absent
            /\ [unit_id |-> Get(OrObject(ContextPayload(e.previous)), "unit_id"), source |-> OrAbsent(ContextSource(d.previous))] # Absent

-----------------------------------------------------------------------------
Init == row = Absent /\ loads = <<>>

Load(d) ==
  /\ Len(loads) < MaxLoads
  /\ row' = IF loads = <<>> THEN SerializeUnit(d) ELSE Overwrite(row, SerializeUnit(d))
  /\ loads' = Append(loads, d)

Next == \E d \in Units : Load(d)
Spec == Init /\ [][Next]_vars

-----------------------------------------------------------------------------
(* Properties *)

\* A unit as far as an empty text and none are the same: only the original text of a
\* tag keeps them apart.  The project of a comment becomes the unit's.
Readable(d) ==
  [usage |-> d.usage, created |-> d.created, plural |-> d.plural,
   previous |-> IF None(d.previous) \/ (ContextSource(d.previous) = "" /\ None(d.previous.unit_id)) THEN Absent
                ELSE [unit_id |-> d.previous.unit_id, source |-> OrAbsent(OrEmpty(d.previous.source))],
   tags |-> IF None(d.tags) \/ DOMAIN d.tags = {} THEN Absent
            ELSE [id \in DOMAIN d.tags |-> [pair |-> OrAbsent(OrEmpty(d.tags[id].pair)), original |-> d.tags[id].original]],
   comments |-> [i \in DOMAIN d.comments |->
      [timestamp |-> OrAbsent(OrEmpty(d.comments[i].timestamp)), project |-> OrAbsent(OrEmpty(d.comments[i].project))]],
   extensions |-> [k \in DOMAIN d.extensions \cup (IF Project(d) = "" THEN {} ELSE {"project"}) |->
      IF k = "project" /\ Project(d) # "" THEN Project(d) ELSE d.extensions[k]]]

\* The values a unit has, without its use count: what it lacks has no key.
Values(d) ==
  Payload([created |-> d.created,
           variant |-> IF None(d.plural) THEN Absent ELSE d.plural.variant,
           count |-> IF None(d.plural) THEN Absent ELSE d.plural.count,
           plural_extensions |-> PluralExtensions(d),
           unit_id |-> IF None(d.previous) THEN Absent ELSE d.previous.unit_id,
           source |-> IF None(d.previous) THEN Absent ELSE d.previous.source,
           comments |-> d.comments])

\* A unit that was loaded once reads back as it was.  One that was loaded again over an
\* older row reads back with every value the last load gave: what stays of the older
\* JSON payload never hides it.  Its use count has grown with every load.
ReadsLastLoad ==
  loads # <<>> =>
    LET d == Readable(Last(loads))
        read == DeserializeUnit(row)
    IN /\ Len(loads) = 1 => read = d
       /\ \A k \in DOMAIN Values(d) : k \in DOMAIN Values(read) /\ Values(read)[k] = Values(d)[k]
       /\ \A k \in DOMAIN d.extensions : k \in DOMAIN read.extensions /\ read.extensions[k] = d.extensions[k]
       /\ ~None(d.tags) => /\ DOMAIN read.tags = DOMAIN d.tags
                           /\ \A id \in DOMAIN d.tags : None(d.tags[id].original) \/ read.tags[id] = d.tags[id]
       /\ row.usage >= Len(loads) - 1
=============================================================================
