------------------------------ MODULE Targets -------------------------------
(***************************************************************************)
(* data/targets.py: which translation of a unit belongs to a locale, and   *)
(* the document of one locale.  A unit has translations with a locale      *)
(* ("targets"), and may have one without ("target"); "tags" says whose     *)
(* inline codes the unit carries.  Rust selects again in lokit.rs.         *)
(***************************************************************************)
EXTENDS Naturals, FiniteSets, SequencesExt

CONSTANT Absent

SelectedTarget(u, locale) ==
  IF locale # Absent
    THEN IF locale \in DOMAIN u.targets THEN u.targets[locale] ELSE Absent
    ELSE IF Cardinality(DOMAIN u.targets) = 1 THEN u.targets[CHOOSE l \in DOMAIN u.targets : TRUE]
    ELSE IF u.target # Absent THEN [text |-> u.target, status |-> u.status, usage |-> Absent, tags |-> Absent] ELSE Absent

TargetText(u, locale) ==
  LET selected == SelectedTarget(u, locale) IN IF selected # Absent THEN selected.text ELSE u.target

TargetStatus(u, locale) ==
  LET selected == SelectedTarget(u, locale) IN IF selected # Absent THEN selected.status ELSE u.status

\* The locale of the translations that name none
LegacyTargetLocale(locale, locales) ==
  IF locale # Absent THEN locale ELSE IF Cardinality(locales) = 1 THEN CHOOSE l \in locales : TRUE ELSE Absent

\* The unit of one locale: what its translation does not say, the unit does
CloneForTarget(u, selected, keepLegacy) ==
  LET bare == [u EXCEPT !.target = IF keepLegacy THEN @ ELSE Absent, !.targets = <<>>] IN
  IF selected = Absent THEN [bare EXCEPT !.tags = IF keepLegacy THEN @ ELSE Absent]
  ELSE [bare EXCEPT !.target = selected.text, !.tags = selected.tags,
                    !.status = IF selected.status # "unknown" THEN selected.status ELSE @,
                    !.usage = IF selected.usage # Absent THEN selected.usage ELSE @]

HasLegacy(u, locale, legacy) == u.target # Absent /\ legacy = locale
CloneIn(u, locale, legacy) ==
  CloneForTarget(u, IF locale \in DOMAIN u.targets THEN u.targets[locale] ELSE Absent, HasLegacy(u, locale, legacy))
Kept(u, locale, legacy, missing) == locale \in DOMAIN u.targets \/ HasLegacy(u, locale, legacy) \/ missing
KeptUnits(units, locale, legacy, missing) ==
  FoldLeft(LAMBDA kept, u : IF Kept(u, locale, legacy, missing) THEN Append(kept, u) ELSE kept, <<>>, units)

\* In Rust: the translation of the locale, or the one without, or none
SelectTargetData(u, locale, legacy) ==
  IF locale \in DOMAIN u.targets
    THEN LET selected == u.targets[locale] IN
         [u EXCEPT !.targets = <<>>, !.target = selected.text, !.tags = selected.tags,
                   !.status = IF selected.status = "unknown" THEN @ ELSE selected.status,
                   !.usage = IF selected.usage = Absent THEN @ ELSE selected.usage]
    ELSE IF u.target # Absent /\ legacy = locale THEN [u EXCEPT !.targets = <<>>]
    ELSE [u EXCEPT !.targets = <<>>, !.target = Absent, !.tags = Absent]
ReadTarget(units, locale, legacy, missing) ==
  LET kept == KeptUnits(units, locale, legacy, missing)
  IN [i \in DOMAIN kept |-> SelectTargetData(kept[i], locale, legacy)]

-----------------------------------------------------------------------------
\* A document has the locales of its header and those of its units
DocumentTargetLocales(doc) ==
  doc.locales \cup (IF doc.locale = Absent THEN {} ELSE {doc.locale}) \cup UNION {DOMAIN doc.units[i].targets : i \in DOMAIN doc.units}

SelectTarget(doc, locale, missing) ==
  LET legacy == LegacyTargetLocale(doc.locale, doc.locales)
      kept == KeptUnits(doc.units, locale, legacy, missing)
  IN [i \in DOMAIN kept |-> CloneIn(kept[i], locale, legacy)]

SplitTargets(doc, requested, missing) ==
  [locale \in (IF requested # {} THEN requested ELSE DocumentTargetLocales(doc)) |-> SelectTarget(doc, locale, missing)]
=============================================================================
