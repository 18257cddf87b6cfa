-------------------------------- MODULE IdMap --------------------------------
(***************************************************************************)
(* What BoundedIdRegistry promises (native/lokit-format/src/id_registry.rs)*)
(* wherever it keeps its entries: an exact map from identifiers to         *)
(* counters.  A call either takes effect as a whole, or is refused, or     *)
(* breaks the map for good.                                                *)
(***************************************************************************)
EXTENDS Naturals

CONSTANTS
  Ids,        \* the identifiers
  MaxSuffix,  \* MAX_SUFFIX, which no counter exceeds by counting
  Absent,     \* the answer to a question about an unknown identifier
  Error       \* the answer of a call that fails

VARIABLES
  stored,     \* the counters of the known identifiers
  broken,     \* an I/O error occurred
  call,       \* the last call
  answer      \* and its answer

\* f with the value v at id
With(f, id, v) == [x \in DOMAIN f \cup {id} |-> IF x = id THEN v ELSE f[x]]

Nothing == [id \in {} |-> 0]

Init ==
  /\ stored = Nothing
  /\ broken = FALSE
  /\ call = <<"none", Absent>>
  /\ answer = Absent

GetOrInsert(id, initial) ==
  /\ call' = <<"insert", id>>
  /\ ~broken
  /\ IF id \in DOMAIN stored
     THEN answer' = stored[id] /\ UNCHANGED stored
     ELSE answer' = Absent /\ stored' = With(stored, id, initial)
  /\ UNCHANGED broken

Get(id) ==
  /\ call' = <<"get", id>>
  /\ ~broken
  /\ answer' = IF id \in DOMAIN stored THEN stored[id] ELSE Absent
  /\ UNCHANGED <<stored, broken>>

NextSuffix(id) ==
  /\ call' = <<"suffix", id>>
  /\ ~broken
  /\ IF id \in DOMAIN stored /\ stored[id] < MaxSuffix
     THEN /\ answer' = stored[id]
          /\ stored' = [stored EXCEPT ![id] = @ + 1]
     ELSE /\ answer' = Error
          /\ UNCHANGED stored
  /\ UNCHANGED broken

\* An I/O error, or a call after one: nothing is promised any longer.
Fail(op, id) ==
  /\ call' = <<op, id>>
  /\ broken' = TRUE
  /\ stored' = Nothing
  /\ answer' = Error

Next ==
  \E id \in Ids :
    \/ \E initial \in 0..MaxSuffix : GetOrInsert(id, initial)
    \/ Get(id)
    \/ NextSuffix(id)
    \/ \E op \in {"insert", "get", "suffix"} : Fail(op, id)

Spec == Init /\ [][Next]_<<stored, broken, call, answer>>
=============================================================================
