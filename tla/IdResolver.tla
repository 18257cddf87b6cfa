------------------------------ MODULE IdResolver ------------------------------
(***************************************************************************)
(* The users of an IdRegistry.  The parsers and exporters resolve the      *)
(* identifiers of a document's units one after the other into different    *)
(* ones (native/interchange/src/identity.rs); the writer and the           *)
(* structural JSON index register and look up keys with a value of their   *)
(* own.  A registry serves users of one kind.                              *)
(*                                                                         *)
(* "preferred#n" is preferred with the symbol n; "resource:preferred" and  *)
(* "auto_n" have symbols of their own, so an identifier of the document    *)
(* may spell any of them.  After an error the caller may go on calling.    *)
(***************************************************************************)
EXTENDS IdRegistry

CONSTANTS
  Raw,         \* the identifiers of the document, the empty one among them
  Resources,   \* symbols "resource:" of an XLIFF document
  AutoSymbol,  \* the symbol of "auto_0", followed by those of "auto_1"...
  Values,      \* what index users store
  MaxCalls     \* bound: calls of a user

ASSUME UsersAssumption ==
  /\ Raw \subseteq Seq(Nat \ {0}) /\ Resources \subseteq Nat \ {0}
  /\ AutoSymbol \in Nat \ {0}
  /\ Values \subseteq 0..MaxSuffix /\ MaxCalls \in Nat

VARIABLES
  user,       \* "identity" or "index"
  pc,         \* where the call is
  preferred,  \* the identifier it resolves
  candidate,  \* the identifier it tries
  resource,   \* the resource of an XLIFF call
  generated,  \* number of identifiers made up for TMX units without one
  given,      \* the identifiers returned, in order
  calls       \* number of calls

callVars == <<pc, preferred, candidate, resource, given>>
vars == <<entries, resident_key_bytes, disk, poisoned, call, answer, user, pc, preferred,
          candidate, resource, generated, given, calls>>

InitialNextSuffix == 2

Suffixed(id, suffix) == Append(id, suffix)
Prefixed(r, id) == <<r>> \o id
AutoId(n) == <<AutoSymbol + n>>

\* What a call may ask for, as it is and with a suffix, is among the identifiers.
ASSUME IdsCoverAssumption ==
  LET asked == Raw \cup {Prefixed(r, raw) : r \in Resources, raw \in Raw}
                   \cup {AutoId(n) : n \in 0..MaxCalls}
  IN /\ InitialNextSuffix <= MaxSuffix
     /\ asked \cup {Suffixed(id, n) : id \in asked, n \in InitialNextSuffix..MaxSuffix}
          \subseteq Ids

Init ==
  /\ RegistryInit
  /\ user \in {"identity", "index"}
  /\ pc = "idle"
  /\ preferred = <<>> /\ candidate = <<>> /\ resource = 0
  /\ generated = 0
  /\ given = <<>>
  /\ calls = 0

Call ==
  /\ pc = "idle"
  /\ calls < MaxCalls
  /\ calls' = calls + 1

(***************************************************************************)
(* Resolving an identifier.                                                *)
(***************************************************************************)
Begin(id, place) ==
  /\ user = "identity"
  /\ Call
  /\ preferred' = id
  /\ candidate' = id
  /\ pc' = place
  /\ UNCHANGED <<user, given, registryVars>>

\* resolve_id
Resolve(raw) == Begin(raw, "first") /\ UNCHANGED <<resource, generated>>

\* resolve_tmx
ResolveTmx ==
  /\ Begin(AutoId(generated), "first")
  /\ generated' = generated + 1
  /\ UNCHANGED resource

\* resolve_xliff
ResolveXliff(raw, r) ==
  /\ Begin(raw, "whole")
  /\ resource' = r
  /\ UNCHANGED generated

\* The candidate is new: it is returned.
Return == pc' = "idle" /\ given' = Append(given, candidate)
\* An error of the registry is passed on.
Raise == pc' = "idle" /\ UNCHANGED given

Outcome(taken) ==
  \/ answer' = Absent /\ Return /\ UNCHANGED <<preferred, candidate>>
  \/ answer' = Error /\ Raise /\ UNCHANGED <<preferred, candidate>>
  \/ answer' \in Nat /\ UNCHANGED given /\ taken

Insert(place, taken) ==
  /\ pc = place
  /\ GetOrInsert(candidate, InitialNextSuffix)
  /\ Outcome(taken)
  /\ UNCHANGED <<user, resource, generated, calls>>

TryWhole ==
  Insert("whole", /\ preferred' = Prefixed(resource, preferred)
                  /\ candidate' = preferred'
                  /\ pc' = "first")

TryFirst == Insert("first", pc' = "suffix" /\ UNCHANGED <<preferred, candidate>>)

TryCandidate == Insert("candidate", pc' = "suffix" /\ UNCHANGED <<preferred, candidate>>)

TakeSuffix ==
  /\ pc = "suffix"
  /\ NextSuffix(preferred)
  /\ \/ /\ answer' = Error
        /\ Raise
        /\ UNCHANGED candidate
     \/ /\ answer' \in Nat
        /\ candidate' = Suffixed(preferred, answer')
        /\ pc' = "candidate"
        /\ UNCHANGED given
  /\ UNCHANGED <<user, preferred, resource, generated, calls>>

(***************************************************************************)
(* Registering and looking up.                                             *)
(***************************************************************************)
Index(operation) ==
  /\ user = "index"
  /\ Call
  /\ operation
  /\ UNCHANGED <<user, generated, callVars>>

Register(id, value) == Index(GetOrInsert(id, value))
LookUp(id) == Index(Get(id))

Continue == TryWhole \/ TryFirst \/ TryCandidate \/ TakeSuffix

Next ==
  \/ \E raw \in Raw : Resolve(raw) \/ \E r \in Resources : ResolveXliff(raw, r)
  \/ ResolveTmx
  \/ Continue
  \/ \E id \in Raw : LookUp(id) \/ \E value \in Values : Register(id, value)

\* A call of the native code runs to its end: this is WF_vars(Continue), for
\* Continue has a step whenever a call is under way.
Fairness == []<>(pc = "idle") \/ []<><<Continue>>_vars

Spec == Init /\ [][Next]_vars
FairSpec == Spec /\ Fairness

(***************************************************************************)
(* Properties.                                                             *)
(***************************************************************************)
\* Nothing in memory or on disk changes what the registry answers: through
\* limits, spills, collisions, growth and I/O errors every call answers as the
\* exact map would (id_registry.rs:22-29), and after an I/O error none does.
RefinesIdMap == Map!Spec

\* No two units of a document get the same identifier, whatever the document
\* calls them, also when the caller goes on after errors.
UnitIdsAreUnique ==
  \A i, j \in DOMAIN given : i # j => given[i] # given[j]

\* The resident map stays within its limits and is empty once the entries are on
\* disk; there the table is within its load, so that a probe ends, the occupied slots
\* are as many as it counts, and the probe for a key ends at the slot that holds it,
\* through collisions, growth and the table's order.
TiersAreSound ==
  /\ Cardinality(DOMAIN entries) <= MaxResidentEntries
  /\ resident_key_bytes <= MaxResidentKeyBytes
  /\ IsSpilled => entries = Nothing
  /\ IsSpilled /\ ~Broken =>
       /\ ~ExceedsLoad(disk.len, Slots(disk.table))
       /\ Cardinality(Occupied) = disk.len
       /\ \A slot \in Occupied :
            /\ ProbeEnds(disk, KeyOf(slot)) # {}
            /\ FoundSlot(disk, KeyOf(slot)) = slot

\* A call ends: a suffix that is taken is never offered again, and there are
\* MaxSuffix of them (resolve_id loops without a bound of its own).
ResolutionEnds == pc # "idle" ~> pc = "idle"
=============================================================================
