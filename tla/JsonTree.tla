------------------------------ MODULE JsonTree ------------------------------
(***************************************************************************)
(* The tree of a nested JSON export (exporters/json_i18n.py): units come   *)
(* one by one, each with a path, into a table of nodes on disk; the file   *)
(* is written from the nodes in the order of their creation.  A path may   *)
(* go through what was a value, or end where there was a branch.           *)
(***************************************************************************)
EXTENDS Naturals, SequencesExt, TLC

CONSTANTS Absent, Paths   \* Paths: sequences of paths, in the order of their units

VARIABLES input, job
vars == <<input, job>>

Idle == [pc |-> "spool", added |-> 0, clock |-> 0, nodes |-> <<>>, file |-> {}]
Init == input \in Paths /\ job = Idle

Under(path, nodes) == {p \in DOMAIN nodes : IsStrictPrefix(path, p)}
Value(unit, created) == [kind |-> "value", unit |-> unit, created |-> created]
Branch(created) == [kind |-> "branch", unit |-> Absent, created |-> created]

\* One component of the path of a unit: a new node, or one that changes its kind
Assign(tree, path, i, unit) ==
  LET node == SubSeq(path, 1, i)  last == i = Len(path) IN
  IF node \notin DOMAIN tree.nodes
    THEN [nodes |-> (node :> IF last THEN Value(unit, tree.clock + 1) ELSE Branch(tree.clock + 1)) @@ tree.nodes, clock |-> tree.clock + 1]
  ELSE IF last THEN [tree EXCEPT !.nodes = (node :> Value(unit, @[node].created)) @@ [p \in DOMAIN @ \ Under(node, @) |-> @[p]]]
  ELSE IF tree.nodes[node].kind = "value" THEN [tree EXCEPT !.nodes[node] = Branch(@.created)]
  ELSE tree

Add ==
  /\ job.pc = "spool" /\ job.added < Len(input)
  /\ LET unit == job.added + 1
         tree == FoldLeft(LAMBDA t, i : Assign(t, input[unit], i, unit), [nodes |-> job.nodes, clock |-> job.clock], [i \in DOMAIN input[unit] |-> i])
     IN job' = [job EXCEPT !.added = unit, !.nodes = tree.nodes, !.clock = tree.clock]
  /\ UNCHANGED input

\* The nodes by the times of creation along their paths
Times(path) == [i \in DOMAIN path |-> job.nodes[SubSeq(path, 1, i)].created]
Earlier(s, t) ==
  \/ IsStrictPrefix(s, t)
  \/ \E i \in DOMAIN s \cap DOMAIN t : s[i] < t[i] /\ \A j \in 1..(i - 1) : s[j] = t[j]
Rows == SortSeq(SetToSeq(DOMAIN job.nodes), LAMBDA p, q : Earlier(Times(p), Times(q)))

\* Objects are closed until the depth is that of the row, which must then be the innermost
Emit(out, path) ==
  LET depth == Len(path)
      open == IF Len(out.open) > depth - 1 THEN SubSeq(out.open, 1, depth - 1) ELSE out.open
      node == job.nodes[path]
  IN IF Len(open) # depth - 1 THEN [out EXCEPT !.bad = TRUE]
     ELSE [out EXCEPT !.open = IF node.kind = "branch" THEN Append(open, path[depth]) ELSE open,
                      !.file = IF node.kind = "branch" THEN @ ELSE @ \cup {<<Append(open, path[depth]), node.unit>>},
                      !.empty = IF node.kind = "branch" THEN @ \cup {path} ELSE @ \ {SubSeq(path, 1, i) : i \in 1..depth}]
Write ==
  /\ job.pc = "spool" /\ job.added = Len(input)
  /\ LET out == FoldLeft(Emit, [open |-> <<>>, file |-> {}, empty |-> {}, bad |-> FALSE], Rows)
     IN job' = [job EXCEPT !.pc = IF out.bad \/ out.empty # {} THEN "wrong" ELSE "done", !.file = out.file]
  /\ UNCHANGED input

Next == Add \/ Write
Spec == Init /\ [][Next]_vars

-----------------------------------------------------------------------------
\* A unit is lost only to a later one whose path is its own, begins it or goes on from it.
Comparable(p, q) == IsPrefix(p, q) \/ IsPrefix(q, p)
LastAssigned == {<<input[i], i>> : i \in {n \in DOMAIN input : \A j \in DOMAIN input : j > n => ~Comparable(input[n], input[j])}}

\* The file has the units that no later one took the place of, each under its path, and no empty object.
FileIsLastAssigned == job.pc # "wrong" /\ (job.pc = "done" => job.file = LastAssigned)
=============================================================================
