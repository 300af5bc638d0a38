------------------------------ MODULE MCBackends ------------------------------
(***************************************************************************)
(* Bounds: two concurrent materializations, two state IDs, two initialized  *)
(* coverage IDs, three physical IDs (one fresh), two transitions per state. *)
(***************************************************************************)
EXTENDS Rebinding, TLC

CONSTANTS a, b, p, q, e1, e2, e3, t1, t2, s1, s2

AllProfiles == {"mem0", "a-mem", "graphiti", "memos"}
MCTasks == {t1, t2}
MCStates == {s1, s2}
MCEntries == {e1, e2, e3}
MCE0 == {a, b}
Interchangeable == Permutations(MCTasks) \cup Permutations(MCStates)

MCRows == {[text |-> "A", src |-> {p}], [text |-> "B", src |-> {q}],
           [text |-> "new", src |-> {p}], [text |-> "new", src |-> {q}],
           [text |-> "new", src |-> {p, q}]}

RowA == [text |-> "A", src |-> {p}]
RowB == [text |-> "B", src |-> {q}]
MCStray == [text |-> "new", src |-> {p, q}]

\* The frozen inventory, and one whose entries cannot be told apart.
MCInventories == {[id \in {a, b} |-> IF id = a THEN RowA ELSE RowB],
                  [id \in {a, b} |-> RowA]}

\* An ingestion builds either inventory, or another store.
MCFreshStores == {[e \in {e1, e2} |-> IF e = e1 THEN RowA ELSE RowB],
                  [e \in {e1, e2} |-> RowA],
                  [e \in {e1} |-> RowA]}

Mutation(op, id, text, src, ok) ==
  [op |-> op, target |-> id, text |-> text, src |-> src, acceptable |-> ok]

MCArtifacts ==
  {Mutation("update", a, "new", {p}, {"replaced", "split", "same_id"}),
   Mutation("update", a, "new", {q}, {"replaced", "split", "same_id"}),
   Mutation("unrelated_change", b, "new", {q}, {"replaced"}),
   Mutation("delete", a, "new", {}, {"deleted"}),
   Mutation("delete", b, "new", {}, {"deleted"})}
=============================================================================
