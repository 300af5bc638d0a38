----------------------------- MODULE LogicalMemory -----------------------------
(***************************************************************************)
(* What a back end promises of a certified state, whatever its physical     *)
(* entries do: a memory of initialized coverage IDs, opened with one row    *)
(* each, in which a transition changes one ID or deletes it for good.       *)
(***************************************************************************)
CONSTANTS States, E0, Rows

VARIABLE memory \* << >> for a state that is not certified, else E0 -> sets of rows

vars == memory
Closed == << >>

Init == memory = [s \in States |-> Closed]

\* A root: every ID holds exactly one row, and no two hold the same.
Open(s) ==
  /\ memory[s] = Closed
  /\ \E m \in [E0 -> Rows] :
       /\ \A i, j \in E0 : m[i] = m[j] => i = j
       /\ memory' = [memory EXCEPT ![s] = [id \in E0 |-> {m[id]}]]

\* A transition needs an ID that one row holds: one that a split left with two rows can
\* be no target again.
Target(s, id) == memory[s] # Closed /\ \E row \in Rows : memory[s][id] = {row}

\* An accepted update of one live ID, which keeps its provenance.
Change(s, id) ==
  /\ Target(s, id)
  /\ \E new \in SUBSET Rows :
       /\ \E r \in new, old \in memory[s][id] : old.src \subseteq r.src
       /\ memory' = [memory EXCEPT ![s][id] = new]

Delete(s, id) ==
  /\ Target(s, id)
  /\ memory' = [memory EXCEPT ![s][id] = {}]

Close(s) ==
  /\ memory[s] # Closed
  /\ memory' = [memory EXCEPT ![s] = Closed]

Next ==
  \E s \in States : Open(s) \/ Close(s) \/ \E id \in E0 : Change(s, id) \/ Delete(s, id)

Spec == Init /\ [][Next]_vars

\* Nothing but closing the state brings a deleted ID back: no transition has it as its
\* target, and a transition of another ID leaves it alone.
DeletedStays ==
  [][\A s \in States, id \in E0 :
       memory[s] # Closed /\ memory[s][id] = {} => memory'[s] = Closed \/ memory'[s][id] = {}]_vars
=============================================================================
