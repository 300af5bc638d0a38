-------------------------------- MODULE Search --------------------------------
(***************************************************************************)
(* What a campaign has between two frontier decisions.  No campaign layer is *)
(* in the repository: this is the state that the records and primitives of   *)
(* scheduler_contract.py, coverage.py and retrieval_feedback.py are about.    *)
(***************************************************************************)
EXTENDS Frontier

CONSTANTS Budget,   \* valid executions of the campaign
          Rounds    \* bound: rounds of the campaign

ASSUME BoundAssumption == Budget \in Nat /\ Rounds \in Nat

VARIABLES method,     \* fixed for the campaign
          round,      \* from 1
          seeds,      \* retained seeds in order of admission
          done,       \* terminal frontier items -> disposition
          priority,   \* seed index -> parent priority
          coverage,   \* reached coverage IDs
          history,    \* root -> archive of observed signatures
          witnesses   \* history variable: the valid executions, in order

searchVars == <<method, round, seeds, done, priority, coverage, history, witnesses>>

\* Roots in some order.
Orders == {o \in [1..Cardinality(Roots) -> Roots] : {o[i] : i \in DOMAIN o} = Roots}

\* Enumerations of the initial seeds, one for each root.
Enumerated == {e \in [Roots -> UNION {Enumerations[r] : r \in Roots}] :
                 \A r \in Roots : e[r] \in Enumerations[r]}

Initial(o, e) ==
  [i \in 1..Cardinality(Roots) |->
     Seed(o[i], 0, 0, e[o[i]], RetrievalSignature(FirstRanking[o[i]]))]

\* Every root's seed is enumerated before round one, with bootstrap priority; H_i holds the
\* signature of its initialization.
SearchInit ==
  /\ method \in Methods
  /\ round = 1
  /\ seeds \in {Initial(o, e) : o \in Orders, e \in Enumerated}
  /\ done = << >>
  /\ priority = [i \in 1..Cardinality(Roots) |-> 0]
  /\ coverage = {}
  /\ history = [r \in Roots |-> {RetrievalSignature(FirstRanking[r])}]
  /\ witnesses = << >>

-----------------------------------------------------------------------------
\* What may be selected in a visit of a root.
Frontier(root) == Eligible(seeds, done, root, round)

\* The terminal disposition of a decision.
Terminal(item, disposition) ==
  [i \in DOMAIN done \cup {item} |-> IF i = item THEN disposition ELSE done[i]]

\* What the records of one valid execution say of it.
Witness(item, root, update, signature, new) ==
  [item |-> item, root |-> root, round |-> round, ids |-> update.retrieved,
   newly |-> update.newly, signature |-> signature, new |-> new]

\* A child is retained, with its complete enumeration, exactly if it can be materialized
\* again.
Admitted(known, parent, relation, signature) ==
  {known} \cup {Append(known, Seed(parent.root, ChildPath(parent, relation), round, e, signature)) :
                  e \in Enumerations[parent.root]}

\* The campaign goes to its next round, when it likes.
NextRound ==
  /\ round < Rounds
  /\ round' = round + 1
  /\ UNCHANGED <<method, seeds, done, priority, coverage, history, witnesses>>
=============================================================================
