------------------------------ MODULE Trajectory ------------------------------
(***************************************************************************)
(* What a campaign's trajectory is allowed to be: one atomic step for one    *)
(* frontier decision.                                                        *)
(***************************************************************************)
EXTENDS Search

\* One valid execution, everything it does at once.
Succeed(item, ranking) ==
  LET parent    == seeds[item[1]]
      relation  == RelationOf[item[2]]
      archive   == history[parent.root]
      signature == RetrievalSignature(ranking)
      update    == Observed(E0, coverage, ranking)
      feedback  == FeedbackScore(method, relation, update.gain, archive, signature, parent.signature)
  IN /\ coverage' = update.state
     /\ history' = [history EXCEPT ![parent.root] = @ \cup {signature}]
     /\ seeds' \in Admitted(seeds, parent, relation, signature)
     /\ \E p \in Priorities(method, feedback) :
          priority' = [i \in 1..Len(seeds') |-> IF i <= Len(seeds) THEN priority[i] ELSE p]
     /\ witnesses' = Append(witnesses,
                            Witness(item, parent.root, update, signature, signature \notin archive))
     /\ done' = Terminal(item, "terminal_success")

Exhaust(item) ==
  /\ done' = Terminal(item, "terminal_generation_exhausted")
  /\ UNCHANGED <<seeds, priority, coverage, history, witnesses>>

Decide ==
  /\ Len(witnesses) < Budget
  /\ \E root \in Roots : \E item \in Selectable(method, priority, Frontier(root)) :
       \/ \E ranking \in Rankings[root] : Succeed(item, ranking)
       \/ Exhaust(item)
  /\ UNCHANGED <<method, round>>

Next == Decide \/ NextRound

Spec == SearchInit /\ [][Next]_searchVars
=============================================================================
