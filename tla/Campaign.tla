------------------------------- MODULE Campaign -------------------------------
(***************************************************************************)
(* A campaign layer on top of the records of scheduler_contract.py and the   *)
(* primitives of coverage.py and retrieval_feedback.py.  That layer is not in *)
(* the repository.  What is assumed of it: it takes one frontier decision at *)
(* a time, of an item the records call eligible, and does what follows a     *)
(* valid execution in the order of ATOMIC_VALID_EXECUTION_ORDER, one call in *)
(* one step.  It visits roots in any order, as often as it likes, and starts *)
(* a round when it likes: more than RootRoundContract allows it.             *)
(***************************************************************************)
EXTENDS Search

VARIABLE visit   \* the decision of the current visit and how far it is, or NoVisit

search == <<seeds, done, priority, coverage, history, witnesses>>
vars   == <<method, round, search, visit>>

NoVisit == [stage |-> "none"]

-----------------------------------------------------------------------------
(* The trajectory without the visit in flight.                              *)

\* Of ATOMIC_VALID_EXECUTION_ORDER: what changes the state of a search, up to the witness.
Stages == <<"execute", "adopt", "score", "retain", "prioritize", "finish">>

Past(stage) ==
  \E i, j \in DOMAIN Stages : Stages[i] = stage /\ Stages[j] = visit.stage /\ i < j

Parent == seeds[visit.item[1]]

Relation == RelationOf[visit.item[2]]

Signature == RetrievalSignature(visit.ranking)

SettledCoverage == IF Past("adopt") THEN coverage \ visit.update.newly ELSE coverage

SettledHistory ==
  IF Past("score") /\ visit.new THEN [history EXCEPT ![Parent.root] = @ \ {Signature}] ELSE history

SettledSeeds == IF Past("retain") THEN [i \in 1..visit.known |-> seeds[i]] ELSE seeds

SettledPriority ==
  IF Past("prioritize") THEN [i \in 1..visit.known |-> priority[i]] ELSE priority

Atomic == INSTANCE Trajectory
  WITH coverage <- SettledCoverage, history <- SettledHistory, seeds <- SettledSeeds,
       priority <- SettledPriority

Init == SearchInit /\ visit = NoVisit

-----------------------------------------------------------------------------
At(stage) == visit.stage = stage

To(stage) == [visit EXCEPT !.stage = stage]

\* A visit of a root: one frontier item, by the method's rule.
Select ==
  /\ visit = NoVisit /\ Len(witnesses) < Budget
  /\ \E root \in Roots : \E item \in Selectable(method, priority, Frontier(root)) :
       visit' = [item |-> item, stage |-> "execute", ranking |-> << >>,
                 update |-> Observed(E0, coverage, << >>), new |-> FALSE, feedback |-> 0,
                 known |-> Len(seeds)]
  /\ UNCHANGED <<method, round, search>>

\* Mutant: the pair is terminal as soon as it was executed.
MutExecute ==
  /\ At("execute")
  /\ \E ranking \in Rankings[Parent.root] :
       visit' = [To("adopt") EXCEPT !.ranking = ranking, !.update = Observed(E0, coverage, ranking)]
  /\ done' = Terminal(visit.item, "terminal_success")
  /\ UNCHANGED <<method, round, seeds, priority, coverage, history, witnesses>>

\* resolve_fuzzing_retrieval: the update is computed from the coverage of now.
Execute ==
  /\ At("execute")
  /\ \E ranking \in Rankings[Parent.root] :
       visit' = [To("adopt") EXCEPT !.ranking = ranking, !.update = Observed(E0, coverage, ranking)]
  /\ UNCHANGED <<method, round, search>>

\* RootVisitResult.terminal: the pair is terminal and the visit is over.
EndVisit(disposition) ==
  /\ done' = Terminal(visit.item, disposition)
  /\ visit' = NoVisit

\* No realization was accepted.
Exhaust ==
  /\ At("execute")
  /\ EndVisit("terminal_generation_exhausted")
  /\ UNCHANGED <<method, round, seeds, priority, coverage, history, witnesses>>

\* Mutant: the newly reached IDs are adopted as the state.
MutAdopt ==
  /\ At("adopt")
  /\ coverage' = visit.update.newly
  /\ visit' = To("score")
  /\ UNCHANGED <<method, round, seeds, done, priority, history, witnesses>>

Adopt ==
  /\ At("adopt")
  /\ coverage' = visit.update.state
  /\ visit' = To("score")
  /\ UNCHANGED <<method, round, seeds, done, priority, history, witnesses>>

Scored(archive) ==
  [To("retain") EXCEPT
     !.new = Signature \notin archive,
     !.feedback = FeedbackScore(method, Relation, visit.update.gain, archive, Signature,
                                Parent.signature)]

\* Mutant: the signature is in the archive it is compared with.
MutScore ==
  /\ At("score")
  /\ visit' = Scored(history[Parent.root] \cup {Signature})
  /\ history' = [history EXCEPT ![Parent.root] = @ \cup {Signature}]
  /\ UNCHANGED <<method, round, seeds, done, priority, coverage, witnesses>>

\* score_observed_retrieval inserts the signature after it was scored.
Score ==
  /\ At("score")
  /\ visit' = Scored(history[Parent.root])
  /\ history' = [history EXCEPT ![Parent.root] = @ \cup {Signature}]
  /\ UNCHANGED <<method, round, seeds, done, priority, coverage, witnesses>>

\* A rematerializable child is admitted with its complete enumeration.
Retain ==
  /\ At("retain")
  /\ seeds' \in Admitted(seeds, Parent, Relation, Signature)
  /\ visit' = To("prioritize")
  /\ UNCHANGED <<method, round, done, priority, coverage, history, witnesses>>

\* The child's priority, for future decisions; its parent keeps its own.
Prioritize ==
  /\ At("prioritize")
  /\ \E p \in Priorities(method, visit.feedback) :
       priority' = [i \in 1..Len(seeds) |-> IF i <= visit.known THEN priority[i] ELSE p]
  /\ visit' = To("finish")
  /\ UNCHANGED <<method, round, seeds, done, coverage, history, witnesses>>

\* The execution is on record, and the visit over.
Finish ==
  /\ At("finish")
  /\ witnesses' = Append(witnesses,
                         Witness(visit.item, Parent.root, visit.update, Signature, visit.new))
  /\ EndVisit("terminal_success")
  /\ UNCHANGED <<method, round, seeds, priority, coverage, history>>

Advance == visit = NoVisit /\ NextRound /\ UNCHANGED visit

Next == Select \/ Execute \/ Exhaust \/ Adopt \/ Score \/ Retain \/ Prioritize \/ Finish \/ Advance

Spec == Init /\ [][Next]_vars

-----------------------------------------------------------------------------
\* Types of the variables.
TypeOK ==
  /\ method \in Methods /\ round \in Nat \ {0}
  /\ \A i \in DOMAIN seeds : /\ seeds[i].root \in Roots /\ seeds[i].round \in 0..round
                            /\ [status |-> seeds[i].status, opps |-> seeds[i].opps]
                                 \in Enumerations[seeds[i].root]
  /\ DOMAIN done \subseteq Items(seeds)
  /\ \A i \in DOMAIN done : done[i] \in {"terminal_success", "terminal_generation_exhausted"}
  /\ DOMAIN priority = IF Past("retain") /\ ~Past("prioritize") THEN 1..visit.known
                                                               ELSE DOMAIN seeds
  /\ coverage \subseteq E0
  /\ Len(witnesses) \in 0..Budget
  /\ visit # NoVisit => visit.item \in Items(seeds) \ DOMAIN done

\* ATOMIC_VALID_EXECUTION_ORDER: the calls after one execution amount to one atomic decision.
\* It is scored against the coverage and the history before it, and its parent keeps the
\* priority and the signature it was selected with.
AtomicTrajectory == Atomic!Spec

\* The signatures that root r had seen before its execution n.
Seen(r, n) ==
  {RetrievalSignature(FirstRanking[r])}
    \cup {witnesses[i].signature : i \in {j \in 1..(n - 1) : witnesses[j].root = r}}

\* The witnesses account for the campaign: coverage is what the witnessed executions
\* retrieved, and every ID of it is newly reached in exactly one of them; an archive is what
\* its own root observed, and a behavior is new in the first execution that shows it only.
WitnessesAccount ==
  /\ SettledCoverage = UNION {witnesses[i].ids : i \in DOMAIN witnesses}
  /\ SettledCoverage = UNION {witnesses[i].newly : i \in DOMAIN witnesses}
  /\ \A i, j \in DOMAIN witnesses : i # j => witnesses[i].newly \cap witnesses[j].newly = {}
  /\ \A r \in Roots : SettledHistory[r] = Seen(r, Len(witnesses) + 1)
  /\ \A i \in DOMAIN witnesses :
       witnesses[i].new <=> witnesses[i].signature \notin Seen(witnesses[i].root, i)

\* NEXT_ROUND: whatever is visited when, a seed is never executed in the round that made it,
\* no parent and opportunity execute twice, and a path of n memory mutations takes n rounds.
RoundDiscipline ==
  /\ \A i, j \in DOMAIN witnesses :
       /\ seeds[witnesses[i].item[1]].round < witnesses[i].round
       /\ i < j => /\ witnesses[i].item # witnesses[j].item
                   /\ witnesses[i].round <= witnesses[j].round
  /\ \A i \in DOMAIN seeds : seeds[i].path <= seeds[i].round

\* Exhaustion is final: once nothing of a root is left and all its enumerations are complete,
\* no seed of it is admitted and nothing of it executes, the visit in flight included.
ExhaustionIsFinal ==
  [][\A r \in Roots : ScientificallyExhausted(seeds, done, r) =>
       ItemsOf(seeds', r) = ItemsOf(seeds, r) /\ ScientificallyExhausted(seeds', done', r)]_vars
=============================================================================
