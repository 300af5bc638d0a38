------------------------------- MODULE Frontier -------------------------------
(***************************************************************************)
(* Seeds, mutation opportunities and what may be selected when: the pure    *)
(* part of scheduler_contract.py, with the relation mask of                 *)
(* evaluation_contract.py and the scores of retrieval_feedback.py.          *)
(*                                                                          *)
(* A frontier item is a pair <<seed index, opportunity>>; seeds are numbered *)
(* in order of admission.  An RBO distance is an integer in 0..Unit, Unit    *)
(* standing for 1.0.                                                        *)
(***************************************************************************)
EXTENDS Coverage

CONSTANTS Roots,          \* root checkpoints
          Ids,            \* root -> its frozen coverage IDs
          Opportunities,  \* opportunity IDs of one seed
          RelationOf,     \* opportunity -> mutation relation
          Enabled,        \* the method's relation mask
          Methods,        \* methods a campaign may run
          Rankings,       \* root -> resolved rankings a retrieval may return
          FirstRanking,   \* root -> the ranking of its initialization
          Enumerations,   \* root -> [status, opps] an admission may fix
          JudgeScores,    \* scores the online judge may give
          Depth,          \* retrieval depth k
          Unit, Distance(_, _)

E0 == UNION {Ids[r] : r \in Roots}

Relations == {"meaning_preserving_query", "target_changing_query", "unsupported_query",
              "update", "deletion", "unrelated_change"}

\* SeedOpportunityEnumeration: a certified enumeration stays in the mask, an uncertified
\* one exposes nothing.
LegalEnumeration(e) ==
  /\ e = [status |-> e.status, opps |-> e.opps]
  /\ \/ /\ e.status = "certified_complete"
        /\ e.opps \subseteq {o \in Opportunities : RelationOf[o] \in Enabled}
     \/ /\ e.status \in {"blocked_capability_failure", "blocked_transient_infrastructure_failure"}
        /\ e.opps = {}

Min2(x, y) == IF x <= y THEN x ELSE y

ASSUME FrontierAssumption ==
  /\ IsFiniteSet(Roots) /\ E0 # {}
  /\ Ids \in [Roots -> SUBSET E0]
  /\ RelationOf \in [Opportunities -> Relations] /\ Enabled \subseteq Relations
  /\ \A r \in Roots : \A e \in Enumerations[r] : LegalEnumeration(e)
  /\ \A r \in Roots : \A k \in Rankings[r] \cup {FirstRanking[r]} :
       Observable(E0, k) /\ TokenIds(k) \subseteq Ids[r]
  /\ JudgeScores \subseteq Nat
  /\ Depth \in Nat /\ Depth >= 2 /\ Unit \in Nat

-----------------------------------------------------------------------------
(* Seeds.  path is the number of memory mutations; round is admission_round: *)
(* 0 for an initial seed, the producing round for a child.                   *)

Seed(root, path, round, enumeration, signature) ==
  [root |-> root, path |-> path, round |-> round, status |-> enumeration.status,
   opps |-> enumeration.opps, signature |-> signature]

MemoryRelations == {"update", "deletion", "unrelated_change"}

\* A memory mutation lengthens the path, a query mutation changes the query only.
ChildPath(parent, relation) ==
  IF relation \in MemoryRelations THEN parent.path + 1 ELSE parent.path

\* Mutant: a child is eligible in its own round.
MutFirstEligibleRound(seed) == IF seed.round = 0 THEN 1 ELSE seed.round

FirstEligibleRound(seed) == seed.round + 1

Certified(seed) == seed.status = "certified_complete"

Items(seeds) == {i \in (1..Len(seeds)) \X Opportunities : i[2] \in seeds[i[1]].opps}

ItemsOf(seeds, root) == {i \in Items(seeds) : seeds[i[1]].root = root}

\* Mutant: terminal dispositions are not looked up.
MutEligible(seeds, done, root, round) ==
  {i \in ItemsOf(seeds, root) :
     /\ Certified(seeds[i[1]]) /\ round >= FirstEligibleRound(seeds[i[1]])
     /\ RelationOf[i[2]] \in Enabled}

\* eligible_in_round and FrontierEligibility.
Eligible(seeds, done, root, round) ==
  {i \in ItemsOf(seeds, root) :
     /\ Certified(seeds[i[1]]) /\ round >= FirstEligibleRound(seeds[i[1]])
     /\ RelationOf[i[2]] \in Enabled
     /\ i \notin DOMAIN done}

\* ExhaustionContract: nothing left, and every enumeration of the root certified complete.
ScientificallyExhausted(seeds, done, root) ==
  /\ ItemsOf(seeds, root) \subseteq DOMAIN done
  /\ \A i \in 1..Len(seeds) : seeds[i].root = root => Certified(seeds[i])

\* FrontierSelectionRule: guided methods take an item of maximal parent priority; the
\* random method and the controller may take any.
Guided(method) == method \notin {"random_mutation", "unguided_llm"}

Selectable(method, priority, items) ==
  {i \in items : Guided(method) => \A j \in items : priority[i[1]] >= priority[j[1]]}

-----------------------------------------------------------------------------
(* Scores: score_observed_retrieval against the history before insertion.    *)

MinOf(S) == CHOOSE x \in S : \A y \in S : x <= y

Novelty(archive, signature) ==
  IF archive = {} THEN Unit ELSE MinOf({Distance(signature, s) : s \in archive})

\* behavior_score and ufuzz_score, in units of 1 / (4 * Depth * Unit).
UFuzzScore(relation, gain, novelty, divergence) ==
  2 * Unit * Min2(Depth, gain)
  + IF relation = "meaning_preserving_query" THEN Depth * (novelty + divergence)
                                             ELSE 2 * Depth * novelty

FeedbackScore(method, relation, gain, archive, signature, parent) ==
  IF method = "coverage_guided" THEN gain
  ELSE UFuzzScore(relation, gain, Novelty(archive, signature), Distance(parent, signature))

\* The priorities a child may get: none (0), by the judge, or by the feedback.
Priorities(method, feedback) ==
  IF ~Guided(method) THEN {0}
  ELSE IF method = "llm_as_judge" THEN JudgeScores ELSE {feedback}
=============================================================================
