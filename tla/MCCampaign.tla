------------------------------ MODULE MCCampaign ------------------------------
(***************************************************************************)
(* Bounds: two roots, three coverage IDs, two opportunities for a seed, two  *)
(* valid executions, three rounds.  A child of the first execution can be    *)
(* selected by the second, in a later round.                                 *)
(***************************************************************************)
EXTENDS Campaign, TLC

CONSTANTS r1, r2, a, b, c, o1, o2

MCRoots == {r1, r2}
MCIds == (r1 :> {a, b}) @@ (r2 :> {c})
MCRelationOf == (o1 :> "meaning_preserving_query") @@ (o2 :> "update")
MCRankings == (r1 :> {<<{a}>>, <<{a, b}, {a, b}>>}) @@ (r2 :> {<<{c}>>})
MCFirstRanking == (r1 :> <<{a}>>) @@ (r2 :> << >>)

Complete(opps) == [status |-> "certified_complete", opps |-> opps]
MCEnumerations ==
  (r1 :> {Complete({o1, o2}), Complete({})})
  @@ (r2 :> {Complete({o1}), [status |-> "blocked_capability_failure", opps |-> {}]})

\* RBO distance: none between equal signatures, all between disjoint ones.
MCDistance(s, t) ==
  IF s = t THEN 0
  ELSE IF {s[i] : i \in DOMAIN s} \cap {t[i] : i \in DOMAIN t} = {} THEN 2 ELSE 1
=============================================================================
