------------------------------- MODULE Coverage -------------------------------
(***************************************************************************)
(* What one ranked retrieval is worth: lineages resolved by a registry, the *)
(* retrieval signature and the immutable update of a campaign's coverage    *)
(* (coverage.py, retrieval_capability.py, retrieval_feedback.py).           *)
(*                                                                          *)
(* A coverage token (a canonical tuple of IDs) is the set of its IDs.       *)
(***************************************************************************)
EXTENDS Naturals, Sequences, FiniteSets

\* The ranked tokens, each at its first occurrence.
Firsts(ranking) == {i \in DOMAIN ranking : \A j \in 1..(i - 1) : ranking[j] # ranking[i]}

RetrievalSignature(ranking) ==
  [k \in 1..Cardinality(Firsts(ranking)) |->
     ranking[CHOOSE i \in Firsts(ranking) : Cardinality({j \in Firsts(ranking) : j <= i}) = k]]

TokenIds(ranking) == UNION {ranking[i] : i \in DOMAIN ranking}

\* CoverageState.observe: the state is replaced by nobody here, the update carries the
\* next one.
Observed(initial, reached, ranking) ==
  [state |-> reached \cup TokenIds(ranking), retrieved |-> TokenIds(ranking),
   newly |-> TokenIds(ranking) \ reached, gain |-> Cardinality(TokenIds(ranking) \ reached)]

\* It raises on an empty E_0, an empty lineage and an ID outside E_0.
Observable(initial, ranking) ==
  /\ initial # {}
  /\ \A i \in DOMAIN ranking : ranking[i] # {}
  /\ TokenIds(ranking) \subseteq initial
=============================================================================
