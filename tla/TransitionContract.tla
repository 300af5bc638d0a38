--------------------------- MODULE TransitionContract ---------------------------
(***************************************************************************)
(* The certificates of state_contract.py and the one function that turns a *)
(* certified physical transition into new live bindings,                   *)
(* apply_certified_transition of materialization.py.                       *)
(*                                                                         *)
(* One campaign and one root checkpoint: a certificate that belongs to     *)
(* another campaign, checkpoint or E_0 has scope "foreign".  A canonical   *)
(* lineage token (the sorted tuple of a non-empty set of coverage IDs) is  *)
(* that set.  Proof digests and reasons are left out.                      *)
(***************************************************************************)
EXTENDS Naturals, Sequences, FiniteSets

CONSTANTS E0,        \* the frozen coverage IDs of the checkpoint
          StateIds,  \* state_id of the live backend states
          EntryIds   \* backend_entry_id values

ASSUME IdsAssumption == IsFiniteSet(E0)

Ref == [state : StateIds, entry : EntryIds]

Token == (SUBSET E0) \ {{}}

\* One to one with dict[PhysicalEntryRef, CoverageToken].
IsBinding(f) ==
  /\ f = [r \in DOMAIN f |-> f[r]]
  /\ DOMAIN f \subseteq Ref
  /\ \A r \in DOMAIN f : f[r] \in Token

Ids(f) == UNION {f[r] : r \in DOMAIN f}

TokenBag(f) == [t \in {f[r] : r \in DOMAIN f} |-> Cardinality({r \in DOMAIN f : f[r] = t})]

-----------------------------------------------------------------------------
(* One affected group: its resolved endpoints and the unresolved ones.      *)

OneToOneKinds   == {"unchanged_lineage", "same_id_changed", "replaced"}
CertifiableKinds == OneToOneKinds \cup {"deleted", "merge", "split"}
UnresolvedKinds == {"newly_observed_uncertified", "otherwise_unresolved"}

OutcomeKind ==
  [same_id |-> "same_id_changed", deleted |-> "deleted", replaced |-> "replaced",
   merged |-> "merge", split |-> "split", unchanged |-> "unchanged_lineage"]

Outcomes == DOMAIN OutcomeKind

PredRefs(g) == DOMAIN g.pred \cup g.upred
SuccRefs(g) == DOMAIN g.succ \cup g.usucc
InheritedIds(g) == Ids(g.pred) \cup Ids(g.succ)

\* Mutant: successors of another lineage let through.
MutOneToOneAnyToken(g) ==
  /\ g.kind \in OneToOneKinds
  /\ \E p, s \in Ref : DOMAIN g.pred = {p} /\ DOMAIN g.succ = {s}

OneToOne(g) ==
  /\ g.kind \in OneToOneKinds
  /\ \E p, s \in Ref : /\ DOMAIN g.pred = {p}
                       /\ DOMAIN g.succ = {s}
                       /\ g.pred[p] = g.succ[s]
                       /\ g.kind = "same_id_changed" => p.entry = s.entry

Deletion(g) ==
  /\ g.kind = "deleted"
  /\ \E p \in Ref : DOMAIN g.pred = {p}
  /\ DOMAIN g.succ = {}

Merge(g) ==
  /\ g.kind = "merge"
  /\ Cardinality(DOMAIN g.pred) >= 2
  /\ Cardinality(Ids(g.pred)) >= 2
  /\ \E s \in Ref : DOMAIN g.succ = {s} /\ g.succ[s] = Ids(g.pred)

Split(g) ==
  /\ g.kind = "split"
  /\ Cardinality(DOMAIN g.succ) >= 2
  /\ \E p \in Ref : /\ DOMAIN g.pred = {p}
                    /\ Cardinality(g.pred[p]) = 1
                    /\ \A s \in DOMAIN g.succ : g.succ[s] = g.pred[p]

Unresolved(g) ==
  /\ g.kind \in UnresolvedKinds
  /\ g.upred \cup g.usucc # {}
  /\ g.kind = "newly_observed_uncertified" =>
       DOMAIN g.pred = {} /\ DOMAIN g.succ = {} /\ g.upred = {}

WellFormedGroup(g) ==
  /\ IsBinding(g.pred) /\ IsBinding(g.succ)
  /\ g.upred \subseteq Ref \ DOMAIN g.pred
  /\ g.usucc \subseteq Ref \ DOMAIN g.succ
  /\ \/ Unresolved(g)
     \/ /\ g.upred = {} /\ g.usucc = {}
        /\ OneToOne(g) \/ Deletion(g) \/ Merge(g) \/ Split(g)

-----------------------------------------------------------------------------
(* A physical transition certificate.  Its groups are a set: the constructor *)
(* makes their transition IDs unique and their objects disjoint.             *)

NoOutcome == "no_outcome"

Preds(c) == UNION {DOMAIN g.pred : g \in c.groups}
Succs(c) == UNION {DOMAIN g.succ : g \in c.groups}

WellFormedCertificate(c) ==
  /\ \A g \in c.groups : WellFormedGroup(g)
  /\ \A g, h \in c.groups : g # h => /\ PredRefs(g) \cap PredRefs(h) = {}
                                     /\ SuccRefs(g) \cap SuccRefs(h) = {}
  /\ (Preds(c) \cup Succs(c)) \cap UNION {g.upred \cup g.usucc : g \in c.groups} = {}
  /\ \/ /\ c.status = "certified"
        /\ c.post \in BOOLEAN
        /\ c.outcome \in Outcomes
        /\ \A g \in c.groups : g.kind \in CertifiableKinds
        /\ c.target \in c.groups
        /\ c.target.kind = OutcomeKind[c.outcome]
     \/ c.status = "unresolved" /\ c.outcome = NoOutcome

-----------------------------------------------------------------------------
(* apply_certified_transition: the checks, then the new live bindings.      *)

BoundTo(f, s) == \A r \in DOMAIN f : r.state = s

Survivors(f, c) == DOMAIN f \ Preds(c)

\* Mutant: the claimed lineage of a predecessor is not compared with the live one.
MutAppliesStale(f, c, current, successor) ==
  /\ c.status = "certified" /\ c.scope = "seed"
  /\ BoundTo(f, current)
  /\ \A g \in c.groups : \A p \in DOMAIN g.pred : p.state = current /\ p \in DOMAIN f
  /\ \A g \in c.groups : \A s \in DOMAIN g.succ :
       s.state = successor /\ s \notin Survivors(f, c)

Applies(f, c, current, successor) ==
  /\ c.status = "certified"
  /\ c.scope = "seed"
  /\ BoundTo(f, current)
  /\ \A g \in c.groups : \A p \in DOMAIN g.pred :
       /\ p.state = current
       /\ p \in DOMAIN f
       /\ f[p] = g.pred[p]
  /\ \A g \in c.groups : \A s \in DOMAIN g.succ :
       /\ s.state = successor
       /\ s \notin Survivors(f, c)

SuccToken(c, s) == (CHOOSE g \in c.groups : s \in DOMAIN g.succ).succ[s]

\* Mutant: a survivor gives up the IDs the certificate hands to new objects.
MutAppliedMoving(f, c) ==
  [r \in Survivors(f, c) \cup Succs(c) |->
     IF r \in Succs(c) THEN SuccToken(c, r)
     ELSE f[r] \ UNION {SuccToken(c, s) : s \in Succs(c)}]

Applied(f, c) ==
  [r \in Survivors(f, c) \cup Succs(c) |-> IF r \in Succs(c) THEN SuccToken(c, r) ELSE f[r]]

DeletedIds(f) == E0 \ Ids(f)

-----------------------------------------------------------------------------
(* What replay demands of a certificate for one realized artifact, in the   *)
(* order of the checks; "accepted" when there is none to report.            *)

TransitionVerdict(c, artifact) ==
  IF \/ c.status # "certified"
     \/ c.artifact # artifact.id
     \/ c.scope # "seed"
     \/ c.outcome \notin artifact.acceptable
     \/ c.outcome = "unchanged"
  THEN "transition_replay_diverged"
  ELSE IF ~c.post THEN "transition_semantic_drift"
  ELSE IF ~(artifact.target \subseteq InheritedIds(c.target)) THEN "transition_replay_diverged"
  ELSE "accepted"

\* validate_memory_child_contract on the last replayed transition.
MemoryChild(artifact, c, d) ==
  /\ TransitionVerdict(c, artifact) = "accepted"
  /\ d.accepted # << >>
  /\ d.accepted[Len(d.accepted)] = c.id

\* The constructor check of DescendantStateCertificate.
WellFormedDescendant(d) ==
  /\ DOMAIN d.bag \subseteq Token
  /\ d.deleted \subseteq E0
  /\ UNION DOMAIN d.bag = E0 \ d.deleted
  /\ \A i, j \in DOMAIN d.accepted : d.accepted[i] = d.accepted[j] => i = j

\* The constructor check of ReplayRebindingCertificate.
WellFormedRebinding(b) ==
  /\ IsBinding(b.live)
  /\ b.deleted = E0 \ Ids(b.live)
  /\ b.kind = "root" => /\ b.deleted = {}
                        /\ \A r \in DOMAIN b.live : Cardinality(b.live[r]) = 1
                        /\ \A r, q \in DOMAIN b.live : r # q => b.live[r] # b.live[q]

\* _validate_descendant_against_rebinding.
MatchesRebinding(d, f, gone) == d.bag = TokenBag(f) /\ d.deleted = gone
=============================================================================
