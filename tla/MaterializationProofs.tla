-------------------------- MODULE MaterializationProofs --------------------------
(***************************************************************************)
(* Theorems about Materialization for every set of coverage IDs, states,   *)
(* certificates and seeds.                                                 *)
(***************************************************************************)
EXTENDS Materialization, TLAPS, FiniteSetTheorems

-----------------------------------------------------------------------------
(* What one certified transition does to the live bindings.                *)

\* A certified group hands its successors only IDs of its predecessors: no
\* constructor of state_contract.py lets an object gain lineage.
LEMMA GroupKeepsIds ==
  ASSUME NEW g, WellFormedGroup(g), g.kind \in CertifiableKinds
  PROVE  Ids(g.succ) \subseteq Ids(g.pred)
<1>1. ~Unresolved(g)
  BY DEF Unresolved, CertifiableKinds, OneToOneKinds, UnresolvedKinds
<1>2. CASE OneToOne(g)
  <2>1. PICK p, s \in Ref : DOMAIN g.pred = {p} /\ DOMAIN g.succ = {s} /\ g.pred[p] = g.succ[s]
    BY <1>2 DEF OneToOne
  <2>. QED  BY <2>1 DEF Ids
<1>3. CASE Deletion(g)
  BY <1>3 DEF Deletion, Ids
<1>4. CASE Merge(g)
  BY <1>4 DEF Merge, Ids
<1>5. CASE Split(g)
  <2>1. PICK p \in Ref : DOMAIN g.pred = {p} /\ \A s \in DOMAIN g.succ : g.succ[s] = g.pred[p]
    BY <1>5 DEF Split
  <2>. QED  BY <2>1 DEF Ids
<1>. QED  BY <1>1, <1>2, <1>3, <1>4, <1>5 DEF WellFormedGroup

\* The token apply_certified_transition binds a successor to is a token of a group of
\* the certificate.
LEMMA SuccTokenOfGroup ==
  ASSUME NEW c, NEW s \in Succs(c)
  PROVE  \E g \in c.groups : s \in DOMAIN g.succ /\ SuccToken(c, s) = g.succ[s]
BY DEF Succs, SuccToken

\* apply_certified_transition yields a one-to-one re-binding again.
LEMMA AppliedIsBinding ==
  ASSUME NEW f, IsBinding(f), NEW c, WellFormedCertificate(c)
  PROVE  IsBinding(Applied(f, c))
<1>1. ASSUME NEW r \in Succs(c) PROVE r \in Ref /\ SuccToken(c, r) \in Token
  <2>1. PICK g \in c.groups : r \in DOMAIN g.succ /\ SuccToken(c, r) = g.succ[r]
    BY SuccTokenOfGroup
  <2>2. IsBinding(g.succ)
    BY DEF WellFormedCertificate, WellFormedGroup
  <2>. QED  BY <2>1, <2>2 DEF IsBinding
<1>2. ASSUME NEW r \in Survivors(f, c) PROVE r \in Ref /\ f[r] \in Token
  BY DEF Survivors, IsBinding
<1>. QED  BY <1>1, <1>2 DEF IsBinding, Applied

\* No transition that apply_certified_transition accepts makes an ID live that was not.
LEMMA AppliedKeepsIds ==
  ASSUME NEW f, NEW c, WellFormedCertificate(c), NEW cur, NEW suc, Applies(f, c, cur, suc)
  PROVE  Ids(Applied(f, c)) \subseteq Ids(f)
<1>1. ASSUME NEW r \in Succs(c) PROVE SuccToken(c, r) \subseteq Ids(f)
  <2>1. PICK g \in c.groups : r \in DOMAIN g.succ /\ SuccToken(c, r) = g.succ[r]
    BY SuccTokenOfGroup
  <2>2. WellFormedGroup(g) /\ g.kind \in CertifiableKinds
    BY DEF WellFormedCertificate, Applies
  <2>3. Ids(g.succ) \subseteq Ids(g.pred)
    BY <2>2, GroupKeepsIds
  <2>4. Ids(g.pred) \subseteq Ids(f)
    BY DEF Applies, Ids
  <2>. QED  BY <2>1, <2>3, <2>4 DEF Ids
<1>2. ASSUME NEW r \in Survivors(f, c) PROVE f[r] \subseteq Ids(f)
  BY DEF Survivors, Ids
<1>. QED  BY <1>1, <1>2 DEF Ids, Applied

-----------------------------------------------------------------------------
(* The inductive invariant.  TypeOK is not inductive by itself: a successor *)
(* state is the owned one or a fresh one, so the owned one must be live.    *)

\* Where the orchestration or its caller holds a materialization.
Held == {"replay", "certify", "observe", "retrieve", "published"}

Ownership ==
  /\ OnlyOwnedAlive
  /\ FailureRetires
  /\ pc \in Held => owned \in alive
  /\ pc \in {"start", "root"} => alive = {} /\ deleted = {} /\ certs = << >>

\* Every initialized ID is live or deleted, and no binding is of another state.
Accounting ==
  pc \in Held => deleted = E0 \ Ids(live) /\ BoundTo(live, owned)

\* What the i-th accepted certificate has to do with the i-th artifact.
Replays(c, artifact) ==
  c.artifact = artifact.id /\ c.outcome \in artifact.acceptable /\ c.post

Progress ==
  /\ pc = "replay" => Len(certs) < Len(call.seed.path)
  /\ pc \in Held \ {"replay"} => Len(certs) = Len(call.seed.path)
  /\ pc \in Held => \A i \in DOMAIN certs : Replays(certs[i], call.seed.path[i])

\* What the descendant certificate has been compared with.
Certified ==
  pc \in {"observe", "retrieve", "published"} =>
    /\ TokenBag(live) = call.seed.final.bag
    /\ deleted = call.seed.final.deleted
    /\ \A i \in DOMAIN certs : certs[i].id = call.seed.final.accepted[i]

IInv == TypeOK /\ Ownership /\ Accounting /\ Progress /\ Certified

-----------------------------------------------------------------------------
(* Type correctness.                                                        *)

\* A seed of a legal call is a seed, so its path is a sequence of artifacts.
LEMMA SeedOfCall ==
  ASSUME TypeOK
  PROVE  /\ call.seed \in Seeds
         /\ Len(call.seed.path) \in Nat
BY SeedAssumption DEF TypeOK, LegalCalls, Arguments

\* A reply that replay accepts leaves a one-to-one re-binding inside the old one's IDs.
LEMMA AcceptedReply ==
  ASSUME TypeOK, NEW s, NEW c \in Replies, ReplayVerdict(c, s) = "accepted"
  PROVE  /\ IsBinding(Applied(live, c))
         /\ Ids(Applied(live, c)) \subseteq Ids(live)
         /\ BoundTo(Applied(live, c), s)
         /\ TransitionVerdict(c, call.seed.path[Len(certs) + 1]) = "accepted"
<1>1. WellFormedCertificate(c)
  BY DEF Replies
<1>2. /\ Applies(live, c, owned, s) /\ BoundTo(Applied(live, c), s)
      /\ TransitionVerdict(c, call.seed.path[Len(certs) + 1]) = "accepted"
  BY DEF ReplayVerdict
<1>. QED  BY <1>1, <1>2, AppliedIsBinding, AppliedKeepsIds DEF TypeOK

\* The kinds a replay is refused with are failure kinds of the code.
LEMMA RefusalsAreFailures ==
  ASSUME NEW s PROVE Refusals(s) \subseteq FailureKinds
<1>1. ASSUME NEW c \in Replies PROVE ReplayVerdict(c, s) \in FailureKinds \cup {"accepted"}
  <2>1. TransitionVerdict(c, call.seed.path[Len(certs) + 1])
          \in {"transition_replay_diverged", "transition_semantic_drift", "accepted"}
    BY DEF TransitionVerdict
  <2>. QED  BY <2>1 DEF ReplayVerdict, FailureKinds
<1>. QED  BY <1>1 DEF Refusals, FailureKinds

LEMMA TypeStep ==
  ASSUME TypeOK, Ownership, [Next]_vars
  PROVE  TypeOK'
<1>0. \A kind \in FailureKinds, b \in BOOLEAN : Normalized(kind, b) \in FailureKinds
  BY DEF Normalized, FailureKinds
<1>1. CASE Begin
  BY <1>1 DEF TypeOK, Begin, ReturnFailure, FailureKinds, lineageVars
<1>2. CASE RootFails
  BY <1>0, <1>2 DEF TypeOK, RootFails, ReturnFailure, lineageVars
<1>3. CASE RootReturns
  <2>1. \A b \in Roots : IsBinding(b.live) /\ b.deleted \subseteq E0
    BY DEF Roots, WellFormedRebinding
  <2>. QED  BY <1>3, <2>1 DEF TypeOK, RootReturns, DiscardAndFail, FailureKinds, Onward, lineageVars
<1>4. CASE ReplayFails
  BY <1>0, <1>4 DEF TypeOK, ReplayFails, DiscardAndFail, lineageVars
<1>5. CASE ReplayRejected
  BY <1>5, RefusalsAreFailures
     DEF TypeOK, Ownership, Held, ReplayRejected, DiscardAndFail, HandOver, Successors, lineageVars
<1>6. CASE ReplayAccepted
  <2>1. PICK s \in Successors, c \in Replies :
          /\ ReplayVerdict(c, s) = "accepted"
          /\ HandOver(s) /\ owned' = s
          /\ live' = Applied(live, c) /\ deleted' = DeletedIds(Applied(live, c))
          /\ certs' = Append(certs, c) /\ pc' = Onward(Len(certs) + 1)
    BY <1>6 DEF ReplayAccepted
  <2>2. IsBinding(live') /\ deleted' \subseteq E0
    BY <2>1, AcceptedReply DEF DeletedIds
  <2>3. certs' \in Seq(Replies)
    BY <2>1 DEF TypeOK
  <2>4. alive' \subseteq StateIds /\ owned' \in StateIds \cup {NoState}
    BY <1>6, <2>1 DEF ReplayAccepted, TypeOK, Ownership, Held, HandOver, Successors
  <2>5. pc' \in {"replay", "certify"}
    BY <2>1 DEF Onward
  <2>. QED  BY <1>6, <2>2, <2>3, <2>4, <2>5 DEF TypeOK, ReplayAccepted
<1>7. CASE CertifyFails
  BY <1>0, <1>7 DEF TypeOK, CertifyFails, DiscardAndFail, lineageVars
<1>8. CASE CertifyReturns
  BY <1>8 DEF TypeOK, CertifyReturns, DiscardAndFail, FailureKinds, lineageVars
<1>9. CASE Discard
  BY <1>9 DEF TypeOK, Discard, lineageVars
<1>10. CASE Observe
  BY <1>10 DEF TypeOK, Observe, ObservationRaises, ObservationFails, FailureKinds, lineageVars
<1>11. CASE RetrieveFails
  BY <1>0, <1>11 DEF TypeOK, RetrieveFails, ObservationFails, lineageVars
<1>12. CASE RetrieveReturns
  <2>1. PICK ranked \in RankedRefs, s \in StateIds :
          \/ UNCHANGED observation
          \/ /\ \A i \in DOMAIN ranked : ranked[i] \in DOMAIN live
             /\ observation'.ids = UNION {live[ranked[i]] : i \in DOMAIN ranked}
    BY <1>12 DEF RetrieveReturns
  <2>2. observation'.ids \subseteq E0
    BY <2>1 DEF TypeOK, IsBinding, Token
  <2>3. /\ pc' \in {"discard", "raised", "published"}
        /\ result' \in FailureKinds \cup {"observed", "raised"}
    BY <1>12 DEF RetrieveReturns, ObservationRaises, ObservationFails, FailureKinds
  <2>. QED  BY <1>12, <2>2, <2>3 DEF TypeOK, RetrieveReturns, lineageVars
<1>13. CASE Borrow
  BY <1>13 DEF TypeOK, Borrow, NoObservation, lineageVars
<1>14. CASE CallerDiscards
  BY <1>14 DEF TypeOK, CallerDiscards, lineageVars
<1>15. CASE UNCHANGED vars
  BY <1>15 DEF TypeOK, vars
<1>. QED  BY <1>1, <1>2, <1>3, <1>4, <1>5, <1>6, <1>7, <1>8, <1>9, <1>10, <1>11, <1>12,
             <1>13, <1>14, <1>15 DEF Next, Materialize, Retrieval

-----------------------------------------------------------------------------
(* Ownership of the live handle.                                            *)

LEMMA OwnershipStep ==
  ASSUME TypeOK, Ownership, [Next]_vars
  PROVE  Ownership'
<1>. USE DEF Ownership, OnlyOwnedAlive, FailureRetires, Held, lineageVars
<1>1. CASE Begin
  BY <1>1 DEF Begin, ReturnFailure
<1>2. CASE RootFails
  BY <1>2 DEF RootFails, ReturnFailure
<1>3. CASE RootReturns
  BY <1>3 DEF RootReturns, DiscardAndFail, Onward
<1>4. CASE ReplayFails
  BY <1>4 DEF ReplayFails, DiscardAndFail
<1>5. CASE ReplayRejected
  BY <1>5 DEF ReplayRejected, DiscardAndFail, HandOver
<1>6. CASE ReplayAccepted
  BY <1>6 DEF ReplayAccepted, HandOver, Onward
<1>7. CASE CertifyFails
  BY <1>7 DEF CertifyFails, DiscardAndFail
<1>8. CASE CertifyReturns
  BY <1>8 DEF CertifyReturns, DiscardAndFail
<1>9. CASE Discard
  BY <1>9 DEF Discard
<1>10. CASE Observe
  BY <1>10 DEF Observe, ObservationRaises, ObservationFails
<1>11. CASE RetrieveFails
  BY <1>11 DEF RetrieveFails, ObservationFails
<1>12. CASE RetrieveReturns
  BY <1>12 DEF RetrieveReturns, ObservationRaises, ObservationFails
<1>13. CASE Borrow
  BY <1>13 DEF Borrow
<1>14. CASE CallerDiscards
  BY <1>14 DEF CallerDiscards
<1>15. CASE UNCHANGED vars
  BY <1>15 DEF vars
<1>. QED  BY <1>1, <1>2, <1>3, <1>4, <1>5, <1>6, <1>7, <1>8, <1>9, <1>10, <1>11, <1>12,
             <1>13, <1>14, <1>15 DEF Next, Materialize, Retrieval

-----------------------------------------------------------------------------
(* Lineage, deletions and the replayed path.  Only the actions that enter    *)
(* or advance a held materialization matter; the others leave its bindings   *)
(* alone and keep it held, or let it go.                                     *)

\* The actions that leave the lineage, the handle and the caller's arguments alone and
\* enter no held position from outside.
LEMMA QuietStep ==
  ASSUME TypeOK, [Next]_vars, ~RootReturns, ~ReplayAccepted, ~CertifyReturns
  PROVE  /\ UNCHANGED <<call, live, deleted, certs>>
         /\ pc' \in Held => pc \in Held /\ owned' = owned
         /\ pc' = "replay" => pc = "replay"
         /\ pc' \in Held \ {"replay"} => pc \in Held \ {"replay"}
         /\ pc' \in {"observe", "retrieve", "published"}
              => pc \in {"observe", "retrieve", "published"}
<1>. USE DEF Held, lineageVars
<1>1. CASE Begin \/ RootFails
  BY <1>1 DEF Begin, RootFails, ReturnFailure
<1>2. CASE ReplayFails \/ ReplayRejected \/ CertifyFails
  BY <1>2 DEF ReplayFails, ReplayRejected, CertifyFails, DiscardAndFail
<1>3. CASE Discard
  BY <1>3 DEF Discard
<1>4. CASE Observe
  BY <1>4 DEF Observe, ObservationRaises, ObservationFails
<1>5. CASE RetrieveFails
  BY <1>5 DEF RetrieveFails, ObservationFails
<1>6. CASE RetrieveReturns
  BY <1>6 DEF RetrieveReturns, ObservationRaises, ObservationFails
<1>7. CASE Borrow \/ CallerDiscards
  BY <1>7 DEF Borrow, CallerDiscards
<1>8. CASE UNCHANGED vars
  BY <1>8 DEF vars
<1>. QED  BY <1>1, <1>2, <1>3, <1>4, <1>5, <1>6, <1>7, <1>8 DEF Next, Materialize, Retrieval

LEMMA AccountingStep ==
  ASSUME IInv, [Next]_vars
  PROVE  Accounting'
<1>. USE DEF Held, lineageVars
<1>1. CASE RootReturns
  <2>1. \A b \in Roots : b.deleted = E0 \ Ids(b.live)
    BY DEF Roots, WellFormedRebinding
  <2>2. PICK s \in StateIds \ alive, b \in Roots, inScope \in BOOLEAN :
          \/ pc' = "discard"
          \/ /\ RootBindingValid(b, s, inScope)
             /\ owned' = s /\ live' = b.live /\ deleted' = b.deleted
    BY <1>1 DEF RootReturns, DiscardAndFail
  <2>. QED  BY <2>1, <2>2 DEF Accounting, RootBindingValid, BoundTo
<1>2. CASE ReplayAccepted
  <2>1. PICK s \in Successors, c \in Replies :
          /\ ReplayVerdict(c, s) = "accepted"
          /\ owned' = s /\ live' = Applied(live, c) /\ deleted' = DeletedIds(Applied(live, c))
    BY <1>2 DEF ReplayAccepted
  <2>2. BoundTo(Applied(live, c), s)
    BY <2>1, AcceptedReply DEF IInv
  <2>. QED  BY <2>1, <2>2 DEF Accounting, DeletedIds, BoundTo
<1>3. CASE CertifyReturns
  BY <1>3 DEF CertifyReturns, DiscardAndFail, IInv, Accounting, BoundTo
<1>. QED  BY <1>1, <1>2, <1>3, QuietStep DEF IInv, Accounting, BoundTo

LEMMA ProgressStep ==
  ASSUME IInv, [Next]_vars
  PROVE  Progress'
<1>. USE DEF Held, lineageVars
<1>0. Len(call.seed.path) \in Nat /\ certs \in Seq(Replies)
  BY SeedOfCall DEF IInv, TypeOK
<1>1. CASE RootReturns
  <2>1. certs = << >> /\ certs' = certs /\ call' = call
    BY <1>1 DEF RootReturns, IInv, Ownership
  <2>2. pc' \in {"discard", Onward(0)}
    BY <1>1 DEF RootReturns, DiscardAndFail
  <2>. QED  BY <1>0, <2>1, <2>2 DEF Progress, Onward
<1>2. CASE ReplayAccepted
  <2>1. PICK c \in Replies, s \in Successors :
          /\ ReplayVerdict(c, s) = "accepted"
          /\ certs' = Append(certs, c) /\ pc' = Onward(Len(certs) + 1)
    BY <1>2 DEF ReplayAccepted
  <2>2. /\ Len(certs) < Len(call.seed.path) /\ call' = call
        /\ \A i \in DOMAIN certs : Replays(certs[i], call.seed.path[i])
    BY <1>2 DEF ReplayAccepted, IInv, Progress
  <2>3. Replays(c, call.seed.path[Len(certs) + 1])
    <3>1. TransitionVerdict(c, call.seed.path[Len(certs) + 1]) = "accepted"
      BY <2>1, AcceptedReply DEF IInv
    <3>. QED  BY <3>1 DEF TransitionVerdict, Replays
  <2>4. /\ Len(certs') = Len(certs) + 1
        /\ \A i \in DOMAIN certs' : Replays(certs'[i], call.seed.path[i])
    BY <1>0, <2>1, <2>2, <2>3
  <2>. QED  BY <1>0, <2>1, <2>2, <2>4 DEF Progress, Onward, Replays
<1>3. CASE CertifyReturns
  BY <1>3 DEF CertifyReturns, DiscardAndFail, IInv, Progress, Replays
<1>. QED  BY <1>1, <1>2, <1>3, QuietStep DEF IInv, Progress, Replays

LEMMA CertifiedStep ==
  ASSUME IInv, [Next]_vars
  PROVE  Certified'
<1>. USE DEF Held, lineageVars
<1>1. CASE RootReturns
  BY <1>1 DEF RootReturns, DiscardAndFail, Onward, Certified
<1>2. CASE ReplayAccepted
  BY <1>2 DEF ReplayAccepted, Onward, Certified
<1>3. CASE CertifyReturns
  <2>1. PICK d \in Observable :
          \/ pc' = "discard"
          \/ DescendantValid(d)
    BY <1>3 DEF CertifyReturns, DiscardAndFail
  <2>2. ASSUME DescendantValid(d)
        PROVE  /\ TokenBag(live) = call.seed.final.bag
               /\ deleted = call.seed.final.deleted
               /\ \A i \in DOMAIN certs : certs[i].id = call.seed.final.accepted[i]
    BY <2>2 DEF DescendantValid, MatchesRebinding
  <2>3. UNCHANGED <<call, live, deleted, certs>>
    BY <1>3 DEF CertifyReturns
  <2>4. CASE pc' = "discard"
    BY <2>4 DEF Certified
  <2>5. CASE DescendantValid(d)
    <3>1. TokenBag(live)' = TokenBag(live)
      BY <2>3 DEF TokenBag
    <3>. QED  BY <2>2, <2>3, <2>5, <3>1 DEF Certified
  <2>. QED  BY <2>1, <2>4, <2>5
<1>4. CASE ~RootReturns /\ ~ReplayAccepted /\ ~CertifyReturns
  <2>1. /\ UNCHANGED <<call, live, deleted, certs>>
        /\ pc' \in {"observe", "retrieve", "published"}
             => pc \in {"observe", "retrieve", "published"}
    BY <1>4, QuietStep DEF IInv
  <2>2. TokenBag(live)' = TokenBag(live)
    BY <2>1 DEF TokenBag
  <2>. QED  BY <2>1, <2>2 DEF IInv, Certified
<1>. QED  BY <1>1, <1>2, <1>3, <1>4

LEMMA InvariantHolds == Spec => []IInv
<1>1. Init => IInv
  BY DEF Init, IInv, TypeOK, IsBinding, NoObservation, Ownership, OnlyOwnedAlive,
         FailureRetires, Accounting, Progress, Certified, Held
<1>2. IInv /\ [Next]_vars => IInv'
  <2>. SUFFICES ASSUME IInv, [Next]_vars PROVE IInv'
    OBVIOUS
  <2>1. TypeOK' /\ Ownership'
    BY TypeStep, OwnershipStep DEF IInv
  <2>2. Accounting' /\ Progress' /\ Certified'
    BY AccountingStep, ProgressStep, CertifiedStep
  <2>. QED  BY <2>1, <2>2 DEF IInv
<1>. QED  BY <1>1, <1>2, PTL DEF Spec

-----------------------------------------------------------------------------
(* The theorems.                                                            *)

\* Type correctness of the orchestration, for every seed and every reply.
THEOREM TypeCorrect == Spec => []TypeOK
BY InvariantHolds, PTL DEF IInv

\* At every await the handle named by `state` is the only one that can be live, and a
\* failure returned to the caller leaves none, the backend's discard willing.
THEOREM HandlesAreRetired == Spec => []HandlesRetired
BY InvariantHolds, PTL DEF IInv, Ownership, HandlesRetired

\* A materialization is published only as its seed describes it.
THEOREM PublicationFaithful == Spec => []PublishedIsSeed
<1>1. IInv => PublishedIsSeed
  BY DEF IInv, Ownership, Accounting, Progress, Certified, Held, Replays, PublishedIsSeed
<1>. QED  BY <1>1, InvariantHolds, PTL

\* Every initialized ID stays accounted for, live or deleted, under any certified merges,
\* splits, replacements and deletions.
THEOREM EveryIdStaysAccounted == Spec => []EveryIdAccounted
<1>1. IInv => EveryIdAccounted
  BY DEF IInv, TypeOK, Accounting, Held, EveryIdAccounted, IsBinding, Ids, Token
<1>. QED  BY <1>1, InvariantHolds, PTL

\* A deleted ID never becomes live again, whatever certificates the backend returns.
THEOREM DeletionIsFinal == Spec => NoResurrection
<1>1. IInv /\ [Next]_vars => deleted \subseteq deleted'
  <2>. SUFFICES ASSUME IInv, [Next]_vars PROVE deleted \subseteq deleted'
    OBVIOUS
  <2>1. CASE RootReturns
    BY <2>1 DEF RootReturns, IInv, Ownership
  <2>2. CASE ReplayAccepted
    <3>1. PICK s \in Successors, c \in Replies :
            /\ ReplayVerdict(c, s) = "accepted"
            /\ deleted' = DeletedIds(Applied(live, c))
      BY <2>2 DEF ReplayAccepted
    <3>2. deleted = E0 \ Ids(live)
      BY <2>2 DEF ReplayAccepted, IInv, Accounting, Held
    <3>. QED  BY <3>1, <3>2, AcceptedReply DEF IInv, DeletedIds
  <2>3. CASE CertifyReturns
    BY <2>3 DEF CertifyReturns, lineageVars
  <2>. QED  BY <2>1, <2>2, <2>3, QuietStep DEF IInv
<1>. QED  BY <1>1, InvariantHolds, PTL DEF Spec, NoResurrection

\* An observation leaves a borrowed materialization live and in its borrower's hands.
THEOREM BorrowingIsHarmless == Spec => BorrowerKeeps
<1>. DEFINE Keeps == ~call.compose /\ pc \in {"published", "observe", "retrieve"} =>
       \/ pc' = "released"
       \/ pc' \in {"published", "observe", "retrieve"} /\ owned' = owned /\ owned \in alive'
<1>1. IInv /\ [Next]_vars => Keeps
  <2>. SUFFICES ASSUME IInv, [Next]_vars, ~call.compose, pc \in {"published", "observe", "retrieve"}
                PROVE  \/ pc' = "released"
                       \/ /\ pc' \in {"published", "observe", "retrieve"}
                          /\ owned' = owned /\ owned \in alive'
    OBVIOUS
  <2>0. owned \in alive
    BY DEF IInv, Ownership, Held
  <2>1. CASE Observe
    BY <2>0, <2>1 DEF Observe, ObservationRaises, ObservationFails
  <2>2. CASE RetrieveFails
    BY <2>0, <2>2 DEF RetrieveFails, ObservationFails
  <2>3. CASE RetrieveReturns
    BY <2>0, <2>3 DEF RetrieveReturns, ObservationRaises, ObservationFails
  <2>4. CASE Borrow \/ CallerDiscards
    BY <2>0, <2>4 DEF Borrow, CallerDiscards
  <2>5. CASE UNCHANGED vars
    BY <2>0, <2>5 DEF vars
  <2>6. ~Materialize
    BY DEF Materialize, Begin, RootFails, RootReturns, ReplayFails, ReplayRejected,
           ReplayAccepted, CertifyFails, CertifyReturns, Discard
  <2>. QED  BY <2>1, <2>2, <2>3, <2>4, <2>5, <2>6 DEF Next, Retrieval
<1>. QED  BY <1>1, InvariantHolds, PTL DEF Spec, BorrowerKeeps

-----------------------------------------------------------------------------
(* Lineage shape.                                                           *)

\* Where an ID of a new binding comes from: the object itself, or a predecessor in the
\* group that made the object.
LEMMA Origin ==
  ASSUME NEW f, NEW c, WellFormedCertificate(c), NEW cur, NEW suc, Applies(f, c, cur, suc),
         NEW r \in DOMAIN Applied(f, c), NEW x \in Applied(f, c)[r]
  PROVE  \E p \in DOMAIN f :
           /\ x \in f[p]
           /\ \/ p = r /\ r \notin Preds(c)
              \/ \E g \in c.groups : r \in DOMAIN g.succ /\ p \in DOMAIN g.pred
<1>1. CASE r \notin Succs(c)
  BY <1>1 DEF Applied, Survivors
<1>2. CASE r \in Succs(c)
  <2>1. PICK g \in c.groups : r \in DOMAIN g.succ /\ SuccToken(c, r) = g.succ[r]
    BY <1>2, SuccTokenOfGroup
  <2>2. x \in Ids(g.succ)
    BY <1>2, <2>1 DEF Applied, Ids
  <2>3. WellFormedGroup(g) /\ g.kind \in CertifiableKinds
    BY DEF WellFormedCertificate, Applies
  <2>4. x \in Ids(g.pred)
    BY <2>2, <2>3, GroupKeepsIds
  <2>5. PICK p \in DOMAIN g.pred : x \in g.pred[p]
    BY <2>4 DEF Ids
  <2>6. p \in DOMAIN f /\ f[p] = g.pred[p]
    BY <2>5 DEF Applies
  <2> QED
    BY <2>1, <2>5, <2>6
<1> QED
  BY <1>1, <1>2

\* A token of several IDs is an old one or a merge's.
LEMMA AppliedMerges ==
  ASSUME NEW f, NEW c, WellFormedCertificate(c), NEW cur, NEW suc, Applies(f, c, cur, suc),
         NEW r \in DOMAIN Applied(f, c), Cardinality(Applied(f, c)[r]) > 1
  PROVE  \/ \E p \in DOMAIN f : Cardinality(f[p]) > 1
         \/ \E g \in c.groups : g.kind = "merge"
<1>1. CASE r \notin Succs(c)
  BY <1>1 DEF Applied, Survivors
<1>2. CASE r \in Succs(c)
  <2>1. PICK g \in c.groups : r \in DOMAIN g.succ /\ SuccToken(c, r) = g.succ[r]
    BY <1>2, SuccTokenOfGroup
  <2>2. Cardinality(g.succ[r]) > 1
    BY <1>2, <2>1 DEF Applied
  <2>3. WellFormedGroup(g) /\ g.kind \in CertifiableKinds
    BY DEF WellFormedCertificate, Applies
  <2>4. ~Unresolved(g)
    BY <2>3 DEF Unresolved, CertifiableKinds, OneToOneKinds, UnresolvedKinds
  <2>5. CASE OneToOne(g)
    <3>1. PICK p, s \in Ref : DOMAIN g.pred = {p} /\ DOMAIN g.succ = {s} /\ g.pred[p] = g.succ[s]
      BY <2>5 DEF OneToOne
    <3>2. p \in DOMAIN f /\ f[p] = g.pred[p]
      BY <3>1 DEF Applies
    <3>3. s = r
      BY <2>1, <3>1
    <3> QED
      BY <2>2, <3>1, <3>2, <3>3
  <2>6. CASE Deletion(g)
    BY <2>1, <2>6 DEF Deletion
  <2>7. CASE Merge(g)
    BY <2>7 DEF Merge
  <2>8. CASE Split(g)
    BY <2>1, <2>2, <2>8 DEF Split
  <2> QED
    BY <2>3, <2>4, <2>5, <2>6, <2>7, <2>8 DEF WellFormedGroup
<1> QED
  BY <1>1, <1>2

\* Two objects that share an ID had predecessors that did, or are of one split.
LEMMA AppliedSplits ==
  ASSUME NEW f, NEW c, WellFormedCertificate(c), NEW cur, NEW suc, Applies(f, c, cur, suc),
         NEW r \in DOMAIN Applied(f, c), NEW q \in DOMAIN Applied(f, c), r # q,
         Applied(f, c)[r] \cap Applied(f, c)[q] # {}
  PROVE  \/ \E p, o \in DOMAIN f : p # o /\ f[p] \cap f[o] # {}
         \/ \E g \in c.groups : g.kind = "split"
<1>1. PICK x : x \in Applied(f, c)[r] /\ x \in Applied(f, c)[q]
  OBVIOUS
<1>2. PICK p \in DOMAIN f :
        /\ x \in f[p]
        /\ \/ p = r /\ r \notin Preds(c)
           \/ \E g \in c.groups : r \in DOMAIN g.succ /\ p \in DOMAIN g.pred
  BY <1>1, Origin
<1>3. PICK o \in DOMAIN f :
        /\ x \in f[o]
        /\ \/ o = q /\ q \notin Preds(c)
           \/ \E g \in c.groups : q \in DOMAIN g.succ /\ o \in DOMAIN g.pred
  BY <1>1, Origin
<1>4. CASE p # o
  BY <1>2, <1>3, <1>4
<1>5. CASE p = o
  <2>1. p \in Preds(c)
    BY <1>2, <1>3, <1>5 DEF Preds
  <2>2. PICK g \in c.groups : r \in DOMAIN g.succ /\ p \in DOMAIN g.pred
    BY <1>2, <2>1
  <2>3. PICK h \in c.groups : q \in DOMAIN h.succ /\ p \in DOMAIN h.pred
    BY <1>3, <1>5, <2>1
  <2>4. g = h
    BY <2>2, <2>3 DEF WellFormedCertificate, PredRefs
  <2>5. WellFormedGroup(g) /\ g.kind \in CertifiableKinds
    BY DEF WellFormedCertificate, Applies
  <2>6. ~Unresolved(g)
    BY <2>5 DEF Unresolved, CertifiableKinds, OneToOneKinds, UnresolvedKinds
  <2>7. ~OneToOne(g) /\ ~Deletion(g) /\ ~Merge(g)
    BY <2>2, <2>3, <2>4 DEF OneToOne, Deletion, Merge
  <2> QED
    BY <2>5, <2>6, <2>7 DEF WellFormedGroup, Split
<1> QED
  BY <1>4, <1>5

\* A root has one object for each ID.
LEMMA RootShape ==
  ASSUME NEW b \in Roots, b.kind = "root"
  PROVE  /\ \A r \in DOMAIN b.live : ~(Cardinality(b.live[r]) > 1)
         /\ \A r, q \in DOMAIN b.live : r # q => b.live[r] \cap b.live[q] = {}
<1>1. /\ IsBinding(b.live)
      /\ \A r \in DOMAIN b.live : Cardinality(b.live[r]) = 1
      /\ \A r, q \in DOMAIN b.live : r # q => b.live[r] # b.live[q]
  BY DEF Roots, WellFormedRebinding
<1>2. ASSUME NEW r \in DOMAIN b.live PROVE \E x : b.live[r] = {x}
  <2>1. b.live[r] \in SUBSET E0
    BY <1>1 DEF IsBinding, Token
  <2>2. IsFiniteSet(b.live[r])
    BY <2>1, IdsAssumption, FS_Subset
  <2> QED
    BY <1>1, <2>2, FS_Singleton
<1> QED
  BY <1>1, <1>2

LEMMA ShapeStep ==
  ASSUME IInv, LineageShape, [Next]_vars
  PROVE  LineageShape'
<1>1. CASE UNCHANGED <<live, certs>>
  BY <1>1 DEF LineageShape, HasGroup
<1>2. CASE RootReturns /\ ~UNCHANGED <<live, certs>>
  <2>1. PICK b \in Roots : b.kind = "root" /\ live' = b.live
    BY <1>2 DEF RootReturns, RootBindingValid, lineageVars
  <2> QED
    BY <2>1, RootShape DEF LineageShape
<1>3. CASE ReplayAccepted
  <2>1. PICK s \in Successors, c \in Replies :
          /\ ReplayVerdict(c, s) = "accepted"
          /\ live' = Applied(live, c) /\ certs' = Append(certs, c)
    BY <1>3 DEF ReplayAccepted
  <2>2. WellFormedCertificate(c) /\ Applies(live, c, owned, s)
    BY <2>1 DEF Replies, ReplayVerdict
  <2>3. certs \in Seq(Replies)
    BY DEF IInv, TypeOK
  <2>4. ASSUME NEW kind, HasGroup(kind) \/ \E g \in c.groups : g.kind = kind
        PROVE  HasGroup(kind)'
    <3>1. \A i \in DOMAIN certs : i \in DOMAIN certs' /\ certs'[i] = certs[i]
      BY <2>1, <2>3
    <3>2. Len(certs) + 1 \in DOMAIN certs' /\ certs'[Len(certs) + 1] = c
      BY <2>1, <2>3
    <3> QED
      BY <2>4, <3>1, <3>2 DEF HasGroup
  <2>5. (\E r \in DOMAIN live' : Cardinality(live'[r]) > 1) => HasGroup("merge")'
    BY <2>1, <2>2, <2>4, AppliedMerges DEF LineageShape
  <2>6. (\E r, q \in DOMAIN live' : r # q /\ live'[r] \cap live'[q] # {}) => HasGroup("split")'
    BY <2>1, <2>2, <2>4, AppliedSplits DEF LineageShape
  <2> QED
    BY <2>5, <2>6 DEF LineageShape
<1>4. CASE CertifyReturns
  BY <1>1, <1>4 DEF CertifyReturns, lineageVars
<1> QED
  BY <1>1, <1>2, <1>3, <1>4, QuietStep DEF IInv

\* A token of several IDs is a merge's, and two objects share an ID only after a split,
\* whatever the backend certifies.
THEOREM ShapeOfLineage == Spec => []LineageShape
<1>1. Init => LineageShape
  BY DEF Init, LineageShape
<1>. QED  BY <1>1, ShapeStep, InvariantHolds, PTL DEF Spec

-----------------------------------------------------------------------------
(* What a retrieval credits.                                                *)

\* The elements of a finite set of positions have the ranks 1, 2, ... in their order.
LEMMA Ranks ==
  ASSUME NEW m \in Nat, NEW T \in SUBSET (1..m)
  PROVE  /\ Cardinality(T) \in Nat
         /\ \A i \in T : Cardinality({j \in T : j <= i}) \in 1..Cardinality(T)
         /\ \A i, l \in T : Cardinality({j \in T : j <= i}) = Cardinality({j \in T : j <= l}) => i = l
         /\ \A k \in 1..Cardinality(T) : \E i \in T : Cardinality({j \in T : j <= i}) = k
         /\ T # {} => \E i \in T : \A j \in T : i <= j
<1> DEFINE R(i) == {j \in T : j <= i}
           rank(i) == Cardinality(R(i))
<1>1. IsFiniteSet(T) /\ Cardinality(T) \in Nat
  <2>1. IsFiniteSet(1..m)
    BY FS_Interval
  <2>2. IsFiniteSet(T)
    BY <2>1, FS_Subset
  <2> QED
    BY <2>2, FS_CardinalityType
<1>2. \A i \in T : IsFiniteSet(R(i)) /\ rank(i) \in 1..Cardinality(T)
  <2> SUFFICES ASSUME NEW i \in T PROVE IsFiniteSet(R(i)) /\ rank(i) \in 1..Cardinality(T)
    OBVIOUS
  <2>1. R(i) \in SUBSET T /\ i \in R(i)
    OBVIOUS
  <2>2. IsFiniteSet(R(i)) /\ rank(i) <= Cardinality(T)
    BY <1>1, <2>1, FS_Subset
  <2>3. rank(i) \in Nat
    BY <2>2, FS_CardinalityType
  <2>4. rank(i) # 0
    BY <2>1, <2>2, FS_EmptySet
  <2> HIDE DEF R
  <2> QED
    BY <1>1, <2>2, <2>3, <2>4
<1>3. \A i, l \in T : i < l => rank(i) # rank(l)
  <2> SUFFICES ASSUME NEW i \in T, NEW l \in T, i < l PROVE rank(i) # rank(l)
    OBVIOUS
  <2>0. i \in Int /\ l \in Int /\ T \subseteq Int
    OBVIOUS
  <2>1. R(i) \in SUBSET R(l) /\ l \in R(l) /\ l \notin R(i)
    <3>1. \A j \in T : j <= i => j <= l
      BY <2>0
    <3>2. l \in R(l) /\ l \notin R(i)
      BY <2>0
    <3> QED
      BY <3>1, <3>2
  <2>2. IsFiniteSet(R(l))
    BY <1>2
  <2> HIDE DEF R
  <2> QED
    BY <2>1, <2>2, FS_Subset
<1>4. \A i, l \in T : rank(i) = rank(l) => i = l
  <2> SUFFICES ASSUME NEW i \in T, NEW l \in T, rank(i) = rank(l), i # l PROVE FALSE
    OBVIOUS
  <2>1. i < l \/ l < i
    OBVIOUS
  <2> QED
    BY <1>3, <2>1
<1>5. \A k \in 1..Cardinality(T) : \E i \in T : rank(i) = k
  <2> SUFFICES ASSUME NEW k \in 1..Cardinality(T), \A i \in T : rank(i) # k PROVE FALSE
    OBVIOUS
  <2> DEFINE U == 1..Cardinality(T)
             f == [i \in T |-> rank(i)]
  <2>1. IsFiniteSet(U) /\ Cardinality(U) = Cardinality(T)
    BY <1>1, FS_Interval
  <2>2. IsFiniteSet(U \ {k}) /\ Cardinality(U \ {k}) = Cardinality(T) - 1
    BY <2>1, FS_RemoveElement
  <2>3. f \in [T -> U \ {k}]
    BY <1>2
  <2>4. Cardinality(U \ {k}) < Cardinality(T)
    BY <1>1, <2>2
  <2>5. PICK V : V = U \ {k}
    OBVIOUS
  <2>6. PICK g : g = f
    OBVIOUS
  <2>7. IsFiniteSet(V) /\ Cardinality(V) < Cardinality(T) /\ g \in [T -> V]
    BY <2>2, <2>3, <2>4, <2>5, <2>6
  <2>8. \E x, y \in T : x # y /\ g[x] = g[y]
    BY ONLY <1>1, <2>7, FS_PigeonHole
  <2> QED
    BY <1>4, <2>6, <2>8
<1>6. ASSUME T # {} PROVE \E i \in T : \A j \in T : i <= j
  <2>1. 1 \in 1..Cardinality(T)
    BY <1>1, <1>6, FS_EmptySet
  <2>2. PICK i \in T : rank(i) = 1
    BY <1>5, <2>1
  <2>3. IsFiniteSet(R(i)) /\ i \in R(i)
    BY <1>2
  <2>4. R(i) = {i}
    BY <2>2, <2>3, FS_Singleton
  <2>5. \A j \in T : i <= j
    BY <2>4
  <2> QED
    BY <2>5
<1> QED
  BY <1>1, <1>2, <1>4, <1>5, <1>6

\* retrieval_signature lists the ranked lineages, each once.
LEMMA SignatureOnce ==
  ASSUME NEW n \in Nat, NEW ranked \in [1..n -> Ref]
  PROVE  /\ \A i, j \in DOMAIN Signature(ranked) : Signature(ranked)[i] = Signature(ranked)[j] => i = j
         /\ UNION {live[ranked[i]] : i \in DOMAIN ranked}
              = UNION {Signature(ranked)[i] : i \in DOMAIN Signature(ranked)}
<1> DEFINE lineage(i) == live[ranked[i]]
           S == Signature(ranked)
           at(k) == CHOOSE i \in FirstOccurrences(ranked) :
                      Cardinality({j \in FirstOccurrences(ranked) : j <= i}) = k
<1>1. PICK T : T = FirstOccurrences(ranked)
  OBVIOUS
<1>2. /\ T \in SUBSET (1..n)
      /\ \A i \in 1..n : i \in T <=> \A j \in 1..(i - 1) : lineage(j) # lineage(i)
  BY <1>1 DEF FirstOccurrences
<1>3. /\ \A i \in T : Cardinality({j \in T : j <= i}) \in 1..Cardinality(T)
      /\ \A i, l \in T : Cardinality({j \in T : j <= i}) = Cardinality({j \in T : j <= l}) => i = l
      /\ \A k \in 1..Cardinality(T) : \E i \in T : Cardinality({j \in T : j <= i}) = k
  BY <1>2, Ranks
<1>4. DOMAIN S = 1..Cardinality(T) /\ \A k \in DOMAIN S : S[k] = lineage(at(k))
  BY <1>1 DEF Signature
<1>5. \A k \in DOMAIN S : at(k) \in T /\ Cardinality({j \in T : j <= at(k)}) = k
  <2> SUFFICES ASSUME NEW k \in DOMAIN S
               PROVE  at(k) \in T /\ Cardinality({j \in T : j <= at(k)}) = k
    OBVIOUS
  <2>1. \E i \in T : Cardinality({j \in T : j <= i}) = k
    BY <1>3, <1>4
  <2>2. at(k) = CHOOSE i \in T : Cardinality({j \in T : j <= i}) = k
    BY <1>1
  <2> HIDE DEF at
  <2> QED
    BY <2>1, <2>2
<1>6. \A i, j \in T : lineage(i) = lineage(j) => i = j
  <2> SUFFICES ASSUME NEW i \in T, NEW j \in T, lineage(i) = lineage(j), i < j PROVE FALSE
    BY <1>2
  <2>1. i \in 1..(j - 1)
    BY <1>2
  <2> HIDE DEF lineage
  <2> QED
    BY <1>2, <2>1
<1>7. ASSUME NEW i \in 1..n PROVE \E k \in DOMAIN S : S[k] = lineage(i)
  <2> DEFINE Same == {j \in 1..n : lineage(j) = lineage(i)}
  <2>1. PICK j \in Same : \A l \in Same : j <= l
    <3>1. Same \in SUBSET (1..n) /\ Same # {}
      OBVIOUS
    <3> HIDE DEF Same
    <3> QED
      BY <3>1, Ranks
  <2>2. \A l \in 1..(j - 1) : lineage(l) # lineage(j)
    <3> SUFFICES ASSUME NEW l \in 1..(j - 1), lineage(l) = lineage(j) PROVE FALSE
      OBVIOUS
    <3>1. l \in 1..n /\ l < j
      OBVIOUS
    <3>2. l \in Same
      BY <3>1
    <3> HIDE DEF Same
    <3> QED
      BY <2>1, <3>1, <3>2
  <2>3. j \in T
    BY <1>2, <2>2
  <2>4. PICK k \in DOMAIN S : k = Cardinality({l \in T : l <= j})
    BY <1>3, <1>4, <2>3
  <2>5. at(k) = j
    BY <1>3, <1>5, <2>3, <2>4
  <2> QED
    BY <1>4, <2>5
<1> HIDE DEF S, at
<1>8. \A i, j \in DOMAIN S : S[i] = S[j] => i = j
  <2> SUFFICES ASSUME NEW i \in DOMAIN S, NEW j \in DOMAIN S, S[i] = S[j] PROVE i = j
    OBVIOUS
  <2>1. at(i) = at(j)
    <3>1. lineage(at(i)) = lineage(at(j)) /\ at(i) \in T /\ at(j) \in T
      BY <1>4, <1>5
    <3> HIDE DEF lineage
    <3> QED
      BY <1>6, <3>1
  <2> QED
    BY <1>5, <2>1
<1>9. \A k \in DOMAIN S : \E i \in 1..n : S[k] = lineage(i)
  BY <1>2, <1>4, <1>5
<1>10. UNION {lineage(i) : i \in 1..n} = UNION {S[i] : i \in DOMAIN S}
  BY <1>7, <1>9
<1> QED
  BY <1>8, <1>10 DEF S

\* Nothing is observed before a retrieval resolves, and a new observation starts afresh.
Unobserved == pc \notin {"published", "released"} => observation = NoObservation

LEMMA CreditStep ==
  ASSUME IInv, Unobserved, CreditIsSignature, [Next]_vars
  PROVE  Unobserved' /\ CreditIsSignature'
<1>0. NoObservation.ids = {} /\ NoObservation.signature = << >> /\ DOMAIN << >> = {}
  BY DEF NoObservation
<1>1. CASE RetrieveReturns
  <2>1. PICK ranked \in RankedRefs :
          \/ UNCHANGED observation /\ pc' \in {"discard", "raised", "published"}
          \/ /\ \A i \in DOMAIN ranked : ranked[i] \in DOMAIN live
             /\ observation' = [ids |-> UNION {live[ranked[i]] : i \in DOMAIN ranked},
                                signature |-> Signature(ranked)]
             /\ pc' = "published"
    BY <1>1 DEF RetrieveReturns, ObservationFails, ObservationRaises
  <2>2. pc = "retrieve" /\ UNCHANGED <<live, deleted>> /\ observation = NoObservation
    BY <1>1 DEF RetrieveReturns, lineageVars, Unobserved
  <2>3. CASE UNCHANGED observation /\ pc' \in {"discard", "raised", "published"}
    BY <2>2, <2>3 DEF Unobserved, CreditIsSignature
  <2>4. CASE ~UNCHANGED observation
    <3>1. PICK n \in 0..MaxRank : ranked \in [1..n -> Ref]
      BY DEF RankedRefs
    <3>2. n \in Nat
      BY <3>1
    <3>3. /\ observation'.ids = UNION {live[ranked[i]] : i \in DOMAIN ranked}
          /\ observation'.signature = Signature(ranked)
          /\ \A i \in DOMAIN ranked : ranked[i] \in DOMAIN live
          /\ pc' = "published"
      BY <2>1, <2>4
    <3>4. observation'.ids \subseteq Ids(live)
      BY <3>3 DEF Ids
    <3>5. deleted = E0 \ Ids(live)
      BY <2>2 DEF IInv, Accounting, Held
    <3>6. /\ \A i, j \in DOMAIN Signature(ranked) : Signature(ranked)[i] = Signature(ranked)[j] => i = j
          /\ UNION {live[ranked[i]] : i \in DOMAIN ranked}
               = UNION {Signature(ranked)[i] : i \in DOMAIN Signature(ranked)}
      BY <3>1, <3>2, SignatureOnce
    <3> QED
      BY <2>2, <3>3, <3>4, <3>5, <3>6 DEF Unobserved, CreditIsSignature
  <2> QED
    BY <2>1, <2>3, <2>4
<1>2. CASE Borrow
  <2>1. observation' = NoObservation /\ pc' = "observe"
    BY <1>2 DEF Borrow
  <2> QED
    BY <1>0, <2>1 DEF Unobserved, CreditIsSignature
<1>3. CASE ~RetrieveReturns /\ ~Borrow
  <2>1. UNCHANGED observation /\ (pc' \in {"published", "released"} \/ pc \notin {"published", "released"} \/ UNCHANGED pc)
    BY <1>3 DEF Next, Materialize, Retrieval, Begin, RootFails, RootReturns, ReplayFails, ReplayRejected,
       ReplayAccepted, CertifyFails, CertifyReturns, Discard, Observe, RetrieveFails, CallerDiscards, vars
  <2>2. UNCHANGED deleted \/ observation = NoObservation
    BY <1>3, QuietStep DEF IInv, RootReturns, ReplayAccepted, CertifyReturns, lineageVars, Unobserved
  <2>3. CASE UNCHANGED deleted
    BY <2>1, <2>3 DEF Unobserved, CreditIsSignature
  <2>4. CASE observation = NoObservation
    BY <1>0, <2>1, <2>4 DEF Unobserved, CreditIsSignature
  <2> QED
    BY <2>2, <2>3, <2>4
<1> QED
  BY <1>1, <1>2, <1>3

\* A retrieval credits exactly the IDs of its signature, each lineage once and none that a
\* transition deleted, for a ranking of any length.
THEOREM CreditExact == Spec => []CreditIsSignature
<1>1. Init => Unobserved /\ CreditIsSignature
  BY DEF Init, Unobserved, CreditIsSignature, NoObservation
<1>. QED  BY <1>1, CreditStep, InvariantHolds, PTL DEF Spec

-----------------------------------------------------------------------------
(* The variant: what each step of a call leaves less of.                    *)

\* While artifacts count there is one left for every replay to come.
LEMMA ArtifactsLeft ==
  ASSUME IInv
  PROVE  /\ Len(call.seed.path) \in Nat /\ Len(certs) \in Nat
         /\ pc \in {"start", "root"} => Len(certs) = 0
         /\ pc = "replay" => Len(certs) < Len(call.seed.path)
BY SeedOfCall DEF IInv, TypeOK, Ownership, Progress

\* A step leads to a later await, or to the same one with an artifact less.
LEMMA StepShrinks ==
  ASSUME IInv, [Next]_vars, ~UNCHANGED vars, Remaining > 0
  PROVE  Remaining' \in 0..(Remaining - 1)
<1>1. /\ Len(call.seed.path) \in Nat /\ Len(certs) \in Nat
      /\ pc \in {"start", "root"} => Len(certs) = 0
      /\ pc = "replay" => Len(certs) < Len(call.seed.path)
  BY ArtifactsLeft
<1>2. call' = call
  BY DEF Next, Materialize, Retrieval, Begin, RootFails, RootReturns, ReplayFails, ReplayRejected,
     ReplayAccepted, CertifyFails, CertifyReturns, Discard, Observe, RetrieveFails, RetrieveReturns,
     Borrow, CallerDiscards
<1>3. CASE Begin
  <2>1. pc = "start" /\ pc' \in {"root", "returned"} /\ certs' = certs
    BY <1>3 DEF Begin, ReturnFailure, lineageVars
  <2>2. Remaining = 6 + (Len(call.seed.path) - Len(certs))
    BY <2>1 DEF Remaining
  <2>3. CASE pc' = "root"
    <3>1. Remaining' = 5 + (Len(call.seed.path) - Len(certs))
      BY <1>2, <2>1, <2>3 DEF Remaining
    <3> QED
      BY <1>1, <2>1, <2>2, <3>1
  <2>4. CASE pc' = "returned"
    <3>1. Remaining' = 0
      BY <2>4 DEF Remaining
    <3> QED
      BY <1>1, <2>1, <2>2, <3>1
  <2> QED
    BY <2>1, <2>3, <2>4
<1>4. CASE RootFails
  <2>1. pc = "root" /\ pc' = "returned"
    BY <1>4 DEF RootFails, ReturnFailure
  <2> QED
    BY <1>1, <2>1 DEF Remaining
<1>5. CASE RootReturns
  <2>1. pc = "root" /\ pc' \in {"discard", Onward(0)} /\ certs' = certs
    BY <1>5 DEF RootReturns, DiscardAndFail, lineageVars
  <2>2. pc' \in {"discard", "certify", "replay"}
    BY <2>1 DEF Onward
  <2> QED
    BY <1>1, <1>2, <2>1, <2>2 DEF Remaining
<1>6. CASE ReplayFails \/ ReplayRejected
  <2>1. pc = "replay" /\ pc' = "discard"
    BY <1>6 DEF ReplayFails, ReplayRejected, DiscardAndFail
  <2> QED
    BY <1>1, <2>1 DEF Remaining
<1>7. CASE ReplayAccepted
  <2>1. pc = "replay" /\ pc' \in {"certify", "replay"} /\ \E c : certs' = Append(certs, c)
    BY <1>7 DEF ReplayAccepted, Onward
  <2>2. Len(certs') = Len(certs) + 1
    BY <2>1 DEF IInv, TypeOK
  <2>3. pc' = "replay" => Len(certs) + 1 # Len(call.seed.path)
    BY <1>7 DEF ReplayAccepted, Onward
  <2> QED
    BY <1>1, <1>2, <2>1, <2>2, <2>3 DEF Remaining
<1>8. CASE CertifyFails \/ CertifyReturns
  <2>1. pc = "certify" /\ pc' \in {"discard", "observe", "published"}
    BY <1>8 DEF CertifyFails, CertifyReturns, DiscardAndFail
  <2> QED
    BY <2>1 DEF Remaining
<1>9. CASE Discard
  <2>1. pc = "discard" /\ pc' = "returned"
    BY <1>9 DEF Discard
  <2> QED
    BY <2>1 DEF Remaining
<1>10. CASE Observe
  <2>1. pc = "observe" /\ pc' \in {"discard", "raised", "published", "retrieve"}
    BY <1>10 DEF Observe, ObservationFails, ObservationRaises
  <2> QED
    BY <2>1 DEF Remaining
<1>11. CASE RetrieveFails \/ RetrieveReturns
  <2>1. pc = "retrieve" /\ pc' \in {"discard", "raised", "published"}
    BY <1>11 DEF RetrieveFails, RetrieveReturns, ObservationFails, ObservationRaises
  <2> QED
    BY <2>1 DEF Remaining
<1>12. ~Borrow /\ ~CallerDiscards
  BY DEF Borrow, CallerDiscards, Remaining
<1> QED
  BY <1>3, <1>4, <1>5, <1>6, <1>7, <1>8, <1>9, <1>10, <1>11, <1>12 DEF Next, Materialize, Retrieval

\* Every step of a call leaves less of it to do, for a path of any length: with a backend
\* that answers, a call ends.
THEOREM CallsShrink == Spec => CallShrinks
<1>1. IInv /\ [Next]_vars => [Remaining > 0 => Remaining' \in 0..(Remaining - 1)]_vars
  BY StepShrinks
<1>. QED  BY <1>1, InvariantHolds, PTL DEF Spec, CallShrinks
=============================================================================
