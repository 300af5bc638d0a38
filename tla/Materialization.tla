----------------------------- MODULE Materialization -----------------------------
(***************************************************************************)
(* materialization.py: one logical seed is rebuilt from its root on a live *)
(* backend, transition by transition, certified, and then observed by      *)
(* public retrieval.  Every await of a protocol call is a state of its own *)
(* (pc names the call), and the protocol may answer with anything its      *)
(* carriers' constructors let through: a value, a failure, an exception.   *)
(*                                                                         *)
(* The protocol keeps its ownership contract (docstrings of                *)
(* MaterializationProtocol): a failing call leaves no new handle, a        *)
(* successful replay retires the handle it supersedes.                     *)
(***************************************************************************)
EXTENDS TransitionContract

CONSTANTS Seeds,        \* logical seeds: expected root, artifact path, expected descendant
          Calls,        \* argument tuples the caller may use
          Certificates, \* transition certificates a replay may return
          Descendants,  \* state certificates the backend may observe
          RootBindings, \* re-bindings a root materialization may return
          MaxRank,      \* bound: length of one ranked retrieval
          NoState       \* no owned state (None)

FailureKinds ==
  {"root_initialization_inequivalent", "e0_rebinding_ambiguous",
   "transition_replay_diverged", "descendant_state_inequivalent",
   "backend_capability_failure", "mutation_inapplicable",
   "transient_backend_failure", "post_retrieval_lineage_violation",
   "transition_semantic_drift"}

\* What the constructors let through: an object they refuse never exists.
Replies == {c \in Certificates : WellFormedCertificate(c)}
Observable == {d \in Descendants : WellFormedDescendant(d)}
Roots == {b \in RootBindings : WellFormedRebinding(b)}

Artifacts == UNION {{s.path[i] : i \in DOMAIN s.path} : s \in Seeds}

ASSUME StateAssumption == NoState \notin StateIds
ASSUME SeedAssumption ==
  \A s \in Seeds : /\ s.path \in Seq(Artifacts)
                   /\ Len(s.path) = Len(s.final.accepted)
                   /\ s.root \in Observable /\ s.final \in Observable
                   /\ \A i \in DOMAIN s.path :
                        s.path[i].acceptable \subseteq Outcomes \ {"unchanged"}

VARIABLES
  pc,          \* the await the orchestration is suspended in, or where it ended
  call,        \* the caller's arguments
  alive,       \* backend states holding a live handle
  owned,       \* local `state`: the live state the orchestration owns
  live,        \* current_rebinding.live_bindings
  deleted,     \* current_rebinding.deleted_ids
  certs,       \* certificates accepted so far
  result,      \* "none", a failure kind, "materialized", "observed" or "raised"
  observation, \* resolved retrieval: its coverage IDs and its signature
  cleanup      \* how the orchestration's own discard ended

vars == <<pc, call, alive, owned, live, deleted, certs, result, observation, cleanup>>

lineageVars == <<live, deleted, certs>>

NoObservation == [ids |-> {}, signature |-> << >>]

\* Arguments: the entry point (materialize_and_observe composes, or the caller
\* borrows the materialization for observations of its own), the precheck that
\* fails if any (the last two are a borrower's own mistakes), whether top_k is
\* positive, and what initial_ids the campaign's CoverageState has: this
\* checkpoint's among them, only others', none, or another campaign's.
Arguments ==
  [seed     : Seeds,
   compose  : BOOLEAN,
   defect   : {"none", "inventory", "protocol", "root_path", "request",
               "other_seed", "other_protocol"},
   topKOk   : BOOLEAN,
   coverage : {"contains", "others", "empty", "foreign"}]

LegalCalls == Calls \cap Arguments

Init ==
  /\ pc = "start"
  /\ call \in LegalCalls
  /\ alive = {} /\ owned = NoState
  /\ live = << >> /\ deleted = {} /\ certs = << >>
  /\ result = "none" /\ observation = NoObservation /\ cleanup = "none"

-----------------------------------------------------------------------------
(* How a call ends.                                                         *)

\* A protocol failure keeps its kind only if it names the caller's scope; an
\* exception and an object of the wrong class are capability failures.
Normalized(kind, sameScope) == IF sameScope THEN kind ELSE "backend_capability_failure"

ReturnFailure(kind) == pc' = "returned" /\ result' = kind

\* Mutants: the state from before the failing call is discarded; nothing is.
MutDiscardPrevious(kind, state) == pc' = "discard" /\ result' = kind /\ owned' = owned
MutDiscardNothing(kind, state) == pc' = "returned" /\ result' = kind /\ owned' = state

DiscardAndFail(kind, state) == pc' = "discard" /\ result' = kind /\ owned' = state

\* _discard_and_fail, and the discard of materialize_and_observe: an exception of
\* the backend is swallowed, and then the handle may still be live.
Discard ==
  /\ pc = "discard"
  /\ pc' = "returned"
  /\ \/ cleanup' = "done" /\ alive' = alive \ {owned}
     \/ cleanup' = "raised" /\ alive' \in {alive, alive \ {owned}}
  /\ UNCHANGED <<call, owned, lineageVars, result, observation>>

-----------------------------------------------------------------------------
(* materialize_seed.                                                        *)

Begin ==
  /\ pc = "start"
  /\ \/ call.defect \in {"none", "other_seed", "other_protocol"} /\ pc' = "root" /\ UNCHANGED result
     \/ call.defect = "root_path" /\ ReturnFailure("root_initialization_inequivalent")
     \/ call.defect \in {"inventory", "protocol", "request"}
          /\ ReturnFailure("backend_capability_failure")
  /\ UNCHANGED <<call, alive, owned, lineageVars, observation, cleanup>>

\* materialize_root raised, failed, or returned an object of another class.
RootFails ==
  /\ pc = "root"
  /\ \E kind \in FailureKinds, sameScope \in BOOLEAN : ReturnFailure(Normalized(kind, sameScope))
  /\ UNCHANGED <<call, alive, owned, lineageVars, observation, cleanup>>

RootBindingValid(b, s, inScope) ==
  /\ inScope
  /\ b.kind = "root" /\ b.scope = "seed"
  /\ BoundTo(b.live, s)

RootStateValid(b, observed) ==
  /\ MatchesRebinding(observed, b.live, b.deleted)
  /\ observed = call.seed.root

Onward(n) == IF n = Len(call.seed.path) THEN "certify" ELSE "replay"

\* The root came back: validated in the order re-binding, observed root state.
RootReturns ==
  /\ pc = "root"
  /\ \E s \in StateIds \ alive, b \in Roots, inScope \in BOOLEAN, observed \in Observable :
       /\ alive' = alive \cup {s}
       /\ \/ /\ ~RootBindingValid(b, s, inScope)
             /\ DiscardAndFail("e0_rebinding_ambiguous", s)
             /\ UNCHANGED lineageVars
          \/ /\ RootBindingValid(b, s, inScope)
             /\ ~RootStateValid(b, observed)
             /\ DiscardAndFail("root_initialization_inequivalent", s)
             /\ UNCHANGED lineageVars
          \/ /\ RootBindingValid(b, s, inScope)
             /\ RootStateValid(b, observed)
             /\ owned' = s /\ live' = b.live /\ deleted' = b.deleted
             /\ pc' = Onward(0)
             /\ UNCHANGED <<certs, result>>
  /\ UNCHANGED <<call, observation, cleanup>>

\* replay_transition raised, failed, or returned an object of another class: the
\* supplied state is still owned and is discarded.
ReplayFails ==
  /\ pc = "replay"
  /\ \E kind \in FailureKinds, sameScope \in BOOLEAN :
       DiscardAndFail(Normalized(kind, sameScope), owned)
  /\ UNCHANGED <<call, alive, lineageVars, observation, cleanup>>

\* The state the replay handed back: the same handle, or a distinct successor for
\* which the protocol has retired the superseded one.
Successors == {owned} \cup (StateIds \ alive)
HandOver(s) == alive' = (alive \ {owned}) \cup {s}

ReplayVerdict(c, s) ==
  LET verdict == TransitionVerdict(c, call.seed.path[Len(certs) + 1])
  IN IF verdict # "accepted" THEN verdict
     ELSE IF Applies(live, c, owned, s) /\ BoundTo(Applied(live, c), s)
          THEN "accepted" ELSE "transition_replay_diverged"

\* The kinds of refusal a reply in state s can meet; one whose own scope is not the
\* caller's has diverged before its certificate is looked at.
Refusals(s) ==
  {"transition_replay_diverged"}
    \cup ({ReplayVerdict(c, s) : c \in Replies} \ {"accepted"})

ReplayRejected ==
  /\ pc = "replay"
  /\ \E s \in Successors : \E kind \in Refusals(s) : HandOver(s) /\ DiscardAndFail(kind, s)
  /\ UNCHANGED <<call, lineageVars, observation, cleanup>>

ReplayAccepted ==
  /\ pc = "replay"
  /\ \E s \in Successors :
       \E c \in {x \in Replies : ReplayVerdict(x, s) = "accepted"} :
         /\ HandOver(s)
         /\ owned' = s
         /\ live' = Applied(live, c)
         /\ deleted' = DeletedIds(Applied(live, c))
         /\ certs' = Append(certs, c)
         /\ pc' = Onward(Len(certs) + 1)
  /\ UNCHANGED <<call, result, observation, cleanup>>

CertifyFails ==
  /\ pc = "certify"
  /\ \E kind \in FailureKinds, sameScope \in BOOLEAN :
       DiscardAndFail(Normalized(kind, sameScope), owned)
  /\ UNCHANGED <<call, alive, lineageVars, observation, cleanup>>

\* Mutant: the observed descendant is not compared with the seed's.
MutDescendantAnySeed(d) ==
  MatchesRebinding(d, live, deleted) /\ [i \in DOMAIN certs |-> certs[i].id] = d.accepted

DescendantValid(d) ==
  /\ MatchesRebinding(d, live, deleted)
  /\ [i \in DOMAIN certs |-> certs[i].id] = d.accepted
  /\ d = call.seed.final
  /\ certs # << >> => MemoryChild(call.seed.path[Len(call.seed.path)], certs[Len(certs)], d)

CertifyReturns ==
  /\ pc = "certify"
  /\ \E d \in Observable :
       \/ /\ ~DescendantValid(d)
          /\ DiscardAndFail("descendant_state_inequivalent", owned)
       \/ /\ DescendantValid(d)
          /\ pc' = IF call.compose THEN "observe" ELSE "published"
          /\ result' = "materialized"
          /\ UNCHANGED owned
  /\ UNCHANGED <<call, alive, lineageVars, observation, cleanup>>

-----------------------------------------------------------------------------
(* observe_materialization, borrowed by the caller or composed.             *)

\* Mutants: the borrowed state is discarded; the composition retries a transient failure.
MutDiscardBorrowed(kind) == pc' = "discard" /\ result' = kind
MutRetryTransient(kind) ==
  IF call.compose /\ kind = "transient_backend_failure"
  THEN pc' = "observe" /\ UNCHANGED result
  ELSE pc' = (IF call.compose THEN "discard" ELSE "published") /\ result' = kind

\* A failed observation: the composition discards what it materialized, a
\* borrower keeps it.
ObservationFails(kind) ==
  IF call.compose
  THEN pc' = "discard" /\ result' = kind
  ELSE pc' = "published" /\ result' = kind

\* Mutant: discard whatever raises, the borrower's materialization included.
MutDiscardOnRaise == pc' = "discard" /\ result' = "raised"

\* Neither function catches it; a borrower still holds its materialization.
ObservationRaises ==
  IF call.compose
  THEN pc' = "raised" /\ result' = "raised"
  ELSE pc' = "published" /\ result' = "raised"

\* The borrower asks for an observation of a materialization it holds.
Borrow ==
  /\ pc = "published" /\ ~call.compose
  /\ pc' = "observe" /\ result' = "materialized" /\ observation' = NoObservation
  /\ UNCHANGED <<call, alive, owned, lineageVars, cleanup>>

\* Prechecks in their order, then the await of protocol.retrieve.
OtherSeed == ~call.compose /\ call.defect = "other_seed"
Eligible == /\ call.compose \/ call.defect # "other_protocol"
            /\ call.coverage = "contains" \/ E0 = {}

Observe ==
  /\ pc = "observe"
  /\ \/ OtherSeed /\ ObservationFails("backend_capability_failure")
     \/ ~OtherSeed /\ ~call.topKOk /\ ObservationRaises
     \/ ~OtherSeed /\ call.topKOk /\ ~Eligible
          /\ ObservationFails("backend_capability_failure")
     \/ ~OtherSeed /\ call.topKOk /\ Eligible /\ pc' = "retrieve" /\ UNCHANGED result
  /\ UNCHANGED <<call, alive, owned, lineageVars, observation, cleanup>>

RetrieveFails ==
  /\ pc = "retrieve"
  /\ \E kind \in FailureKinds, sameScope \in BOOLEAN : ObservationFails(Normalized(kind, sameScope))
  /\ UNCHANGED <<call, alive, owned, lineageVars, observation, cleanup>>

RankedRefs == UNION {[1..n -> Ref] : n \in 0..MaxRank}

\* Mutant: only adjacent repetitions are dropped.
MutAdjacentOnly(ranked) ==
  {i \in DOMAIN ranked : i = 1 \/ live[ranked[i - 1]] # live[ranked[i]]}

\* retrieval_signature: the ranked tokens, each at its first occurrence.
FirstOccurrences(ranked) ==
  {i \in DOMAIN ranked : \A j \in 1..(i - 1) : live[ranked[j]] # live[ranked[i]]}
Signature(ranked) ==
  [k \in 1..Cardinality(FirstOccurrences(ranked)) |->
     live[ranked[CHOOSE i \in FirstOccurrences(ranked) :
                   Cardinality({j \in FirstOccurrences(ranked) : j <= i}) = k]]]

\* The ranking came back (of one state, by its constructor): wrong state or an
\* entry without certified lineage fails; an empty campaign E_0 raises
\* CoverageIneligibleError, which nothing here catches; otherwise it resolves.
RetrieveReturns ==
  /\ pc = "retrieve"
  /\ \E ranked \in RankedRefs, s \in StateIds :
       /\ \A i \in DOMAIN ranked : ranked[i].state = s
       /\ LET resolved == /\ s = owned /\ call.coverage # "foreign"
                          /\ \A i \in DOMAIN ranked : ranked[i] \in DOMAIN live
          IN \/ /\ ~resolved
                /\ ObservationFails("post_retrieval_lineage_violation")
                /\ UNCHANGED observation
             \/ /\ resolved /\ call.coverage = "empty"
                /\ ObservationRaises
                /\ UNCHANGED observation
             \/ /\ resolved /\ call.coverage # "empty"
                /\ observation' = [ids |-> UNION {live[ranked[i]] : i \in DOMAIN ranked},
                                   signature |-> Signature(ranked)]
                /\ pc' = "published" /\ result' = "observed"
  /\ UNCHANGED <<call, alive, owned, lineageVars, cleanup>>

\* Ownership went to the caller, who retires the state.
CallerDiscards ==
  /\ pc = "published"
  /\ pc' = "released"
  /\ alive' = alive \ {owned}
  /\ UNCHANGED <<call, owned, lineageVars, result, observation, cleanup>>

-----------------------------------------------------------------------------
Materialize == Begin \/ RootFails \/ RootReturns \/ ReplayFails \/ ReplayRejected
                 \/ ReplayAccepted \/ CertifyFails \/ CertifyReturns \/ Discard
Retrieval == Observe \/ RetrieveFails \/ RetrieveReturns

Next == Materialize \/ Retrieval \/ Borrow \/ CallerDiscards

Spec == Init /\ [][Next]_vars

\* An awaited protocol call completes: the coroutine is resumed until it ends.
\* Nothing makes the caller borrow or discard.
FairSpec == Spec /\ WF_vars(Materialize) /\ WF_vars(Retrieval)

-----------------------------------------------------------------------------
(* Properties.                                                              *)

TypeOK ==
  /\ pc \in {"start", "root", "replay", "certify", "observe", "retrieve", "discard",
             "returned", "raised", "published", "released"}
  /\ call \in LegalCalls
  /\ alive \subseteq StateIds /\ owned \in StateIds \cup {NoState}
  /\ IsBinding(live) /\ deleted \subseteq E0
  /\ certs \in Seq(Replies)
  /\ result \in FailureKinds \cup {"none", "materialized", "observed", "raised"}
  /\ observation.ids \subseteq E0
  /\ cleanup \in {"none", "done", "raised"}

\* At every await the only handle that can be live is the one the local variable
\* `state` names: after any replay that swapped handles, whichever check then fails,
\* what _discard_and_fail discards is the live one and nothing else was left behind.
OnlyOwnedAlive == alive \subseteq {owned}

\* materialize_seed: "Every live state created by this orchestration is discarded on
\* failure": a failure returned to the caller leaves no live handle, unless the
\* backend's own discard raised.
FailureRetires == pc = "returned" /\ cleanup # "raised" => alive = {}

\* Both, at each of the thirteen places a call can be given up: the handle that is
\* discarded is the live one.
HandlesRetired == OnlyOwnedAlive /\ FailureRetires

\* A materialization reaches the caller only alive, with every binding in its own
\* state, equal to the seed's descendant state, and replayed through the seed's
\* artifacts in order, each with an acceptable outcome and its postcondition.
PublishedIsSeed ==
  pc \in {"observe", "retrieve", "published"} =>
    /\ owned \in alive
    /\ BoundTo(live, owned)
    /\ TokenBag(live) = call.seed.final.bag
    /\ deleted = call.seed.final.deleted
    /\ Len(certs) = Len(call.seed.path)
    /\ \A i \in DOMAIN certs :
         /\ certs[i].id = call.seed.final.accepted[i]
         /\ certs[i].artifact = call.seed.path[i].id
         /\ certs[i].outcome \in call.seed.path[i].acceptable
         /\ certs[i].post

\* Once the root is bound every initialized ID is either live or deleted.
EveryIdAccounted ==
  pc \in {"replay", "certify", "observe", "retrieve", "published"} =>
    /\ Ids(live) \cup deleted = E0
    /\ Ids(live) \cap deleted = {}

\* A deleted initialized ID never comes back: no later transition can rebind a fresh
\* physical object to it.
NoResurrection == [][deleted \subseteq deleted']_vars

\* What a retrieval credits: no ID the replayed path deleted, and exactly the IDs of
\* its signature, which lists each lineage token once however often objects of that
\* lineage (copies of a split among them) are ranked.
CreditIsSignature ==
  /\ observation.ids \cap deleted = {}
  /\ observation.ids = UNION {observation.signature[i] : i \in DOMAIN observation.signature}
  /\ \A i, j \in DOMAIN observation.signature :
       observation.signature[i] = observation.signature[j] => i = j

\* Lineage shape: a token of several IDs needs an accepted merge, and two objects
\* that share an ID need an accepted split.
HasGroup(kind) == \E i \in DOMAIN certs : \E g \in certs[i].groups : g.kind = kind
LineageShape ==
  /\ (\E r \in DOMAIN live : Cardinality(live[r]) > 1) => HasGroup("merge")
  /\ (\E r, q \in DOMAIN live : r # q /\ live[r] \cap live[q] # {}) => HasGroup("split")

\* observe_materialization: "This function borrows the successful materialization. It
\* never discards it": whatever observation fails or raises, the borrower still holds a
\* live materialization until it discards it itself.
BorrowerKeeps ==
  [][~call.compose /\ pc \in {"published", "observe", "retrieve"} =>
       \/ pc' = "released"
       \/ pc' \in {"published", "observe", "retrieve"} /\ owned' = owned /\ owned \in alive']_vars

\* What is left of a call: its artifacts and the awaits after them.
Remaining ==
  [start |-> 6, root |-> 5, replay |-> 4, certify |-> 4, observe |-> 3, retrieve |-> 2,
   discard |-> 1, returned |-> 0, raised |-> 0, published |-> 0, released |-> 0][pc]
  + IF pc \in {"start", "root", "replay"} THEN Len(call.seed.path) - Len(certs) ELSE 0

\* No call spins: whatever the backend answers, each step of a call leaves less of it to
\* do, so that an artifact is replayed once and no failed call is asked again.
CallShrinks == [][Remaining > 0 => Remaining' \in 0..(Remaining - 1)]_vars

\* A call ends: the replay loop visits each artifact once, and an observation asks the
\* backend once.
Ends == pc \in {"start", "observe"} ~> pc \in {"returned", "raised", "published"}

\* The same promise for the composition of both functions, however it ends: without a
\* materialization in the caller's hands, none is live.
NoOrphan == pc \in {"returned", "raised"} /\ cleanup # "raised" => alive = {}
=============================================================================
