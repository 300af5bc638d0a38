------------------------------- MODULE Rebinding -------------------------------
(***************************************************************************)
(* The two sides of the materialization protocol together.  A back end      *)
(* keeps a map from physical IDs to coverage IDs and answers with           *)
(* certificates; materialize_seed never sees that map: it keeps a           *)
(* re-binding of its own, which it derives from the certificates alone and  *)
(* in the end compares with the descendant's.  Each caller of Backends has  *)
(* such a re-binding here, and gives the state up at the first certificate  *)
(* it refuses.  A transition's successor state is the state it was asked    *)
(* of, and a realized artifact is its own identifier.                       *)
(***************************************************************************)
EXTENDS Backends

Contract == INSTANCE TransitionContract WITH StateIds <- States, EntryIds <- Entries

VARIABLES binding, \* current_rebinding of each caller: Contract!Ref -> Contract!Token
          refused  \* callers that refused a certificate

callerVars == <<binding, refused>>
allVars == <<vars, callerVars>>

Entry(s, e) == [state |-> s, entry |-> e]
RefsOf(s, ids) == {Entry(s, e) : e \in ids}

\* The entries of a store of state s, each under the token of its coverage ID in `line`.
BindingOf(s, store, line) == [r \in RefsOf(s, DOMAIN store) |-> {line[r.entry]}]

-----------------------------------------------------------------------------
(* What a back end answers.                                                 *)

\* The root re-binding binds each fresh entry to the frozen entry with its key.
RootReply(t) ==
  LET s == frame[t].handle IN BindingOf(s, rows[s], RootLineage(rows[s], frame[t].inv))

\* The lineages of a descendant certificate: those of the public inventory.
Descendant(s) ==
  LET live == BindingOf(s, rows[s], lineage[s]) IN
  [bag |-> Contract!TokenBag(live), deleted |-> Contract!DeletedIds(live)]

\* The outcome a handler reports once its checks of the diff have passed.
Outcome(t) ==
  LET f == frame[t] IN
  IF f.art.op = "delete" THEN "deleted"
  ELSE IF profile = "graphiti" THEN GraphitiOutcome(f.pre, rows[held[t]], f.target[1], f.art)
  ELSE "same_id"

\* Mutant: a target that stayed beside its successor is not named again.
MutSuccessors(t) ==
  LET added == DOMAIN rows[held[t]] \ DOMAIN frame[t].pre IN
  IF Outcome(t) = "deleted" THEN {}
  ELSE IF added # {} THEN added ELSE {frame[t].target[1]}

\* The physical successors it names: the target where it still lives, and the new edge.
Successors(t) ==
  LET added == DOMAIN rows[held[t]] \ DOMAIN frame[t].pre IN
  CASE Outcome(t) = "deleted"  -> {}
    [] Outcome(t) = "replaced" -> added
    [] Outcome(t) = "split"    -> {frame[t].target[1]} \cup added
    [] OTHER                   -> {frame[t].target[1]}

\* The one affected group: the target, and its successors under its lineage.
Affected(t) ==
  LET token == {frame[t].art.target} IN
  [kind |-> Contract!OutcomeKind[Outcome(t)],
   pred |-> [r \in RefsOf(held[t], {frame[t].target[1]}) |-> token],
   succ |-> [r \in RefsOf(held[t], Successors(t)) |-> token],
   upred |-> {}, usucc |-> {}]

\* The PhysicalTransitionCertificate at the end of replay_transition.
Certificate(t) ==
  [status |-> "certified", scope |-> "seed", post |-> TRUE, artifact |-> frame[t].art,
   outcome |-> Outcome(t), groups |-> {Affected(t)}, target |-> Affected(t)]

-----------------------------------------------------------------------------
(* What the caller does with the answers.                                   *)

\* The artifact as _validate_transition_for_artifact reads it.
Demand(art) == [id |-> art, target |-> {art.target}, acceptable |-> art.acceptable]

Admits(t) ==
  /\ Contract!TransitionVerdict(Certificate(t), Demand(frame[t].art)) = "accepted"
  /\ Contract!Applies(binding[t], Certificate(t), held[t], held[t])
  /\ Contract!BoundTo(Contract!Applied(binding[t], Certificate(t)), held[t])

Rebound(t, f) == binding' = [binding EXCEPT ![t] = f] /\ UNCHANGED refused

\* materialize_root succeeded: its re-binding is the current one.
TakeRoot(t) == pc[t] = "bind" /\ pc'[t] = "own" /\ Rebound(t, RootReply(t))

\* replay_transition succeeded: the certificate is applied, or refused for good.
TakeTransition(t) ==
  /\ pc[t] = "verify" /\ pc'[t] = "own"
  /\ \/ Admits(t) /\ Rebound(t, Contract!Applied(binding[t], Certificate(t)))
     \/ ~Admits(t) /\ refused' = refused \cup {t} /\ UNCHANGED binding

\* Any other step, failed calls among them, leaves the re-binding alone.
TakeNothing(t) == pc'[t] # "own" /\ UNCHANGED callerVars

\* The caller of a handler has refused nothing so far.
Call(t) ==
  /\ t \notin refused
  /\ Handler(t)
  /\ TakeRoot(t) \/ TakeTransition(t) \/ TakeNothing(t)

\* After a failure, a refusal or success: the state is given up, and the call ends.
GiveUp(t) ==
  /\ Discard(t)
  /\ binding' = [binding EXCEPT ![t] = Unbound]
  /\ refused' = refused \ {t}

ProtocolInit == Init /\ binding = [t \in Tasks |-> Unbound] /\ refused = {}

ProtocolNext == \E t \in Tasks : (Call(t) \/ GiveUp(t)) /\ UNCHANGED profile

ProtocolSpec == ProtocolInit /\ [][ProtocolNext]_allVars

-----------------------------------------------------------------------------
(* Properties.                                                              *)

\* Two bookkeepings, one truth: the re-binding a caller derived from certificates is, on
\* every state it still uses, the one the back end's own lineage map gives the live
\* entries.  So the descendant certificate agrees with it in its lineages and in its
\* deleted IDs (_validate_descendant_against_rebinding), and every entry a retrieval can
\* return resolves.
RebindingAgrees ==
  \A t \in Tasks \ refused :
    LET s == held[t] IN
    pc[t] \in {"own", "certified", "observed"} =>
      /\ binding[t] = BindingOf(s, rows[s], lineage[s])
      /\ Contract!MatchesRebinding(Descendant(s), binding[t], Contract!DeletedIds(binding[t]))

\* What a back end certifies is never malformed and never stale: a root re-binds every
\* coverage ID, one to one; a transition's certificate is one its constructor admits, it
\* applies to the caller's re-binding whatever was replayed before and whatever else runs,
\* and the one reason to refuse it is an outcome the artifact does not accept.
RootFits(t) ==
  pc[t] = "bind" /\ pc'[t] = "own" =>
    Contract!WellFormedRebinding(
      [live |-> RootReply(t), deleted |-> Contract!DeletedIds(RootReply(t)), kind |-> "root"])

TransitionFits(t) ==
  pc[t] = "verify" /\ pc'[t] = "own" =>
    /\ Contract!WellFormedCertificate(Certificate(t))
    /\ Contract!Applies(binding[t], Certificate(t), held[t], held[t])
    /\ ~Admits(t) => Outcome(t) \notin frame[t].art.acceptable

CertificatesFit == [][\A t \in Tasks : RootFits(t) /\ TransitionFits(t)]_allVars
=============================================================================
