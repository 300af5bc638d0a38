---------------------------- MODULE GraphitiBackend ----------------------------
(***************************************************************************)
(* graphiti.py, graphiti_capability.py and graphiti_materializer.py: every  *)
(* call to the graph is awaited, so other tasks run between its steps; one  *)
(* state per process; an update appends an episode, whose new edge replaces *)
(* the target or stands beside it; a deletion consumes a certificate.       *)
(***************************************************************************)
EXTENDS BackendStore

\* _validate_root.
GraphitiRoot(t) == RootRequest(t)

GraphitiBusy == alive # {} \/ owner # NoState

\* create_isolated_state: refused while the process is owned; making the client may
\* raise before the state is registered.
GraphitiCreate(t) ==
  /\ At(t, "create")
  /\ \/ NoRoot(t) /\ UNCHANGED adapterVars
     \/ /\ ~GraphitiBusy
        /\ \E s \in States \ alive :
             /\ alive' = alive \cup {s}
             /\ owner' = s
             /\ frame' = [frame EXCEPT ![t].handle = s]
        /\ Goto(t, "ingest")
        /\ UNCHANGED <<held, steps, tokens>>
  /\ UNCHANGED <<storeVars, protocolVars>>

\* ingest, called by replay_state: an episode that raises loses the handle and keeps
\* the process owned.
GraphitiIngest(t) ==
  /\ At(t, "ingest")
  /\ \/ NoRoot(t) /\ UNCHANGED rows
     \/ \E f \in FreshStores :
          /\ rows' = [rows EXCEPT ![frame[t].handle] = f]
          /\ Goto(t, "bind")
          /\ UNCHANGED <<held, steps, frame>>
  /\ UNCHANGED <<entity, collection, protocolVars, adapterVars>>

\* capability.inventory: every edge of the group with its endpoints and episodes, read
\* twice: the public edges, when the two snapshots agree.
GraphitiInventory(s) == rows[s]

\* _root_rebinding and materialize_root after replay_state.
GraphitiBind(t) ==
  LET s == frame[t].handle
      inv == frame[t].inv
  IN
  /\ At(t, "bind")
  /\ \/ Abandon(t) /\ UNCHANGED protocolVars
     \/ /\ SameKeys(GraphitiInventory(s), inv) /\ ~Repeats(inv)
        /\ Register(t, s, inv, RootLineage(GraphitiInventory(s), inv))
  /\ UNCHANGED <<storeVars, adapterVars>>

\* teardown: clearing the group may raise; the registries forget it anyway.
GraphitiRetire(t) == TearDown(t) /\ UNCHANGED collection

\* replay_transition up to its first call that changes something: the certification of
\* a deletion, or the update.
GraphitiReplay(t) ==
  LET s == held[t] IN
  /\ At(t, "own") /\ steps[t] < MaxReplays
  /\ \E art \in Artifacts :
       \/ Fail(t)
       \/ /\ context[s] # Unbound
          /\ EveryEntryBound(s)
          /\ \E e \in DOMAIN rows[s] : Aim(t, s, art, e, GraphitiInventory(s), IF art.op = "delete" THEN "evidence" ELSE "apply")
  /\ UNCHANGED <<storeVars, protocolVars, adapterVars>>

\* _deletion_episode and certify_episode_deletion: the edge belongs to one episode, the
\* episode maps to the intended fact alone (structure that is not modelled), or the
\* call fails; the certificate remembers the whole observable state.
GraphitiEvidence(t) ==
  LET s == held[t]
      e == frame[t].target[1]
  IN
  /\ At(t, "evidence")
  /\ \/ /\ Fail(t)
        /\ UNCHANGED tokens
     \/ /\ e \in DOMAIN rows[s]
        /\ tokens' = tokens \cup {[state |-> s, target |-> e, before |-> rows[s]]}
        /\ Goto(t, "apply")
        /\ UNCHANGED <<held, steps, frame>>
  /\ UNCHANGED <<storeVars, protocolVars, alive, owner>>

\* Mutant: the certificate is looked up, not taken out.
MutConsumed(token) == UNCHANGED tokens

\* The certificate is popped before anything is compared.
Consumed(token) == tokens' = tokens \ {token}

\* adapter.delete: the certificate is consumed first; a state other than the certified
\* one is refused untouched, and remove_episode may raise before it did anything; success
\* needs the target gone and every other entry kept.
GraphitiDelete(t) ==
  LET s == held[t]
      e == frame[t].target[1]
      token == [state |-> s, target |-> e, before |-> frame[t].pre]
      kept(f) == \A x \in DOMAIN token.before \ {e} : x \in DOMAIN f /\ f[x] = token.before[x]
  IN
  /\ At(t, "apply") /\ frame[t].art.op = "delete"
  /\ Consumed(token)
  /\ \/ Fail(t) /\ UNCHANGED rows
     \/ /\ token \in tokens /\ rows[s] = token.before
        /\ \E f \in Near(Without(rows[s], e)) :
             /\ rows' = [rows EXCEPT ![s] = f]
             /\ \/ Fail(t)
                \/ ~(e \notin DOMAIN f /\ kept(f)) /\ Fail(t)
                \/ /\ e \notin DOMAIN f /\ kept(f)
                   /\ Goto(t, "verify")
                   /\ UNCHANGED <<held, steps, frame>>
  /\ UNCHANGED <<entity, collection, protocolVars, alive, owner>>

\* add_episode: the new edge replaces the target, or is added beside it, the target
\* being invalidated or not (external).
GraphitiOutcomes(f, e, art) ==
  LET new == Row(art.text, art.src) IN
  UNION {Near(With(Without(f, e), x, new)) \cup Near(With(f, x, new)) : x \in Entries \ DOMAIN f}

\* adapter.update and unrelated_existing_region_change: the receipt never reports
\* failure, but the call may raise.
GraphitiUpdate(t) ==
  LET s == held[t]
      art == frame[t].art
  IN
  /\ At(t, "apply") /\ art.op # "delete"
  /\ \E f \in GraphitiOutcomes(rows[s], frame[t].target[1], art) :
       /\ rows' = [rows EXCEPT ![s] = f]
       /\ \/ Fail(t)
          \/ Goto(t, "verify") /\ UNCHANGED <<held, steps, frame>>
  /\ UNCHANGED <<entity, collection, protocolVars, adapterVars>>

\* The deletion branch of the diff.
GraphitiDeleteDiff(pre, post, e) ==
  /\ DOMAIN pre \ DOMAIN post = {e}
  /\ DOMAIN post \subseteq DOMAIN pre
  /\ Changed(pre, post) = {}

\* Mutant: whatever else changed beside the one new edge passes.
MutGraphitiOutcome(pre, post, e, art) ==
  LET added == DOMAIN post \ DOMAIN pre IN
  IF Cardinality(added) # 1 \/ \E x \in added : post[x].text # art.text THEN "diverged"
  ELSE IF e \notin DOMAIN post THEN "replaced" ELSE "split"

\* What an update was: one new edge with the exact projection and the target's
\* provenance; the target alone went (replaced), or stayed, perhaps changed (split).
GraphitiOutcome(pre, post, e, art) ==
  LET added == DOMAIN post \ DOMAIN pre
      removed == DOMAIN pre \ DOMAIN post
      exact == \A x \in added : post[x] = Row(art.text, pre[e].src)
  IN
  IF art.src # pre[e].src \/ Cardinality(added) # 1 \/ ~exact THEN "diverged"
  ELSE IF removed = {e} /\ Changed(pre, post) = {} THEN "replaced"
  ELSE IF removed = {} /\ Changed(pre, post) \subseteq {e} THEN "split"
  ELSE "diverged"

\* The successors take the target's lineage, and a target that went loses it.
GraphitiLineage(line, pre, post, e) ==
  [x \in ((DOMAIN line \cup DOMAIN post) \ (DOMAIN pre \ DOMAIN post)) |->
     IF x \in DOMAIN line THEN line[x] ELSE line[e]]

\* replay_transition after its mutation: the lineage map changes before the outcome is
\* compared with the artifact's and before the closure retrieval, which may be blocked.
GraphitiVerify(t) ==
  LET s == held[t]
      f == frame[t]
      e == f.target[1]
      outcome == IF f.art.op # "delete" THEN GraphitiOutcome(f.pre, GraphitiInventory(s), e, f.art)
                 ELSE IF GraphitiDeleteDiff(f.pre, GraphitiInventory(s), e) THEN "deleted" ELSE "diverged"
      line == GraphitiLineage(lineage[s], f.pre, GraphitiInventory(s), e)
  IN
  /\ At(t, "verify")
  /\ \/ /\ Fail(t)
        /\ \/ UNCHANGED lineage
           \/ outcome # "diverged" /\ lineage' = [lineage EXCEPT ![s] = line]
        /\ UNCHANGED <<context, certified>>
     \/ outcome \in f.art.acceptable /\ Accept(t, s, line)
  /\ UNCHANGED <<storeVars, adapterVars>>

\* certify_descendant: every public entry has a lineage.
GraphitiCertify(t) ==
  Read(t, "own", "certified", EveryEntryBound(held[t]))

\* retrieve: a registered state; what the search returns is resolved by the caller.
GraphitiRetrieve(t) == Read(t, "certified", "observed", TRUE)

GraphitiStep(t) ==
  \/ GraphitiRoot(t) \/ GraphitiCreate(t) \/ GraphitiIngest(t) \/ GraphitiBind(t)
  \/ GraphitiRetire(t) \/ GraphitiReplay(t) \/ GraphitiEvidence(t) \/ GraphitiDelete(t)
  \/ GraphitiUpdate(t) \/ GraphitiVerify(t) \/ GraphitiCertify(t) \/ GraphitiRetrieve(t)
=============================================================================
