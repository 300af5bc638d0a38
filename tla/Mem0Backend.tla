------------------------------ MODULE Mem0Backend ------------------------------
(***************************************************************************)
(* mem0.py, mem0_capability.py and mem0_materializer.py: any number of      *)
(* isolated states, updates in place under the same memory ID, and one      *)
(* auxiliary entity row that may link only live memories.                   *)
(***************************************************************************)
EXTENDS BackendStore

\* _validate_root_request.
Mem0Root(t) == RootRequest(t)

\* create_isolated_state: the factory may raise before anything is registered.
Mem0Create(t) ==
  /\ At(t, "create")
  /\ \/ NoRoot(t) /\ UNCHANGED <<storeVars, protocolVars, adapterVars>>
     \/ \E s \in States \ alive :
          /\ alive' = alive \cup {s}
          /\ frame' = [frame EXCEPT ![t].handle = s]
          /\ Goto(t, "ingest")
          /\ UNCHANGED <<held, steps, storeVars, protocolVars, owner, tokens>>

\* ingest, called by replay_state: when an add raises, replay_state raises and the
\* caller never sees the handle.
Mem0Ingest(t) ==
  /\ At(t, "ingest")
  /\ \/ NoRoot(t) /\ UNCHANGED storeVars
     \/ \E f \in FreshStores, links \in {<< >>, <<{}>>} :
          /\ rows' = [rows EXCEPT ![frame[t].handle] = f]
          /\ entity' = [entity EXCEPT ![frame[t].handle] = links]
          /\ Goto(t, "bind")
          /\ UNCHANGED <<held, steps, frame, collection>>
  /\ UNCHANGED <<protocolVars, adapterVars>>

\* capability.inventory: get_all with a growing limit until it is not filled, and once
\* more: the public memories, when the two snapshots agree.
Mem0Inventory(s) == rows[s]

\* _auxiliary_snapshot: at most one entity row, every link to a live memory with a
\* lineage.
Mem0AuxiliaryOK(s) ==
  /\ Len(entity[s]) <= 1
  /\ EveryEntryBound(s)
  /\ \A i \in DOMAIN entity[s] : entity[s][i] \subseteq DOMAIN rows[s]

\* _build_root_rebinding: the same keys, none of them twice.
Mem0Rebinding(f, inv) == SameKeys(f, inv) /\ ~Repeats(f) /\ ~Repeats(inv)

\* materialize_root after replay_state; the inventory may be blocked and the live
\* memory may be configured otherwise.
Mem0Bind(t) ==
  LET s == frame[t].handle
      inv == frame[t].inv
  IN
  /\ At(t, "bind")
  /\ \/ Abandon(t) /\ UNCHANGED protocolVars
     \/ /\ Mem0Rebinding(Mem0Inventory(s), inv)
        /\ entity[s] = << >>
        /\ Register(t, s, inv, RootLineage(Mem0Inventory(s), inv))
  /\ UNCHANGED <<storeVars, adapterVars>>

\* _retire_handle.
Mem0Retire(t) == TearDown(t) /\ UNCHANGED collection

\* replay_transition up to its mutation.
Mem0Replay(t) ==
  LET s == held[t] IN
  /\ At(t, "own") /\ steps[t] < MaxReplays
  /\ \E art \in Artifacts :
       \/ Fail(t)
       \/ /\ context[s] # Unbound
          /\ Mem0AuxiliaryOK(s)
          /\ \E e \in DOMAIN rows[s] : Aim(t, s, art, e, Mem0Inventory(s), "apply")
  /\ UNCHANGED <<storeVars, protocolVars, adapterVars>>

\* Mutant: an update drops the provenance.
MutIntended(f, e, art) ==
  IF art.op = "delete" THEN Without(f, e) ELSE With(f, e, Row(art.text, {}))

\* Memory.update keeps the ID and adds the payload's provenance; Memory.delete
\* removes the memory (external).
Mem0Intended(f, e, art) ==
  IF art.op = "delete" THEN Without(f, e)
  ELSE With(f, e, Row(art.text, f[e].src \cup art.src))

\* What the call leaves: the intended rows and any entity row, or one wrong row.
Mem0Outcomes(s, f) ==
  {<<f, l>> : l \in {<< >>, <<{}, {}>>, <<DOMAIN f>>, <<DOMAIN rows[s]>>}}
  \cup {<<g, entity[s]>> : g \in Near(f)}

\* adapter.update, delete and unrelated_existing_region_change: the call may raise
\* before or after it changed the store; a delete that leaves the target observable
\* reports no success, and _receipt_matches refuses that receipt.
Mem0Apply(t) ==
  LET s == held[t]
      art == frame[t].art
      e == frame[t].target[1]
  IN
  /\ At(t, "apply")
  /\ \E o \in Mem0Outcomes(s, Mem0Intended(frame[t].pre, e, art)) :
       /\ rows' = [rows EXCEPT ![s] = o[1]]
       /\ entity' = [entity EXCEPT ![s] = o[2]]
       /\ \/ Fail(t)
          \/ art.op = "delete" /\ e \in DOMAIN o[1] /\ Fail(t)
          \/ /\ ~(art.op = "delete" /\ e \in DOMAIN o[1])
             /\ Goto(t, "verify")
             /\ UNCHANGED <<held, steps, frame>>
  /\ UNCHANGED <<collection, protocolVars, adapterVars>>

\* Mutant: a change of another memory passes.
MutCollateral(pre, post, e, art) ==
  /\ DOMAIN post = DOMAIN pre
  /\ e \in Changed(pre, post)
  /\ post[e].text = art.text /\ post[e].src = pre[e].src \cup art.src

\* _validate_update_diff: no ID came or went, only the target changed, and it holds
\* the payload's text and the union of the provenances.
Mem0UpdateDiff(pre, post, e, art) ==
  /\ DOMAIN post = DOMAIN pre
  /\ Changed(pre, post) = {e}
  /\ post[e].text = art.text
  /\ post[e].src = pre[e].src \cup art.src

\* _validate_delete_diff: exactly the target is gone and the others are untouched.
Mem0DeleteDiff(pre, post, e) ==
  /\ DOMAIN pre \ DOMAIN post = {e}
  /\ DOMAIN post \subseteq DOMAIN pre
  /\ Changed(pre, post) = {}

\* replay_transition after its mutation: the post inventory may be blocked; a state
\* whose checks fail keeps what was done to it.
Mem0Verify(t) ==
  LET s == held[t]
      f == frame[t]
      diff == IF f.art.op = "delete" THEN Mem0DeleteDiff(f.pre, Mem0Inventory(s), f.target[1])
              ELSE Mem0UpdateDiff(f.pre, Mem0Inventory(s), f.target[1], f.art)
  IN
  /\ At(t, "verify")
  /\ \/ Fail(t) /\ UNCHANGED protocolVars
     \/ diff /\ Mem0AuxiliaryOK(s) /\ Accept(t, s, lineage[s])
  /\ UNCHANGED <<storeVars, adapterVars>>

\* certify_descendant: a lineage for every public entry and a sound auxiliary row.
Mem0Certify(t) ==
  Read(t, "own", "certified", Mem0AuxiliaryOK(held[t]))

\* retrieve: a registered state; what the search returns is resolved by the caller.
Mem0Retrieve(t) == Read(t, "certified", "observed", TRUE)

Mem0Step(t) ==
  \/ Mem0Root(t) \/ Mem0Create(t) \/ Mem0Ingest(t) \/ Mem0Bind(t) \/ Mem0Retire(t)
  \/ Mem0Replay(t) \/ Mem0Apply(t) \/ Mem0Verify(t) \/ Mem0Certify(t) \/ Mem0Retrieve(t)
=============================================================================
