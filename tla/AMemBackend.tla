------------------------------ MODULE AMemBackend ------------------------------
(***************************************************************************)
(* amem.py, amem_capability.py and amem_materializer.py: constructing the   *)
(* memory system resets the one Chroma collection of the process, so the    *)
(* adapter admits one state per process; a note lives in self.memories and  *)
(* in the collection, and an inventory needs the two to agree.              *)
(***************************************************************************)
EXTENDS BackendStore

\* _validate_root.
AMemRoot(t) == RootRequest(t)

\* Mutant: the process owner is not looked at.
MutAMemBusy == FALSE

\* The guard of create_isolated_state: a live state of this adapter or of the class.
AMemBusy == alive # {} \/ owner # NoState

\* create_isolated_state: refused while the process is owned; the constructor resets
\* the collection and may raise before the state is registered.
AMemCreate(t) ==
  /\ At(t, "create")
  /\ \/ AMemBusy /\ NoRoot(t) /\ UNCHANGED <<collection, adapterVars>>
     \/ /\ ~AMemBusy
        /\ NoRoot(t)
        /\ collection' \in {collection, {}}
        /\ UNCHANGED adapterVars
     \/ /\ ~AMemBusy
        /\ \E s \in States \ alive :
             /\ alive' = alive \cup {s}
             /\ owner' = s
             /\ frame' = [frame EXCEPT ![t].handle = s]
        /\ collection' = {}
        /\ Goto(t, "ingest")
        /\ UNCHANGED <<held, steps, tokens>>
  /\ UNCHANGED <<rows, entity, protocolVars>>

\* ingest, called by replay_state: when a note raises, replay_state raises, the caller
\* never sees the handle, and the process keeps its owner.
AMemIngest(t) ==
  /\ At(t, "ingest")
  /\ \/ /\ NoRoot(t)
        /\ collection' \in {collection} \cup {DOMAIN f : f \in FreshStores}
        /\ UNCHANGED rows
     \/ \E f \in FreshStores :
          /\ rows' = [rows EXCEPT ![frame[t].handle] = f]
          /\ collection' = DOMAIN f
          /\ Goto(t, "bind")
          /\ UNCHANGED <<held, steps, frame>>
  /\ UNCHANGED <<entity, protocolVars, adapterVars>>

\* _snapshot: self.memories and the collection hold the same IDs.
AMemInventoryOK(s) == DOMAIN rows[s] = collection

\* capability.inventory: the notes, read twice, when AMemInventoryOK.
AMemInventory(s) == rows[s]

\* _root_rebinding and materialize_root after replay_state; the inventory may be
\* blocked for reasons of its own.
AMemBind(t) ==
  LET s == frame[t].handle
      inv == frame[t].inv
  IN
  /\ At(t, "bind")
  /\ \/ Abandon(t) /\ UNCHANGED protocolVars
     \/ /\ AMemInventoryOK(s) /\ SameKeys(AMemInventory(s), inv) /\ ~Repeats(inv)
        /\ Register(t, s, inv, RootLineage(AMemInventory(s), inv))
  /\ UNCHANGED <<storeVars, adapterVars>>

\* teardown: reset deletes the notes one by one and may stop half-way.
AMemRetire(t) == TearDown(t) /\ collection' \in {collection, {}}

\* replay_transition up to its mutation.
AMemReplay(t) ==
  LET s == held[t] IN
  /\ At(t, "own") /\ steps[t] < MaxReplays
  /\ \E art \in Artifacts :
       \/ Fail(t)
       \/ /\ context[s] # Unbound
          /\ AMemInventoryOK(s) /\ EveryEntryBound(s)
          /\ \E e \in DOMAIN rows[s] : Aim(t, s, art, e, AMemInventory(s), "apply")
  /\ UNCHANGED <<storeVars, protocolVars, adapterVars>>

\* AgenticMemorySystem.update keeps the tags, which carry the provenance (external).
AMemIntended(f, e, art) ==
  IF art.op = "delete" THEN Without(f, e)
  ELSE With(f, e, Row(art.text, f[e].src))

\* What the call leaves: one wrong note, or one ID on which the two stores disagree.
AMemOutcomes(f) ==
  {<<g, DOMAIN g>> : g \in Near(f)}
  \cup {<<f, DOMAIN f \cup {e}>> : e \in Entries} \cup {<<f, DOMAIN f \ {e}>> : e \in Entries}

\* adapter.update, delete and unrelated_existing_region_change: may raise, and the
\* library may report failure, after the store changed.
AMemApply(t) ==
  LET s == held[t]
      art == frame[t].art
      e == frame[t].target[1]
  IN
  /\ At(t, "apply")
  /\ \E o \in AMemOutcomes(AMemIntended(frame[t].pre, e, art)) :
       /\ rows' = [rows EXCEPT ![s] = o[1]]
       /\ collection' = o[2]
       /\ \/ Fail(t)
          \/ /\ ~(art.op = "delete" /\ e \in DOMAIN o[1])
             /\ Goto(t, "verify")
             /\ UNCHANGED <<held, steps, frame>>
  /\ UNCHANGED <<entity, protocolVars, adapterVars>>

\* The public notes before and after: an update changes the target alone, to the exact
\* text, and keeps its provenance, which the payload must name; a deletion removes the
\* target alone.
AMemDiff(pre, post, e, art) ==
  IF art.op = "delete"
  THEN /\ DOMAIN pre \ DOMAIN post = {e}
       /\ DOMAIN post \subseteq DOMAIN pre
       /\ Changed(pre, post) = {}
  ELSE /\ DOMAIN post = DOMAIN pre
       /\ Changed(pre, post) = {e}
       /\ post[e].text = art.text
       /\ post[e].src = pre[e].src
       /\ art.src = pre[e].src

\* replay_transition after its mutation; the post inventory and the closure retrieval
\* may be blocked.
AMemVerify(t) ==
  LET s == held[t]
      f == frame[t]
  IN
  /\ At(t, "verify")
  /\ \/ Fail(t) /\ UNCHANGED protocolVars
     \/ /\ AMemInventoryOK(s)
        /\ AMemDiff(f.pre, AMemInventory(s), f.target[1], f.art)
        /\ Accept(t, s, lineage[s])
  /\ UNCHANGED <<storeVars, adapterVars>>

\* certify_descendant: the two stores agree and every note has a lineage.
AMemCertify(t) ==
  Read(t, "own", "certified", AMemInventoryOK(held[t]) /\ EveryEntryBound(held[t]))

\* retrieve: a registered state; what the search returns is resolved by the caller.
AMemRetrieve(t) == Read(t, "certified", "observed", TRUE)

AMemStep(t) ==
  \/ AMemRoot(t) \/ AMemCreate(t) \/ AMemIngest(t) \/ AMemBind(t) \/ AMemRetire(t)
  \/ AMemReplay(t) \/ AMemApply(t) \/ AMemVerify(t) \/ AMemCertify(t) \/ AMemRetrieve(t)
=============================================================================
