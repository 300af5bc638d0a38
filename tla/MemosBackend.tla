----------------------------- MODULE MemosBackend -----------------------------
(***************************************************************************)
(* memos.py, memos_capability.py and memos_materializer.py: one live state  *)
(* per adapter, each with a directory of its own; the adapter itself checks *)
(* provenance and absence, and tears down what it could not ingest.         *)
(***************************************************************************)
EXTENDS BackendStore

\* _validate_root.
MemosRoot(t) == RootRequest(t)

MemosBusy == alive # {}

\* create_isolated_state: refused while a state is live, or when the runtime or the
\* embedding model is not the frozen one; a factory that raises leaves no directory.
MemosCreate(t) ==
  /\ At(t, "create")
  /\ \/ NoRoot(t) /\ UNCHANGED adapterVars
     \/ ~MemosBusy /\ NoRoot(t) /\ UNCHANGED adapterVars
     \/ /\ ~MemosBusy
        /\ \E s \in States \ alive :
             /\ alive' = alive \cup {s}
             /\ frame' = [frame EXCEPT ![t].handle = s]
        /\ Goto(t, "ingest")
        /\ UNCHANGED <<held, steps, owner, tokens>>
  /\ UNCHANGED <<storeVars, protocolVars>>

\* Mutant: the failing ingestion is not torn down.
MutIngestFails(t) ==
  /\ NoRoot(t)
  /\ UNCHANGED <<rows, entity, protocolVars, adapterVars>>

\* replay_state's handler: teardown, then the exception goes on.
MemosIngestFails(t) ==
  /\ NoRoot(t)
  /\ Forget(frame[t].handle)

MemosIngest(t) ==
  /\ At(t, "ingest")
  /\ \/ MemosIngestFails(t)
     \/ \E f \in FreshStores :
          /\ rows' = [rows EXCEPT ![frame[t].handle] = f]
          /\ Goto(t, "bind")
          /\ UNCHANGED <<held, steps, frame, entity, protocolVars, adapterVars>>
  /\ UNCHANGED collection

\* capability.inventory: get_all twice: the public items, when the two agree.
MemosInventory(s) == rows[s]

\* _root_rebinding and materialize_root after replay_state.
MemosBind(t) ==
  LET s == frame[t].handle
      inv == frame[t].inv
  IN
  /\ At(t, "bind")
  /\ \/ Abandon(t) /\ UNCHANGED protocolVars
     \/ /\ SameKeys(MemosInventory(s), inv) /\ ~Repeats(inv)
        /\ Register(t, s, inv, RootLineage(MemosInventory(s), inv))
  /\ UNCHANGED <<storeVars, adapterVars>>

\* teardown: the owned directory goes even when delete_all raised.
MemosRetire(t) == TearDown(t) /\ UNCHANGED collection

\* replay_transition up to its mutation; the adapter refuses an update whose
\* provenance is not exactly the target's before it changes anything.
MemosReplay(t) ==
  LET s == held[t] IN
  /\ At(t, "own") /\ steps[t] < MaxReplays
  /\ \E art \in Artifacts :
       \/ Fail(t)
       \/ /\ context[s] # Unbound
          /\ EveryEntryBound(s)
          /\ \E e \in DOMAIN rows[s] :
               /\ art.op = "delete" \/ art.src = rows[s][e].src
               /\ Aim(t, s, art, e, MemosInventory(s), "apply")
  /\ UNCHANGED <<storeVars, protocolVars, adapterVars>>

\* GeneralTextMemory.update under the old metadata, and delete (external).
MemosIntended(f, e, art) ==
  IF art.op = "delete" THEN Without(f, e)
  ELSE With(f, e, Row(art.text, f[e].src))

\* _update and delete of the adapter: the target must still be there under its
\* provenance, or be gone; otherwise MemosProfileError, with the store changed.
MemosObserved(f, e, art) ==
  IF art.op = "delete" THEN e \notin DOMAIN f
  ELSE e \in DOMAIN f /\ f[e].src = art.src

MemosApply(t) ==
  LET s == held[t]
      art == frame[t].art
      e == frame[t].target[1]
  IN
  /\ At(t, "apply")
  /\ \E f \in Near(MemosIntended(frame[t].pre, e, art)) :
       /\ rows' = [rows EXCEPT ![s] = f]
       /\ \/ Fail(t)
          \/ ~MemosObserved(f, e, art) /\ Fail(t)
          \/ /\ MemosObserved(f, e, art)
             /\ Goto(t, "verify")
             /\ UNCHANGED <<held, steps, frame>>
  /\ UNCHANGED <<entity, collection, protocolVars, adapterVars>>

\* The public items before and after.
MemosDiff(pre, post, e, art) ==
  IF art.op = "delete"
  THEN /\ DOMAIN pre \ DOMAIN post = {e}
       /\ DOMAIN post \subseteq DOMAIN pre
       /\ Changed(pre, post) = {}
  ELSE /\ DOMAIN post = DOMAIN pre
       /\ Changed(pre, post) = {e}
       /\ post[e] = Row(art.text, pre[e].src)

\* replay_transition after its mutation; the post inventory and the closure retrieval
\* may be blocked.
MemosVerify(t) ==
  LET s == held[t]
      f == frame[t]
  IN
  /\ At(t, "verify")
  /\ \/ Fail(t) /\ UNCHANGED protocolVars
     \/ /\ MemosDiff(f.pre, MemosInventory(s), f.target[1], f.art)
        /\ Accept(t, s, lineage[s])
  /\ UNCHANGED <<storeVars, adapterVars>>

\* certify_descendant: every public entry has a lineage.
MemosCertify(t) ==
  Read(t, "own", "certified", EveryEntryBound(held[t]))

\* retrieve: a registered state; what the search returns is resolved by the caller.
MemosRetrieve(t) == Read(t, "certified", "observed", TRUE)

MemosStep(t) ==
  \/ MemosRoot(t) \/ MemosCreate(t) \/ MemosIngest(t) \/ MemosBind(t) \/ MemosRetire(t)
  \/ MemosReplay(t) \/ MemosApply(t) \/ MemosVerify(t) \/ MemosCertify(t) \/ MemosRetrieve(t)
=============================================================================
