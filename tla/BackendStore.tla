----------------------------- MODULE BackendStore -----------------------------
(***************************************************************************)
(* What the four back ends (backends/*.py) share: the adapter's live states *)
(* and process owner, the physical rows of each state, the protocol's       *)
(* registry `_states`, the calls in flight, and the caller's program of     *)
(* materialize_and_observe: one root, its replays, the descendant, one      *)
(* retrieval, and a discard after success or failure.                       *)
(*                                                                          *)
(* A handler is a sequence of steps (pc).  Only Graphiti's awaits suspend;  *)
(* the handlers of the others run to their return before another task moves *)
(* (Turn).  The store behind an adapter is external: an operation does what *)
(* it was asked or is wrong about one row, and any call of it may raise.    *)
(***************************************************************************)
EXTENDS Integers, FiniteSets, Sequences

CONSTANTS Profiles,    \* back ends this model runs, each in a process of its own
          Tasks,       \* concurrent materializations on one protocol object
          States,      \* state IDs of backend handles
          Entries,     \* physical entry IDs
          E0,          \* initialized coverage IDs
          Rows,        \* what one entry can hold: [text, src] (src: provenance IDs)
          Inventories, \* registered frozen inventories: E0 -> Rows
          FreshStores, \* stores an ingestion may build: Entries -> Rows (partial)
          Artifacts,   \* realized mutations: [op, target, text, src, acceptable]
          Stray,       \* what a wrong row of the store holds
          MaxReplays,  \* bound: transitions replayed on one state
          NoState, NoArtifact

ASSUME BackendAssumption ==
  /\ Profiles \subseteq {"mem0", "a-mem", "graphiti", "memos"}
  /\ NoState \notin States
  /\ IsFiniteSet(States) /\ IsFiniteSet(Entries) /\ IsFiniteSet(E0)
  /\ Inventories \subseteq [E0 -> Rows]
  /\ Stray \in Rows
  /\ MaxReplays \in Nat

VARIABLES
  profile,    \* the back end of this process; never changes
  pc,         \* the step each task is at
  held,       \* the state each caller owns
  frame,      \* locals of the handler a task is in
  steps,      \* transitions certified on the state a task holds
  alive,      \* adapter._states (MemOS: _live_state_ids)
  owner,      \* _process_owner_state_id (A-Mem, Graphiti)
  context,    \* protocol._states: the frozen inventory a registered state was bound to
  rows,       \* public entries of each state
  entity,     \* Mem0: the entity rows of each state, as sets of linked memory IDs
  collection, \* A-Mem: IDs in the one Chroma collection of the process
  lineage,    \* coverage ID of a physical entry of each registered state
  tokens,     \* Graphiti: deletion certificates issued and not consumed
  certified   \* what the certificates issued so far say of each state

callVars == <<pc, held, frame, steps>>
storeVars == <<rows, entity, collection>>
protocolVars == <<context, lineage, certified>>
adapterVars == <<alive, owner, tokens>>
vars == <<profile, callVars, storeVars, protocolVars, adapterVars>>

Unbound == << >>
NoFrame == [handle |-> NoState, inv |-> Unbound, art |-> NoArtifact, pre |-> Unbound, target |-> << >>]

InitWith(p) ==
  /\ profile = p
  /\ pc = [t \in Tasks |-> "idle"]
  /\ held = [t \in Tasks |-> NoState]
  /\ frame = [t \in Tasks |-> NoFrame]
  /\ steps = [t \in Tasks |-> 0]
  /\ alive = {} /\ owner = NoState /\ tokens = {} /\ collection = {}
  /\ context = [s \in States |-> Unbound]
  /\ rows = [s \in States |-> Unbound]
  /\ entity = [s \in States |-> << >>]
  /\ lineage = [s \in States |-> Unbound]
  /\ certified = [s \in States |-> Unbound]

-----------------------------------------------------------------------------
(* Rows of a state.                                                         *)

\* The observable projection of a public record and the provenance it carries.
Row(text, src) == [text |-> text, src |-> src]

\* Fresh stores and updated rows are stores and rows; no artifact accepts a divergence
\* (PhysicalTransitionOutcome has none).
ASSUME RowAssumption ==
  /\ \A f \in FreshStores : DOMAIN f \subseteq Entries /\ f \in [DOMAIN f -> Rows]
  /\ \A art \in Artifacts :
       /\ "diverged" \notin art.acceptable
       /\ art.op # "delete" => \A r \in Rows : {Row(art.text, art.src), Row(art.text, r.src),
                                               Row(art.text, r.src \cup art.src)} \subseteq Rows

Without(f, e) == [x \in DOMAIN f \ {e} |-> f[x]]
With(f, e, r) == [x \in DOMAIN f \cup {e} |-> IF x = e THEN r ELSE f[x]]

\* The store is wrong about at most one row (external).
Near(f) ==
  {f} \cup {Without(f, e) : e \in DOMAIN f}
      \cup {With(f, e, Stray) : e \in Entries}

Changed(pre, post) == {e \in DOMAIN pre \cap DOMAIN post : pre[e] # post[e]}

\* Same multiset of (provenance, projection) replay keys; a key that repeats is
\* ambiguous.
SameKeys(f, g) ==
  \A r \in Rows : Cardinality({x \in DOMAIN f : f[x] = r}) = Cardinality({y \in DOMAIN g : g[y] = r})
Repeats(f) == \E x, y \in DOMAIN f : x # y /\ f[x] = f[y]

\* The root re-binding of distinct keys: each fresh entry takes the coverage ID of
\* the frozen entry with its key.
RootLineage(fresh, inv) == [e \in DOMAIN fresh |-> CHOOSE id \in E0 : inv[id] = fresh[e]]

\* What a store holds for each coverage ID; an ID without a live entry is deleted.
Logical(f, line) == [id \in E0 |-> {f[e] : e \in {x \in DOMAIN f : line[x] = id}}]

-----------------------------------------------------------------------------
(* Handlers and the caller's program.                                       *)

Resting == {"idle", "own", "certified", "observed", "failed"}
Suspends == profile = "graphiti"

\* A handler that never suspends is not interleaved with another.
Turn(t) == Suspends \/ \A u \in Tasks \ {t} : pc[u] \in Resting

At(t, label) == pc[t] = label /\ Turn(t)
Goto(t, label) == pc' = [pc EXCEPT ![t] = label]

Return(t, label) ==
  /\ Goto(t, label)
  /\ frame' = [frame EXCEPT ![t] = NoFrame]

\* A call on a held state failed: the state stays the caller's, to be discarded.
Fail(t) == Return(t, "failed") /\ UNCHANGED <<held, steps>>

\* A root call failed with no handle to tear down.
NoRoot(t) == Return(t, "idle") /\ UNCHANGED <<held, steps>>

\* A root call failed with a handle: teardown, then the failure is returned.
Abandon(t) == Goto(t, "teardown") /\ UNCHANGED <<frame, held, steps>>

\* The registries forget a state whether or not its reset raised.
Forget(s) ==
  /\ alive' = alive \ {s}
  /\ owner' = IF owner = s THEN NoState ELSE owner
  /\ tokens' = {k \in tokens : k.state # s}
  /\ context' = [context EXCEPT ![s] = Unbound]
  /\ rows' = [rows EXCEPT ![s] = Unbound]
  /\ entity' = [entity EXCEPT ![s] = << >>]
  /\ lineage' = [lineage EXCEPT ![s] = Unbound]
  /\ certified' = [certified EXCEPT ![s] = Unbound]

\* A registered state and its first certificate.
Register(t, s, inv, line) ==
  /\ context' = [context EXCEPT ![s] = inv]
  /\ lineage' = [lineage EXCEPT ![s] = line]
  /\ certified' = [certified EXCEPT ![s] = Logical(rows[s], line)]
  /\ held' = [held EXCEPT ![t] = s]
  /\ steps' = [steps EXCEPT ![t] = 0]
  /\ Return(t, "own")

\* A transition was certified for the state as its lineage now reads it.
Accept(t, s, line) ==
  /\ lineage' = [lineage EXCEPT ![s] = line]
  /\ certified' = [certified EXCEPT ![s] = Logical(rows[s], line)]
  /\ steps' = [steps EXCEPT ![t] = @ + 1]
  /\ Return(t, "own")
  /\ UNCHANGED <<held, context>>

\* materialize_root's request: a registered artifact and inventory of this profile, or
\* refused.
RootRequest(t) ==
  /\ At(t, "idle")
  /\ \/ NoRoot(t)
     \/ \E inv \in Inventories :
          /\ frame' = [frame EXCEPT ![t] = [NoFrame EXCEPT !.inv = inv]]
          /\ Goto(t, "create")
          /\ UNCHANGED <<held, steps>>
  /\ UNCHANGED <<storeVars, protocolVars, adapterVars>>

\* Mutant: the registry forgets the state only when its handle is gone.
MutDiscard(t) ==
  /\ pc[t] \in Resting /\ Turn(t) /\ held[t] # NoState
  /\ frame' = [frame EXCEPT ![t].handle = held[t]]
  /\ held' = [held EXCEPT ![t] = NoState]
  /\ steps' = [steps EXCEPT ![t] = 0]
  /\ Goto(t, "teardown")
  /\ UNCHANGED <<storeVars, protocolVars, adapterVars>>

\* discard: the caller gives the state up, and the registry forgets it, before its
\* handle is torn down.  Only the retrieval that ended well, or a failure, or a check of
\* the caller's own leads here: a caller discards what it holds.
Discard(t) ==
  /\ pc[t] \in Resting /\ Turn(t) /\ held[t] # NoState
  /\ frame' = [frame EXCEPT ![t].handle = held[t]]
  /\ held' = [held EXCEPT ![t] = NoState]
  /\ context' = [context EXCEPT ![held[t]] = Unbound]
  /\ steps' = [steps EXCEPT ![t] = 0]
  /\ Goto(t, "teardown")
  /\ UNCHANGED <<storeVars, lineage, certified, adapterVars>>

\* adapter.teardown, of a failed root and of a discard: a reset that raises still
\* unregisters the state, and the exception leaves the call.
TearDown(t) ==
  /\ At(t, "teardown")
  /\ Return(t, "idle")
  /\ Forget(frame[t].handle)
  /\ UNCHANGED <<held, steps>>

\* _resolve_target: the live entries that carry the target's lineage.
TargetEntries(s, id) == {e \in DOMAIN rows[s] : lineage[s][e] = id}
EveryEntryBound(s) == DOMAIN rows[s] \subseteq DOMAIN lineage[s]

\* The one live entry of the artifact's target is fixed, with the inventory before.
Aim(t, s, art, e, pre, label) ==
  /\ TargetEntries(s, art.target) = {e}
  /\ frame' = [frame EXCEPT ![t] = [@ EXCEPT !.art = art, !.pre = pre, !.target = <<e>>]]
  /\ Goto(t, label)
  /\ UNCHANGED <<held, steps>>

\* certify_descendant and retrieve change nothing: the state is registered and ready,
\* or the call fails.
Read(t, from, to, ready) ==
  /\ At(t, from)
  /\ \/ Fail(t)
     \/ /\ context[held[t]] # Unbound
        /\ ready
        /\ Return(t, to)
        /\ UNCHANGED <<held, steps>>
  /\ UNCHANGED <<storeVars, protocolVars, adapterVars>>

\* A handle in a caller's hands or in a running handler's.
Accounted(s) == \E t \in Tasks : held[t] = s \/ frame[t].handle = s
=============================================================================
