# Verification of U-Fuzz

TLA+ models of the parts of U-Fuzz (`src/src/ufuzz/`) that keep state across
steps, with TLC configurations that check them on small instances and TLAPS
proofs for every value of the constants. Paths below are relative to
`src/src/ufuzz/` unless they begin with `src/`.

    tlc -workers 2 -config MCMaterialization_materialize.cfg MCMaterialization
    tlapm MaterializationProofs.tla

## 1. The system

U-Fuzz tests the memory of LLM agents. A *logical seed* describes a memory
state (a root checkpoint and a path of realized mutations) and a query. To
execute it, the state is rebuilt on a live backend, every mutation is replayed
and certified, and the query is put to the backend's public retrieval. What the
retrieval returns is traced back to the entries the checkpoint was initialized
with (*E_0*, the coverage IDs), and that drives coverage, novelty and the
scheduler. Before a campaign, an offline pipeline makes for every benchmark
query a search-safe record P and an evaluator-only record G.

| part | state it keeps | operations | interacts with |
| --- | --- | --- | --- |
| materialization (`materialization.py`) | the live handle it owns, the current re-binding, accepted certificates | `materialize_seed`, `observe_materialization`, `materialize_and_observe`, `apply_certified_transition` | awaits the five calls of `MaterializationProtocol`; hands a handle to its caller |
| transition certificates (`state_contract.py`) | none: immutable, checked by their constructors | affected groups, transitions, re-bindings, descendants | read by materialization and by the backends |
| backend materializers (`backends/*_materializer.py`) | the live states each has registered, their lineage | the five protocol calls | one adapter each |
| backend adapters (`backends/{mem0,amem,graphiti,memos}.py`, `*_capability.py`) | live states, a process-wide owner (A-Mem, Graphiti), deletion certificates (Graphiti) | create, ingest, update, delete, change, replay, inventory, teardown | third-party memories |
| lineage and coverage (`coverage.py`) | `InitialEntryLineage`: bindings, deleted; `CoverageState`: reached IDs | certify, same-ID update, replace, merge, mark deleted, resolve; `observe` | built by materialization; read by retrieval feedback |
| retrieval feedback (`retrieval_feedback.py`) | `BehaviorHistory` | signature, RBO, novelty, divergence, score | resolves a ranking against a lineage |
| scheduler contracts (`scheduler_contract.py`) | none: the frozen policy (rounds, frontier, retries, exhaustion, the order of one valid execution), as records and their validations | constructors, eligibility predicates, validations of transitions | the contract of a campaign layer, which is not in the repository |
| selector snapshot (`pg_selector_snapshot.py`) | three files | `build_snapshot`; read-only `FrozenSelectorSnapshot` | its file is read by every generator process |
| P/G pipeline (`pg_generate.py`) | a directory: plan, shard files, one record per query, status, report, merged outputs | `plan`, `run`, `resume`, `validate`, `merge`, each an operating-system process | processes meet in the files only |
| evaluation, production and preprocessing contracts, sidecar schemas, structural index, mapping, annotation scoring, loaders | none | pure functions and constructors | |

### What is hard, and what makes each part correct

- **Materialization.** A backend call can fail, raise or return an object that
  fails any of a dozen checks *after* it has swapped the live handle. Correct:
  one live handle at most, always the one the orchestration will discard; a
  failure leaves nothing live; a success is exactly the seed's state; a deleted
  ID never returns; a borrower is never robbed of its handle.
- **Backends.** Any call of a third-party memory may raise before or after it
  changed the store, and be wrong about a row it was not asked about; Graphiti
  suspends between its inventories while another materialization runs. Correct:
  one caller per handle, one live state per process where the store is
  process-wide, certificates that say what the store holds, and a certified
  state that behaves as a memory of coverage IDs.
- **Lineage and coverage.** Entries are updated in place, replaced, merged and
  deleted, in any order, and keep resolving. Correct: an entry's IDs never
  change, are inherited and never invented, and coverage stands for what was
  retrieved.
- **Campaign.** Five calls follow one valid execution, each reading what the one
  before it wrote: coverage, history, seeds, priority, disposition. Correct: they
  amount to one atomic decision, nothing is counted twice, a child waits for the
  next round, and an exhausted root stays exhausted.
- **Files.** Processes run for hours, are killed anywhere, and share a
  directory. Correct: a path always holds one complete value; a committed record
  is never made again; outputs that verify come from one merge of validated
  records; a snapshot in use is never replaced.

`PROJECT.json` lists every component and every hazard with its line.

## 2. What is modelled

### TransitionContract, Materialization

`TransitionContract` has the certificates as records and, as predicates, what
their constructors let through (`WellFormedGroup`, `WellFormedCertificate`, ...),
`apply_certified_transition` (`Applies`, `Applied`) and the verdict of the replay
checks in the order of the code (`TransitionVerdict`). One campaign and one
checkpoint; a certificate of another has scope `"foreign"`. The canonical token
of a set of IDs is the set.

`Materialization` is the coroutine. `pc` names the await it is suspended in
(`root`, `replay`, `certify`, `retrieve`, `discard`) or how it ended. `owned` is
the local variable `state`; `live` and `deleted` are the current re-binding;
`alive` is what the backend holds. Each protocol call may answer with any value
its carriers' constructors let through, with a failure of any kind in or out of
scope, or with an exception. `call` holds the caller's arguments, one of them
possibly defective. With `compose` the call is `materialize_and_observe`; without
it the caller borrows its materialization for observations (`Borrow`) and
releases it when it likes (`CallerDiscards`).

| action | code |
| --- | --- |
| `Begin` | the prechecks of `materialize_seed` and of the carriers' constructors |
| `RootFails`, `RootReturns` | `await materialize_root`, re-binding and root checks |
| `ReplayFails`, `ReplayRejected`, `ReplayAccepted` | one turn of the replay loop |
| `CertifyFails`, `CertifyReturns` | `await certify_descendant` and its four comparisons |
| `Observe`, `RetrieveFails`, `RetrieveReturns` | `observe_materialization` |
| `Discard` | `_discard_and_fail` and the discard of the composition; it swallows what the backend raises |

Assumed of the protocol, from its docstrings: a failing call leaves no new
handle; a successful replay has retired the handle it supersedes. Run `leak` shows
where the four implementations do not keep that; `Rebinding` puts the caller's
re-binding on top of them.

### BackendStore, Mem0Backend, AMemBackend, GraphitiBackend, MemosBackend, Backends

The other side of the five protocol calls. `BackendStore` has what the four
share: the adapter's live states (`alive`) and process owner, the public rows of
each state, the protocol's registry (`context`), its map from physical entries to
coverage IDs (`lineage`), the certificates issued (`certified`), and the caller's
program: one root, its replays, the descendant, one retrieval, a discard. A
handler is a sequence of steps (`create`, `ingest`, `bind`, `apply`, `verify`,
`evidence`, `teardown`); `Turn` lets a handler run to its return before another
task moves, except in Graphiti, whose awaits suspend. Each backend module has the
handlers of one backend, with what is its own: Mem0's entity row, the one
collection A-Mem's constructor resets, Graphiti's deletion certificates and
superseded edges, MemOS's teardown inside `replay_state`.

The third-party store is external: a call does what it was asked or is wrong
about one row (`Near`), and may raise before or after. `Backends` runs each
profile in a process of its own with concurrent materializations on one protocol
object. `LogicalMemory` is what a certified state promises: a memory of coverage
IDs in which a transition takes an ID that exactly one row holds and changes it,
keeping its provenance, or deletes it for good (`DeletedStays`);
`CertifiedMemory` says that every backend implements it, with
`memory <- certified`.

The kinds of failures are not told apart. While reading: `certify_episode_deletion`
of Graphiti raises `ValueError` on a state it does not know, which the
materializer reports as a transient failure (modelled as a failure); and its SPLIT
outcome accepts any change of the target edge, which is why `Change` asks one
successor only to keep the provenance.

### Rebinding

Two pieces of code keep the same relation. The protocol has a map from physical
IDs to coverage IDs, which its `replay_transition` updates; `materialize_seed`
never sees it and derives a re-binding of its own from the certificates, with
`apply_certified_transition`. `Rebinding` extends `Backends` with one such
re-binding (`binding`) for each materialization, builds the answers of the four
backends as the records of `TransitionContract` (`RootReply`, `Certificate`,
`Descendant`), and takes them as the caller does: `TakeRoot`, `TakeTransition`,
which applies a certificate or refuses it for good (`refused`), and `GiveUp`, which
discards the state. A caller that refused calls nothing but `discard`. The runs on
the backends use this specification, `ProtocolSpec`; it implements the `Spec` of
`Backends`.

### Coverage, Lineage

`Coverage` has the operators of one resolved retrieval: signature, and
`CoverageState.observe` as an update that the caller adopts or not. `Lineage` is
`InitialEntryLineage`: one action per method, with the checks that raise as its
guards, and `Retrieve`, which resolves a ranking and adopts the update. A
registry starts as an assembled campaign or as a replay re-binding, whose tokens
may hold several IDs (`Starts`).

### Frontier, Search, Trajectory, Campaign

`scheduler_contract.py` executes nothing: it freezes a policy, validates the
records of a run, and has the predicates that decide what may run. The campaign
layer that calls it is not in the repository (`score_observed_retrieval` speaks of
"the later campaign layer"). `Campaign` is therefore a client that is as general
as its one assumption allows: it is sequential, taking one frontier decision at a
time and then calling the primitives in the order of
`ATOMIC_VALID_EXECUTION_ORDER`. It visits roots in any order and as often as it
likes, starts a round when it likes and stops when it likes; `RootRoundContract`
allows less, so what holds of it holds of a driver that keeps that contract.

- `Frontier`: the code's predicates and scores: eligibility, selection, legal
  enumerations, exhaustion, novelty and feedback. A seed is numbered by its
  admission; an RBO distance is an integer up to `Unit`.
- `Search`: what the client has between two decisions, and the admission of a child.
- `Trajectory`: the abstract specification, one atomic step for one decision.
- `Campaign`: one visit through `execute`, `adopt`, `score`, `retain`,
  `prioritize`, `finish`. What a visit in flight has already written is taken back
  by the refinement mapping (`SettledCoverage`, ...): only its end makes it show.

Coverage updates are adopted at once, as the contract has it, so `Campaign` says
nothing of a `CoverageUpdate` that is adopted late or twice; no code holds one.

### AtomicCell, AtomicWrite

`AtomicWrite` is `atomic_write` (the same function is in both PG modules), one
action per system call: temporary, write, sync, rename, directory sync. Calls
race on one path; each may raise (the `except` clause unlinks the temporary), be
killed, or be cut by a power loss, which rolls the files back to their synced
bytes and the directory back to its last durable change. The file system is
external. It may flush at any time and keeps directory changes in order.
`AtomicCell` is what the function promises: a path holds one complete value
after another, a power loss takes back the newest only, an acknowledged value is
never lost. The refinement maps the cell's log to the files the path has named,
and an incomplete one to `Torn`, which is no value of the cell. Assumed: the
directory's own entry is durable (`mkdir` does not sync it). Temporaries that a
power loss brings back are not tracked.

### PgGenerate

Processes over one directory. `proc[p]` is a process: the step it is at and its
local variables, among them the plan it has loaded (`view`), which may be out of
date, and the dataset position it has reached (`at`). One action per file written
or read back; `Abort` ends a process between any two of them. Every write is one
step, as AtomicWrite justifies. A record is one of `Contents` (what
`process_query` can produce: two, so that a record generated twice differs) or
`Stale`, which `_validate_terminal` refuses. A digest is the content digested.
`P`, `G` and the unresolved summary follow the records they were made of. A report
names its plan in the model only.

The code takes no lock: what it relies on is how an operator schedules the
processes, and that is the constant `Discipline`. `one_per_shard` is src/README.md's
one process per shard. `plan_alone` and `one_merge` (nothing runs while a plan is
written; one validation or merge at a time) are assumed.

### SelectorSnapshot

`build_snapshot`: the exists check, the selection, the three writes, and death at
any of them. Builds overlap freely.

## 3. Runs

`CHECK_DEADLOCK FALSE` is set where things end: Materialization, AtomicWrite and
SelectorSnapshot model calls that return and are not called again, and a campaign
ends when its last round has come and its budget is spent or nothing is selectable.
A CLI process, a materialization or a registry call can always be started, so the
other runs check for deadlock.

| run | shows | bounds | distinct states |
| --- | --- | --- | --- |
| `materialize` | `TypeOK`, `HandlesRetired`, `PublishedIsSeed`, `LineageShape`, `CreditIsSignature`, `NoResurrection`, `CallShrinks`, `Ends` | two IDs, two entries in two states, every certificate of one or two groups those hold; paths of up to two artifacts; rankings of up to three objects; every defective argument | 302,897 |
| `empty` | `BorrowerKeeps` when E_0 is empty and an observation may raise | no IDs | 4,610 |
| `orphan` | violates `NoOrphan`, see section 5 | as `empty`, composed | |
| `backends` | `TypeOK`, `SingleOwner`, `RegisteredIsHeld`, `LostOnlyByIngest`, `CertificateTruth`, `TokensAreFresh`, `RebindingAgrees`, `CertifiedMemory`, `CertificatesFit` on each of the four backends under their callers | two materializations, two states, two IDs, three entries, two transitions, one row wrong | 120,966 |
| `leak` | violates `NoOrphanHandle`, see section 5 | as `backends` | |
| `lineage` | `TypeOK`, `LineageIsInherited`, `ReachedIsSeen`, `LineageIsForever` | two checkpoints of two IDs and one, four entries and a foreign one, rankings of two | 26,200 |
| `campaign` | `TypeOK`, `WitnessesAccount`, `RoundDiscipline`, `AtomicTrajectory`, `ExhaustionIsFinal` under four methods | two roots, three IDs, two opportunities a seed, `Budget` two, `Rounds` three | 245,158 |
| `atomic` | `LitterOnlyFromKills`, `CellSpec` | three calls | 25,112 |
| `shards` | `TypeOK`, `ReportStays`, `VerifiedIsOneMerge`, `VerifiedIsRecords`, `RecordsImmutable` under all three disciplines | two processes, two queries, three plans, two contents | 1,459,129 |
| `overlap` | `ScannedIsTerminal`, `CompleteIsMergeable` without `one_per_shard` | one plan of two shards that puts both queries in one, early stops, a record of an earlier contract | 1,361,746 |
| `build` | `VerifiedIsOneBuild`, `QuietIsFinal` | three builds, two selections | 7,211 |
| `refusal` | violates `RefusalIsComplete`, see section 5 | two builds | |

Why the bounds are enough to be interesting: two IDs and two entries give every
kind of group (merge and split need two), and two transitions give a certificate
that is stale or resurrects; two states give a replay that keeps its handle and
one that swaps it. In `backends` the third entry is a fresh one, so an edge can be
replaced and come back, a second inventory has rows that cannot be told apart, and
a store may be built with any of three contents. In `lineage` a descendant may
begin with a merged or a split lineage, and every chain over four entries occurs.
In `campaign` a decision succeeds or is exhausted, a child is retained with any
enumeration, an empty or a blocked one too, and the second execution may be of
another root, of the same one, or of the child, two rounds after an initial seed.
Two queries and two processes give plans that move a record to another shard, a merge that reads while a shard is written, and a second
merge over the first one's files. Three writers are needed for a rename that is
overtaken while a third is acknowledged. `SYMMETRY` (processes, contents,
materializations, state IDs) is used where no liveness is checked.

### Fairness

`Ends` needs `WF(Materialize)` and `WF(Retrieval)`: the orchestration is one
coroutine, and once the awaited call completes it is resumed until it ends. That
an awaited call completes, by value, failure or exception, is assumed of the
backend. Nothing forces the caller to borrow or to discard. The other modules
state no liveness: a killed process is started again only by an operator, and no
code drives a campaign, so nothing says that one goes on.

### What the properties say

- `HandlesRetired`: the docstring "Every live state created by this orchestration
  is discarded on failure", at each of the thirteen discards: at every await only
  the handle it names can be live, and a failure returned leaves none.
- `PublishedIsSeed`: what leaves `materialize_seed` is the seed's descendant,
  replayed through the seed's artifacts in order.
- `LineageShape`: a token of several IDs needs an accepted merge, two objects
  with a common ID an accepted split; a stale certificate would make either.
- `NoResurrection`, `CreditIsSignature`, `BorrowerKeeps`, `Ends`: section 1.
- `CallShrinks`: each step of a call leaves less of it to do: an artifact is
  replayed once, and no failed call is asked again.
- `SingleOwner`, `RegisteredIsHeld`: one live state where the store is
  process-wide; no second materialization can mutate or discard a registered one.
- `LostOnlyByIngest`: the only way to lose a handle is the one of section 5.
- `CertificateTruth`: as long as no call on a state failed, its physical entries
  say what its certificates say, though any of its calls may have been wrong, and a
  live ID still has the provenance of its frozen entry, however often it was changed.
- `RebindingAgrees`: the caller's re-binding is the backend's lineage map of the
  live entries; so the descendant certificate agrees with it and every retrieved
  entry resolves.
- `CertificatesFit`: no backend answers with a certificate that its constructor
  refuses or that does not apply; a refusal is about the outcome only.
- `TokensAreFresh`: no deletion certificate outlives the handler it was made for.
- `CertifiedMemory`: the refinement above.
- `LineageIsForever`, `LineageIsInherited`, `ReachedIsSeen`: section 1.
- `AtomicTrajectory`: what follows an execution implements one step of
  `Trajectory`: scored against the coverage and the history before it, and by the
  parent's signature, whatever is written in between.
- `WitnessesAccount`: the executions account for the state: coverage is what they
  retrieved, every ID of it newly reached in one of them, and an archive is what its
  own root has observed, each behavior new once.
- `RoundDiscipline`: no seed executes in the round that made it and nothing executes
  twice. The client may visit a root again in the same round, so this rests on the
  round check and the dispositions alone (`scheduler_contract.py:583-597`, `641-675`).
- `ExhaustionIsFinal`: a root whose enumerations are complete and decided gets no
  further seed, so the condition of "scientific exhaustion" cannot be taken back.
- `CellSpec`, `LitterOnlyFromKills`: above.
- `RecordsImmutable`: a committed record stays, through kills, resumes and new
  plans. It fails without `one_per_shard`: the exists check and the write are
  minutes apart. Run `overlap` and the theorems of section 4 say what survives then.
- `ScannedIsTerminal`: an invocation has gone past valid records only.
- `ReportStays`: a strict report that says valid stays true of its plan.
- `CompleteIsMergeable`: run and validate agree where a record belongs.
- `VerifiedIsOneMerge`, `VerifiedIsRecords`: if `sha256sum -c SHA256SUMS`
  succeeds, the outputs are one merge of one validated plan, and (under the three
  disciplines) the records on disk. Merges are killed between any two files and
  repeated under other plans.
- `VerifiedIsOneBuild`, `QuietIsFinal`: files that verify are of one build; a
  snapshot left on disk while nobody builds stays.

## 4. Proofs

Every theorem is for all values of the constants that the named assumptions
allow: any numbers of IDs, states, materializations, roots, processes, queries or
builds. TLC evaluates the assumptions in the runs.

**Materialization** (`MaterializationProofs`). The invariant is `IInv = TypeOK /\
Ownership /\ Accounting /\ Progress /\ Certified`. `TypeOK` alone is not inductive,
nor is `OnlyOwnedAlive`: that a successor state is owned or fresh helps only if the
owned one is alive at every await after the root (`Ownership`). `Accounting` says
that deleted is exactly what is not live and that bindings are in the owned state;
`Progress` relates the certificates to the artifacts replayed; `Certified` holds
what the descendant was compared with. The algebra is in four lemmas about
`TransitionContract`: a certified group gives its successors no ID its
predecessors lack (`GroupKeepsIds`), so an accepted transition never makes an ID
live (`AppliedKeepsIds`), which is all that `NoResurrection` needs. `LineageShape`
needs where an ID of a new binding comes from (`Origin`: the object itself or the
group that made it) and that E_0 is finite (`IdsAssumption`), since it counts IDs;
`CreditIsSignature` needs that the first occurrences in a ranking have the ranks
1, 2, ... (`Ranks`). `CallsShrink` is the safety half of `Ends`: each of the steps
lowers `Remaining`, a natural number that counts the artifacts left and the awaits
after them, which uses that `Progress` bounds the certificates by the path.

**Backends** (`BackendsProofs`). Ownership is proved from six effects: a step is
`Quiet`, or takes, registers, gives up, forgets or loses a handle, and each of the
handlers' steps is shown to have one of them. `Ownership` says that a task makes or
retires the handle of its frame, holds a state, or has neither, and that no two
tasks have the same. Nothing in it uses `Turn`: the result holds however handlers
interleave. `NoStaleToken` adds that a token is of the task that is applying it.
What a state holds is proved from `CInv`, which adds types and, for each task,
`Content`: what its handler has in hand before there is a certificate (`Framed`), a
state at rest is what its certificates say (`Bound`), and in a transition the
inventory taken before is, with the artifact's target in it (`Aimed`). Each step is of one
of nine kinds for this invariant (`Kind`), shown handler by handler; the four
backends share the lemmas about reading, applying and accepting. It needs `RowAssumption`: what the artifacts make are rows, and none of
them accepts a divergence. The provenance in `CertificateTruth` needs `Rooted`,
that it is there at rest and throughout a transition: a change keeps the one of the
inventory it started from, and that inventory had it. `DeletionLasts` follows from
the refinement and `Whole`, that a certified state has a set of rows for each ID.

For `ProtocolSpec` everything above is inherited through `ProtocolImplements`. On
top of it `PInv` says that the re-binding of a caller that refused nothing is the
one of the backend's lineage map: of the entries there are, at rest, and in a
transition of those in the inventory taken before it (`Derived`). The argument is
about one certificate: its predecessor is the target under the token of its ID, so
it applies to the re-binding of the inventory before, and its successors are the
entries the diff let through, so what it gives is the re-binding of the inventory
after (`CertificateApplies`, by outcome: deleted, same ID, replaced, split). That
it is well formed is `CertificateWellFormed`.

**Lineage** (`LineageProofs`). `LineageIsInherited` is not inductive by itself: a
merge is refused across checkpoints by the IDs of its sources, so the invariant
adds `Scoped`, that an entry's IDs are of its own checkpoint, which uses that
inventories are disjoint (`InventoryAssumption`).

**Campaign** (`CampaignProofs`, `RoundProofs`). `IInv` says, stage by stage, what a
visit in flight has done already (`Staged`: executed, adopted, scored, retained,
prioritized) in terms of the settled state. `Refinement` then follows: `Finish` is
`Succeed`, `Exhaust` is `Exhaust`, `Advance` is `NextRound`, and every other step
stutters. `WitnessesAccount` is about the settled state, so it is part of `IInv`.
`RInv` remembers of every witness that its decision is terminal (`Recorded`), and of
every seed that its path is no longer than its round (`Admissible`), which gives
`RoundDiscipline`. `ExhaustionIsFinal` is an action property from `IInv`: the item of
a visit in flight is not terminal, so no root that a visit is of is exhausted.

**Atomic writes** (`AtomicWriteProofs`). `IInv` adds `Secured` (what each position
of the function has made durable) and `Complete` (every file the path has named was
synced before the rename). `Implements` shows that every step is a step of the cell
or a stutter: the rename is `Set`, either directory flush is `Settle`, the return is
`Ack`, a power loss is `Lose`. `AcknowledgedForever` follows for the cell: the value of
a call that returned is below the mark a power loss cannot cut, and what is below it
keeps its place.

**P/G pipeline** (`PgGenerateProofs`). What each theorem needs of the operator is in
its assumption, and nothing else is:

| theorem | needs | strengthened by |
| --- | --- | --- |
| `TypeCorrect`, `Scanned` | nothing | `TInv`: the query a process is at exists and is of its loaded plan |
| `Reported` | nothing: records are replaced by valid ones only | `Truthful`: a validation that found no error so far |
| `Immutable` | `one_per_shard` | `Apart` and `Unwritten`: a process that generates a query has found no record, and nobody else is on its shard |
| `OneMergeVerifies` | `plan_alone`, `one_merge` | `MInv`: merges are alone, and what they have written is of one validation |
| `VerifiedRecords` | all three | `LInv`: the summed outputs are still the records |
| `Mergeable` | one plan | `Placed`: records are where the plan puts them |

**Selector snapshot** (`SelectorSnapshotProofs`). What SHA256SUMS lists was written
together; and "no build under way and a snapshot on disk" is itself preserved, as
every build that starts there is refused.

| module | theorem | property |
| --- | --- | --- |
| MaterializationProofs | `TypeCorrect` | `TypeOK` |
| MaterializationProofs | `HandlesAreRetired` | `HandlesRetired` |
| MaterializationProofs | `PublicationFaithful` | `PublishedIsSeed` |
| MaterializationProofs | `EveryIdStaysAccounted` |  |
| MaterializationProofs | `DeletionIsFinal` | `NoResurrection` |
| MaterializationProofs | `BorrowingIsHarmless` | `BorrowerKeeps` |
| MaterializationProofs | `ShapeOfLineage` | `LineageShape` |
| MaterializationProofs | `CreditExact` | `CreditIsSignature` |
| MaterializationProofs | `CallsShrink` | `CallShrinks` |
| BackendsProofs | `OneOwner` | `SingleOwner` |
| BackendsProofs | `OneHolder` | `RegisteredIsHeld` |
| BackendsProofs | `LossIsIngestion` | `LostOnlyByIngest` |
| BackendsProofs | `NoStaleToken` | `TokensAreFresh` |
| BackendsProofs | `TypeCorrect` | `TypeOK` |
| BackendsProofs | `CertificatesTrue` | `CertificateTruth` |
| BackendsProofs | `MemoryRefined` | `CertifiedMemory` |
| BackendsProofs | `DeletionLasts` |  |
| BackendsProofs | `ProtocolImplements` |  |
| BackendsProofs | `RebindingsAgree` | `RebindingAgrees` |
| BackendsProofs | `CertificatesAlwaysFit` | `CertificatesFit` |
| LineageProofs | `TypeCorrect` | `TypeOK` |
| LineageProofs | `Inherited` | `LineageIsInherited` |
| LineageProofs | `CoverageIsSeen` | `ReachedIsSeen` |
| LineageProofs | `Forever` | `LineageIsForever` |
| CampaignProofs | `Accounted` | `WitnessesAccount` |
| CampaignProofs | `Refinement` | `AtomicTrajectory` |
| RoundProofs | `Disciplined` | `RoundDiscipline` |
| RoundProofs | `TypeCorrect` | `TypeOK` |
| RoundProofs | `Exhausted` | `ExhaustionIsFinal` |
| AtomicWriteProofs | `KillsOnlyLitter` | `LitterOnlyFromKills` |
| AtomicWriteProofs | `Implements` | `CellSpec` |
| AtomicWriteProofs | `AcknowledgedForever` |  |
| PgGenerateProofs | `TypeCorrect` | `TypeOK` |
| PgGenerateProofs | `Scanned` | `ScannedIsTerminal` |
| PgGenerateProofs | `Reported` | `ReportStays` |
| PgGenerateProofs | `Immutable` | `RecordsImmutable` |
| PgGenerateProofs | `OneMergeVerifies` | `VerifiedIsOneMerge` |
| PgGenerateProofs | `VerifiedRecords` | `VerifiedIsRecords` |
| PgGenerateProofs | `Mergeable` | `CompleteIsMergeable` |
| SelectorSnapshotProofs | `OneBuildVerifies` | `VerifiedIsOneBuild` |
| SelectorSnapshotProofs | `QuietForever` | `QuietIsFinal` |

**Model-checked only.** The liveness property, `Ends`: fairness and ENABLED are
out of this prover's reach. What is proved of it is that the steps of a call cannot
go on for ever (`CallsShrink`); that a next step is always there stays with TLC.

## 5. Findings

- **An observation that raises orphans the handle** (`orphan`).
  `materialize_and_observe` discards only if the observation *returns* a failure
  (`materialization.py:928-941`). With an empty campaign E_0 the coverage state
  raises `CoverageIneligibleError`, a `RuntimeError` that the `except` clause at
  892 does not list; the call raises and the live handle has no holder.
- **An ingestion that raises leaves a live state** (`leak`). `replay_state` of
  Mem0, A-Mem and Graphiti registers the state before it ingests; the exception
  leaves with the handle, and `materialize_root` has none to retire, against
  "A failing implementation must retire every handle it created"
  (`materialization.py:169`). In A-Mem and Graphiti the process stays owned and every
  later root is refused. MemOS tears the state down.
- **A build killed between its files blocks all later ones** (`refusal`).
  `build_snapshot` refuses "completed selector snapshot already exists" on the
  first of its three files (`pg_selector_snapshot.py:221`), completed or not.

## 6. Not modelled

- The contents of P/G records and every model call (`process_query`, its
  validators): data, abstracted to "a valid record or an exception".
- Of the scheduler contract: what is declared as flags and enum values that no code
  acts on: the order of roots in a round and when a campaign stops
  (`RootRoundContract`, `ExhaustionContract`), retries, blocks and resumption
  (`RetryContract`), the stages after the witness, the resampling of the unguided
  controller (its selection is any eligible item), named random events and
  information boundaries.
- Of the scores: the RBO arithmetic (a table of distances), and the ablations of
  U-Fuzz, which are flags of `evaluation_contract.py`.
- Of the lineage registry: certifying a fresh entry outside an assembly, which
  accepts any IDs in scope; `Starts` has what assembly and re-binding certify, and
  `LineageIsInherited` is about those. The relation keyword of a replacement.
- Of `observe_materialization`: the check that the borrowed registry still resolves
  the re-binding it came with (`materialization.py:817-834`). Nobody in the model
  changes a registry that is borrowed.
- Of Graphiti: the kinds of failures; a receipt that does not cover the successor is
  one of them.
- Of the adapters: `retrieve` and `observable_state` as the adapters expose them,
  which the materializers do not call; the limits and ranks of the inventories.
- The process-wide locks of Mem0 and MemOS: nothing in the repository starts a
  second thread, and no coroutine suspends while one is held.
- Frozen tables and schemas without state: evaluation, production and
  preprocessing contracts, sidecar, annotation scoring, loaders, structural index
  and mapping. Their constructors check constants and digests in one pass.

Hazards without a property say why in `PROJECT.json`: re-planning with another
number of shards, for one, leaves records that every later validation refuses.

## 7. Plan

Done: materialization, the four backends and the memory they implement, lineage,
the campaign and the trajectory it implements, atomic writes, the P/G pipeline and
the selector snapshot, each checked and, but for liveness, proved; the re-binding
of a caller against the four backends.

Left: a driver in place of the general client of `Campaign`, when the repository has
one; the handles of `Materialization` over `Backends`, as `Rebinding` has its lineage.
