---------------------------- MODULE SelectorSnapshot ----------------------------
(***************************************************************************)
(* pg_selector_snapshot.py build_snapshot: every build is an invocation of *)
(* its own, hours long, that may overlap others and may die at any step (a *)
(* kill, a service or I/O error).  Every write is one _atomic_write (module*)
(* AtomicWrite).                                                           *)
(***************************************************************************)
EXTENDS Naturals

CONSTANTS Build,       \* invocations; a build's manifest holds its timestamps
          Selections,  \* snapshots the embedding service can lead to
          None

ASSUME NoneAssumption == None \notin Selections \cup Build

VARIABLES
  snapshot,  \* selector-snapshot.jsonl
  manifest,  \* selector-manifest.json
  sums,      \* SHA256SUMS
  pc,        \* where each build is
  selected   \* the records a build has selected and validated

vars == <<snapshot, manifest, sums, pc, selected>>
files == <<snapshot, manifest, sums>>

Init ==
  /\ snapshot = None /\ manifest = None /\ sums = None
  /\ pc = [b \in Build |-> "new"]
  /\ selected = [b \in Build |-> None]

Go(b, from, to) == pc[b] = from /\ pc' = [pc EXCEPT ![b] = to]

ManifestOf(b) == [build |-> b, snapshot |-> selected[b]]

\* Mutant: look for the file written last
MutCheckSums(b) ==
  /\ Go(b, "new", IF sums # None THEN "refused" ELSE "select")
  /\ UNCHANGED <<files, selected>>

Check(b) ==
  /\ Go(b, "new", IF snapshot # None THEN "refused" ELSE "select")
  /\ UNCHANGED <<files, selected>>

\* select every query, validate_snapshot_records
Select(b) ==
  /\ Go(b, "select", "snapshot")
  /\ \E s \in Selections : selected' = [selected EXCEPT ![b] = s]
  /\ UNCHANGED files

WriteSnapshot(b) ==
  /\ Go(b, "snapshot", "manifest")
  /\ snapshot' = selected[b]
  /\ UNCHANGED <<manifest, sums, selected>>

WriteManifest(b) ==
  /\ Go(b, "manifest", "sums")
  /\ manifest' = ManifestOf(b)
  /\ UNCHANGED <<snapshot, sums, selected>>

\* Mutant: digest the files instead of the bytes written
MutWriteSumsReread(b) ==
  /\ Go(b, "sums", "done")
  /\ sums' = [snapshot |-> snapshot, manifest |-> manifest]
  /\ UNCHANGED <<snapshot, manifest, selected>>

WriteSums(b) ==
  /\ Go(b, "sums", "done")
  /\ sums' = [snapshot |-> selected[b], manifest |-> ManifestOf(b)]
  /\ UNCHANGED <<snapshot, manifest, selected>>

Working == {b \in Build : pc[b] \in {"select", "snapshot", "manifest", "sums"}}

Die(b) ==
  /\ b \in Working
  /\ pc' = [pc EXCEPT ![b] = "dead"]
  /\ UNCHANGED <<files, selected>>

Next ==
  \E b \in Build :
    \/ Check(b) \/ Select(b)
    \/ WriteSnapshot(b) \/ WriteManifest(b) \/ WriteSums(b)
    \/ Die(b)

Spec == Init /\ [][Next]_vars

--------------------------------------------------------------------------------
(* Properties *)

Verifies == sums # None /\ sums = [snapshot |-> snapshot, manifest |-> manifest]

Complete == snapshot # None /\ manifest # None /\ sums # None

\* However builds overlap and die, files that SHA256SUMS verifies were written
\* by one build: the manifest describes the snapshot beside it.
VerifiedIsOneBuild == Verifies => manifest.snapshot = snapshot

\* A snapshot on disk while no build is under way is final, completed or not
\* ("regeneration is forbidden"): what FrozenSelectorSnapshot binds by digest
\* cannot be drawn from under it by a later build.
QuietIsFinal ==
  \A s \in Selections :
    [](Working = {} /\ snapshot = s => [](snapshot = s))

\* build_snapshot refuses with "completed selector snapshot already exists",
\* README: "fails if a completed snapshot already exists": a refused build found
\* one, or one being finished.
RefusalIsComplete ==
  (\E b \in Build : pc[b] = "refused") /\ Working = {} => Complete
================================================================================
