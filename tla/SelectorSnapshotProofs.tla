------------------------ MODULE SelectorSnapshotProofs ------------------------
(***************************************************************************)
(* That verified snapshot files are of one build, and that a snapshot is    *)
(* final once no build is under way: for any number of builds and any       *)
(* selections.                                                              *)
(***************************************************************************)
EXTENDS SelectorSnapshot, TLAPS

\* What SHA256SUMS lists was written together: the manifest describes the snapshot.
SummedTogether == sums # None => sums.manifest.snapshot = sums.snapshot

LEMMA NextSummedTogether == SummedTogether /\ [Next]_vars => SummedTogether'
<1> SUFFICES ASSUME SummedTogether, [Next]_vars PROVE SummedTogether'
  OBVIOUS
<1>1. CASE UNCHANGED sums
  BY <1>1 DEF SummedTogether
<1>2. ASSUME NEW b \in Build, WriteSums(b) PROVE SummedTogether'
  BY <1>2 DEF SummedTogether, WriteSums, ManifestOf
<1>3. \/ UNCHANGED sums
      \/ \E b \in Build : WriteSums(b)
  BY DEF Next, vars, files, Check, Select, WriteSnapshot, WriteManifest, Die
<1> QED
  BY <1>1, <1>2, <1>3

\* Files that SHA256SUMS verifies were written by one build, however builds overlap and
\* die: VerifiedIsOneBuild.
THEOREM OneBuildVerifies == Spec => []VerifiedIsOneBuild
<1>1. Init => SummedTogether
  BY DEF Init, SummedTogether
<1>2. SummedTogether => VerifiedIsOneBuild
  BY DEF SummedTogether, VerifiedIsOneBuild, Verifies
<1> QED
  BY <1>1, <1>2, NextSummedTogether, PTL DEF Spec

\* No build is under way and s is on disk.
Quiet(s) == Working = {} /\ snapshot = s

\* A build that starts on a snapshot is refused, so nothing is under way again.
LEMMA QuietStays ==
  ASSUME NEW s \in Selections
  PROVE  Quiet(s) /\ [Next]_vars => Quiet(s)'
<1> SUFFICES ASSUME Quiet(s), [Next]_vars PROVE Quiet(s)'
  OBVIOUS
<1>1. snapshot # None
  BY NoneAssumption DEF Quiet
<1>2. \A b \in Build : pc[b] \notin {"select", "snapshot", "manifest", "sums"}
  BY DEF Quiet, Working
<1>3. CASE UNCHANGED vars
  BY <1>3 DEF Quiet, Working, vars, files
<1>4. ASSUME NEW b \in Build, Check(b) PROVE Quiet(s)'
  <2>1. pc' = [pc EXCEPT ![b] = "refused"] /\ snapshot' = s
    BY <1>1, <1>4 DEF Check, Go, files, Quiet
  <2>2. \A c \in Build : pc'[c] \notin {"select", "snapshot", "manifest", "sums"}
    BY <1>2, <2>1
  <2> QED
    BY <2>1, <2>2 DEF Quiet, Working
<1>5. ASSUME NEW b \in Build
      PROVE  ~(Select(b) \/ WriteSnapshot(b) \/ WriteManifest(b) \/ WriteSums(b) \/ Die(b))
  BY <1>2 DEF Select, WriteSnapshot, WriteManifest, WriteSums, Die, Go, Working
<1> QED
  BY <1>3, <1>4, <1>5 DEF Next

\* A snapshot on disk while no build is under way is never replaced: QuietIsFinal.
THEOREM QuietForever == Spec => QuietIsFinal
<1> SUFFICES ASSUME NEW s \in Selections
             PROVE  Spec => [](Working = {} /\ snapshot = s => [](snapshot = s))
  BY DEF QuietIsFinal
<1>1. Quiet(s) /\ [Next]_vars => Quiet(s)'
  BY QuietStays
<1>2. Quiet(s) <=> Working = {} /\ snapshot = s
  BY DEF Quiet
<1> QED
  BY <1>1, <1>2, PTL DEF Spec
=============================================================================
