---------------------------- MODULE AtomicWriteProofs ---------------------------
(***************************************************************************)
(* atomic_write implements the atomic cell, for any number of racing calls.*)
(* The invariant says that a file is renamed over the path only once its   *)
(* bytes are synced, so that a power loss can take back directory entries  *)
(* but never leave one that names an incomplete file.                      *)
(***************************************************************************)
EXTENDS AtomicWrite, TLAPS

\* what each position of atomic_write has already secured
Secured ==
  \A c \in Calls :
    /\ pc[c] \in {"written", "fsynced", "replaced", "published", "returned"}
         => cached[c] = "whole"
    /\ pc[c] \in {"fsynced", "replaced", "published", "returned"}
         => synced[c] = "whole"
    /\ pc[c] = "replaced" => \E i \in 1..Len(entry) : entry[i] = c
    /\ pc[c] \in {"published", "returned"} => \E i \in 1..flushed : entry[i] = c

\* every file the path has named is complete, and its writer is past the rename
Complete ==
  \A i \in 1..Len(entry) :
    /\ synced[entry[i]] = "whole"
    /\ cached[entry[i]] = "whole"
    /\ pc[entry[i]] \in {"replaced", "published", "returned", "raised", "killed"}

IInv == TypeOK /\ LitterOnlyFromKills /\ Secured /\ Complete

LEMMA InitIInv == Init => IInv
  BY DEF Init, IInv, TypeOK, LitterOnlyFromKills, Secured, Complete, Bytes, Running

LEMMA NextIInv == IInv /\ [Next]_vars => IInv'
<1> SUFFICES ASSUME IInv, [Next]_vars PROVE IInv'
  OBVIOUS
<1> USE DEF IInv, TypeOK, LitterOnlyFromKills, Secured, Complete, Bytes, Running, Moves
<1>1. ASSUME NEW c \in Calls, MkTemp(c) PROVE IInv'
  BY <1>1 DEF MkTemp
<1>2. ASSUME NEW c \in Calls, WriteFlush(c) PROVE IInv'
  BY <1>2 DEF WriteFlush
<1>3. ASSUME NEW c \in Calls, FsyncFile(c) PROVE IInv'
  BY <1>3 DEF FsyncFile
<1>4. ASSUME NEW c \in Calls, Replace(c) PROVE IInv'
  BY <1>4 DEF Replace
<1>5. ASSUME NEW c \in Calls, FsyncDirectory(c) PROVE IInv'
  BY <1>5 DEF FsyncDirectory
<1>6. ASSUME NEW c \in Calls, Return(c) PROVE IInv'
  BY <1>6 DEF Return
<1>7. ASSUME NEW c \in Calls, Raise(c) PROVE IInv'
  BY <1>7 DEF Raise
<1>8. ASSUME NEW c \in Calls, Environment(c) PROVE IInv'
  BY <1>8 DEF Environment, Kill, FlushFile
<1>9. CASE FlushDirectory
  BY <1>9 DEF FlushDirectory
<1>10. CASE PowerLoss
  BY <1>10 DEF PowerLoss
<1>11. CASE UNCHANGED vars
  BY <1>11 DEF vars
<1> QED
  BY <1>1, <1>2, <1>3, <1>4, <1>5, <1>6, <1>7, <1>8, <1>9, <1>10, <1>11 DEF Next, Call

LEMMA AlwaysIInv == Spec => []IInv
  BY InitIInv, NextIInv, PTL DEF Spec

\* Only a killed call leaves a temporary behind (the except clause of
\* atomic_write).
THEOREM KillsOnlyLitter == Spec => []LitterOnlyFromKills
<1>1. IInv => LitterOnlyFromKills
  BY DEF IInv
<1> QED
  BY <1>1, AlwaysIInv, PTL

\* What a reader sees of the path is the files themselves, never a torn one.
LEMMA SeenIsEntry ==
  ASSUME NEW e \in Seq(Calls), NEW b \in [Calls -> Bytes],
         \A i \in 1..Len(e) : b[e[i]] = "whole"
  PROVE  [i \in DOMAIN e |-> IF b[e[i]] = "whole" THEN e[i] ELSE Torn] = e
<1>1. DOMAIN e = 1..Len(e) /\ e = [i \in DOMAIN e |-> e[i]]
  OBVIOUS
<1>2. \A i \in DOMAIN e : (IF b[e[i]] = "whole" THEN e[i] ELSE Torn) = e[i]
  BY <1>1
<1> QED
  BY <1>1, <1>2, Zenon

--------------------------------------------------------------------------------

\* atomic_write implements the atomic cell.
THEOREM Implements == Spec => CellSpec
<1>1. Init => Cell!Init
  BY DEF Init, Cell!Init
<1>2. IInv /\ IInv' /\ [Next]_vars => [Cell!Next]_(Cell!cellVars)
  <2> SUFFICES ASSUME IInv, IInv', [Next]_vars PROVE [Cell!Next]_(Cell!cellVars)
    OBVIOUS
  <2> DEFINE log == [i \in DOMAIN entry |-> Seen(i)]
             acked == {c \in Calls : pc[c] = "returned"}
  <2> USE DEF IInv, TypeOK, Complete
  <2>1. log = entry
    BY SeenIsEntry DEF Seen
  <2>2. log' = entry'
    BY SeenIsEntry DEF Seen
  <2> HIDE DEF log
  <2> USE DEF Moves, Running
  <2>3. ASSUME NEW c \in Calls, Replace(c) PROVE Cell!Set(c)
    <3>1. log' = Append(log, c)
      BY <2>1, <2>2, <2>3 DEF Replace
    <3>2. acked' = acked /\ flushed' = flushed
      BY <2>3 DEF Replace
    <3> QED
      BY <3>1, <3>2 DEF Cell!Set, log
  <2>4. ASSUME NEW c \in Calls, FsyncDirectory(c) PROVE Cell!Settle
    <3>1. flushed' = Len(log) /\ log' = log /\ acked' = acked
      BY <2>1, <2>2, <2>4 DEF FsyncDirectory
    <3> QED
      BY <3>1 DEF Cell!Settle, log
  <2>5. ASSUME NEW c \in Calls, Return(c) PROVE Cell!Ack(c)
    <3>1. \E i \in 1..flushed : log[i] = c
      BY <2>1, <2>5 DEF Return, Secured
    <3>2. log' = log /\ flushed' = flushed /\ acked' = acked \cup {c}
      BY <2>1, <2>2, <2>5 DEF Return
    <3> QED
      BY <3>1, <3>2 DEF Cell!Ack, log
  <2>6. CASE FlushDirectory
    <3>1. flushed' = Len(log) /\ log' = log /\ acked' = acked
      BY <2>1, <2>2, <2>6 DEF FlushDirectory
    <3> QED
      BY <3>1 DEF Cell!Next, Cell!Settle, log
  <2>7. CASE PowerLoss
    <3>1. log' = SubSeq(log, 1, flushed) /\ flushed' = flushed
      BY <2>1, <2>2, <2>7 DEF PowerLoss
    <3>2. acked' = acked
      BY <2>7 DEF PowerLoss
    <3> QED
      BY <3>1, <3>2 DEF Cell!Next, Cell!Lose, log
  <2>8. ASSUME entry' = entry, flushed' = flushed, acked' = acked
        PROVE  UNCHANGED Cell!cellVars
    BY <2>1, <2>2, <2>8 DEF Cell!cellVars, log
  <2>9. ASSUME NEW c \in Calls, \/ MkTemp(c) \/ WriteFlush(c) \/ FsyncFile(c)
                                \/ Raise(c) \/ Environment(c)
        PROVE  UNCHANGED Cell!cellVars
    <3>1. entry' = entry /\ flushed' = flushed
      BY <2>9 DEF MkTemp, WriteFlush, FsyncFile, Raise, Environment, Kill, FlushFile
    <3>2. acked' = acked
      BY <2>9 DEF MkTemp, WriteFlush, FsyncFile, Raise, Environment, Kill, FlushFile
    <3> QED
      BY <2>8, <3>1, <3>2
  <2>10. CASE UNCHANGED vars
    BY <2>8, <2>10 DEF vars
  <2> QED
    BY <2>3, <2>4, <2>5, <2>6, <2>7, <2>9, <2>10 DEF Next, Call, Cell!Next
<1> QED
  BY <1>1, <1>2, AlwaysIInv, PTL DEF Spec, CellSpec, Cell!Spec

\* So what a call returned for is on disk, and stays there as one of the values the path
\* has had: for any number of calls, through every kill and power loss after it.
THEOREM AcknowledgedForever == Spec => []Cell!AckedIsDurable /\ Cell!DurableStays
<1>1. IInv => Cell!AckedIsDurable
  <2> SUFFICES ASSUME IInv, NEW c \in Calls, pc[c] = "returned"
               PROVE  \E i \in 1..flushed : [j \in DOMAIN entry |-> Seen(j)][i] = c
    BY DEF Cell!AckedIsDurable
  <2>1. [j \in DOMAIN entry |-> Seen(j)] = entry
    BY SeenIsEntry DEF Seen, IInv, TypeOK, Complete
  <2> QED
    BY <2>1 DEF IInv, Secured
<1>2. ASSUME IInv, IInv', [Next]_vars, NEW i \in 1..flushed
      PROVE  /\ i \in 1..flushed'
             /\ [j \in DOMAIN entry |-> Seen(j)]'[i] = [j \in DOMAIN entry |-> Seen(j)][i]
  <2>1. /\ [j \in DOMAIN entry |-> Seen(j)] = entry
        /\ [j \in DOMAIN entry |-> Seen(j)]' = entry'
    BY <1>2, SeenIsEntry DEF Seen, IInv, TypeOK, Complete
  <2>2. entry \in Seq(Calls) /\ flushed \in 0..Len(entry)
    BY <1>2 DEF IInv, TypeOK
  <2>3. i \in 1..flushed' /\ entry'[i] = entry[i]
    <3>1. ASSUME NEW c \in Calls, Replace(c) PROVE flushed' = flushed /\ entry'[i] = entry[i]
      BY <1>2, <2>2, <3>1 DEF Replace
    <3>2. CASE FlushDirectory \/ \E c \in Calls : FsyncDirectory(c)
      BY <1>2, <2>2, <3>2 DEF FlushDirectory, FsyncDirectory
    <3>3. CASE PowerLoss
      BY <1>2, <2>2, <3>3 DEF PowerLoss
    <3>4. ASSUME NEW c \in Calls,
                 \/ MkTemp(c) \/ WriteFlush(c) \/ FsyncFile(c)
                 \/ Return(c) \/ Raise(c) \/ Environment(c)
          PROVE  UNCHANGED <<entry, flushed>>
      BY <3>4 DEF MkTemp, WriteFlush, FsyncFile, Return, Raise, Environment, Kill, FlushFile
    <3>5. CASE UNCHANGED vars
      BY <1>2, <3>5 DEF vars
    <3> QED
      BY <1>2, <3>1, <3>2, <3>3, <3>4, <3>5 DEF Next, Call
  <2> QED
    BY <2>1, <2>3
<1>3. IInv /\ IInv' /\ [Next]_vars => [Cell!KeepsDurable]_(Cell!cellVars)
  BY <1>2 DEF Cell!KeepsDurable
<1> QED
  BY <1>1, <1>3, AlwaysIInv, PTL DEF Spec, Cell!DurableStays
================================================================================
