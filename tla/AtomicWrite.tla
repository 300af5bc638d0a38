------------------------------ MODULE AtomicWrite -------------------------------
(***************************************************************************)
(* pg_generate.atomic_write (the same function is in                       *)
(* pg_selector_snapshot): a temporary is written and synced, renamed over  *)
(* the path, and the directory is synced.  Calls race on one path; each    *)
(* may raise or be killed anywhere, and the machine may lose power.        *)
(*                                                                         *)
(* The file system is external: it keeps a cached and a durable copy of    *)
(* every file's bytes and of the directory, may flush either at any time,  *)
(* keeps directory changes in order, and has the directory itself durable. *)
(* A call writes its own value, so a call names its value and its file.    *)
(***************************************************************************)
EXTENDS Integers, Sequences

CONSTANTS Calls, \* calls of atomic_write on the path, one value each
          Torn   \* what a reader sees of a file that is not complete

ASSUME TornAssumption == Torn \notin Calls

VARIABLES
  pc,      \* where each call is in atomic_write
  temps,   \* temporaries the calls have beside the path (not tracked: those
           \* a power loss brings back, a rename or an unlink undone)
  cached,  \* bytes of each call's file a reader would see
  synced,  \* bytes of it that survive a power loss
  entry,   \* files the path has named, the last one now
  flushed  \* how many of those changes of the directory are durable

vars == <<pc, temps, cached, synced, entry, flushed>>

Bytes == {"none", "part", "whole"}

Running == {"temporary", "written", "fsynced", "replaced", "published"}

Init ==
  /\ pc = [c \in Calls |-> "start"]
  /\ temps = {}
  /\ cached = [c \in Calls |-> "none"]
  /\ synced = [c \in Calls |-> "none"]
  /\ entry = <<>>
  /\ flushed = 0

Moves(c, from, to) ==
  /\ pc[c] = from
  /\ pc' = [pc EXCEPT ![c] = to]

MkTemp(c) ==
  /\ Moves(c, "start", "temporary")
  /\ temps' = temps \cup {c}
  /\ cached' = [cached EXCEPT ![c] = "part"]
  /\ UNCHANGED <<synced, entry, flushed>>

WriteFlush(c) ==
  /\ Moves(c, "temporary", "written")
  /\ cached' = [cached EXCEPT ![c] = "whole"]
  /\ UNCHANGED <<temps, synced, entry, flushed>>

FsyncFile(c) ==
  /\ Moves(c, "written", "fsynced")
  /\ synced' = [synced EXCEPT ![c] = cached[c]]
  /\ UNCHANGED <<temps, cached, entry, flushed>>

\* Mutant: the rename does not wait for the bytes to be synced
MutReplaceUnsynced(c) ==
  /\ Moves(c, "written", "replaced")
  /\ temps' = temps \ {c}
  /\ entry' = Append(entry, c)
  /\ UNCHANGED <<cached, synced, flushed>>

Replace(c) ==
  /\ Moves(c, "fsynced", "replaced")
  /\ temps' = temps \ {c}
  /\ entry' = Append(entry, c)
  /\ UNCHANGED <<cached, synced, flushed>>

FsyncDirectory(c) ==
  /\ Moves(c, "replaced", "published")
  /\ flushed' = Len(entry)
  /\ UNCHANGED <<temps, cached, synced, entry>>

Return(c) ==
  /\ Moves(c, "published", "returned")
  /\ UNCHANGED <<temps, cached, synced, entry, flushed>>

\* Mutant: the temporary is unlinked only while it is being written
MutRaiseLitters(c) ==
  /\ pc[c] \in Running
  /\ pc' = [pc EXCEPT ![c] = "raised"]
  /\ temps' = IF pc[c] = "temporary" THEN temps \ {c} ELSE temps
  /\ UNCHANGED <<cached, synced, entry, flushed>>

\* except BaseException: the temporary is unlinked if it still exists
Raise(c) ==
  /\ pc[c] \in Running
  /\ pc' = [pc EXCEPT ![c] = "raised"]
  /\ temps' = temps \ {c}
  /\ UNCHANGED <<cached, synced, entry, flushed>>

Kill(c) ==
  /\ pc[c] \in Running
  /\ pc' = [pc EXCEPT ![c] = "killed"]
  /\ UNCHANGED <<temps, cached, synced, entry, flushed>>

FlushFile(c) ==
  /\ synced' = [synced EXCEPT ![c] = cached[c]]
  /\ UNCHANGED <<pc, temps, cached, entry, flushed>>

FlushDirectory ==
  /\ flushed' = Len(entry)
  /\ UNCHANGED <<pc, temps, cached, synced, entry>>

PowerLoss ==
  /\ pc' = [c \in Calls |-> IF pc[c] \in Running THEN "killed" ELSE pc[c]]
  /\ cached' = synced
  /\ entry' = SubSeq(entry, 1, flushed)
  /\ UNCHANGED <<temps, synced, flushed>>

Call(c) ==
  \/ MkTemp(c) \/ WriteFlush(c) \/ FsyncFile(c) \/ Replace(c)
  \/ FsyncDirectory(c) \/ Return(c) \/ Raise(c)

Environment(c) == Kill(c) \/ FlushFile(c)

Next == \/ \E c \in Calls : Call(c) \/ Environment(c)
        \/ FlushDirectory
        \/ PowerLoss

Spec == Init /\ [][Next]_vars

--------------------------------------------------------------------------------

TypeOK ==
  /\ pc \in [Calls -> Running \cup {"start", "returned", "raised", "killed"}]
  /\ temps \subseteq Calls
  /\ cached \in [Calls -> Bytes]
  /\ synced \in [Calls -> Bytes]
  /\ entry \in Seq(Calls)
  /\ flushed \in 0..Len(entry)

\* What a reader makes of the i-th file the path has named
Seen(i) == IF cached[entry[i]] = "whole" THEN entry[i] ELSE Torn

Cell == INSTANCE AtomicCell
          WITH Values <- Calls,
               log <- [i \in DOMAIN entry |-> Seen(i)],
               stable <- flushed,
               acked <- {c \in Calls : pc[c] = "returned"}

\* atomic_write implements the atomic cell: whatever is raised, killed, raced
\* or lost, a reader finds one complete value, and what a call returned for is
\* superseded at most, never lost (README: "Each query is written atomically").
CellSpec == Cell!Spec

\* Only a killed call leaves litter: whatever it raised and wherever, a call
\* that ends on its own has renamed or unlinked its temporary (except clause).
\* What a power loss brings back is not counted.
LitterOnlyFromKills ==
  \A c \in temps : pc[c] \in {"temporary", "written", "fsynced", "killed"}
================================================================================
