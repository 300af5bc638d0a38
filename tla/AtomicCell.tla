------------------------------- MODULE AtomicCell -------------------------------
(***************************************************************************)
(* What pg_generate.atomic_write promises of one path, free of files and   *)
(* caches: the path goes from one complete value to the next, a power loss *)
(* takes back the newest ones only, and never one that was acknowledged.   *)
(***************************************************************************)
EXTENDS Integers, Sequences

CONSTANT Values

VARIABLES
  log,    \* the complete values the path has had, the last one visible
  stable, \* how many of them would survive a power loss
  acked   \* values whose writer was told it is done

cellVars == <<log, stable, acked>>

Init ==
  /\ log = <<>>
  /\ stable = 0
  /\ acked = {}

Set(v) ==
  /\ log' = Append(log, v)
  /\ UNCHANGED <<stable, acked>>

Settle ==
  /\ stable' = Len(log)
  /\ UNCHANGED <<log, acked>>

Ack(v) ==
  /\ \E i \in 1..stable : log[i] = v
  /\ acked' = acked \cup {v}
  /\ UNCHANGED <<log, stable>>

Lose ==
  /\ log' = SubSeq(log, 1, stable)
  /\ UNCHANGED <<stable, acked>>

Next == \/ \E v \in Values : Set(v) \/ Ack(v)
        \/ Settle
        \/ Lose

Spec == Init /\ [][Next]_cellVars

\* What a writer was told is done would survive a power loss.
AckedIsDurable == \A v \in acked : \E i \in 1..stable : log[i] = v

\* What would survive a power loss once survives them all, in its place.
KeepsDurable == \A i \in 1..stable : i \in 1..stable' /\ log'[i] = log[i]
DurableStays == [][KeepsDurable]_cellVars
================================================================================
