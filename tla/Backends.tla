------------------------------- MODULE Backends -------------------------------
(***************************************************************************)
(* The four back ends behind one protocol object, one profile per process:  *)
(* what holds of handles and of certified content for each of them.         *)
(***************************************************************************)
EXTENDS Mem0Backend, AMemBackend, GraphitiBackend, MemosBackend

Init == \E p \in Profiles : InitWith(p)

Handler(t) ==
  \/ profile = "mem0" /\ Mem0Step(t)
  \/ profile = "a-mem" /\ AMemStep(t)
  \/ profile = "graphiti" /\ GraphitiStep(t)
  \/ profile = "memos" /\ MemosStep(t)

Step(t) == (Handler(t) \/ Discard(t)) /\ UNCHANGED profile

Next == \E t \in Tasks : Step(t)

Spec == Init /\ [][Next]_vars

-----------------------------------------------------------------------------
Stores == UNION {[D -> Rows] : D \in SUBSET Entries}

\* Types of the variables.
TypeOK ==
  /\ profile \in Profiles
  /\ pc \in [Tasks -> Resting \cup {"create", "ingest", "bind", "teardown", "apply", "verify", "evidence"}]
  /\ held \in [Tasks -> States \cup {NoState}]
  /\ \A t \in Tasks : frame[t].handle \in States \cup {NoState} /\ frame[t].art \in Artifacts \cup {NoArtifact}
  /\ steps \in [Tasks -> 0..MaxReplays]
  /\ alive \subseteq States /\ owner \in States \cup {NoState}
  /\ \A s \in States : rows[s] \in Stores /\ context[s] \in Inventories \cup {Unbound}

\* At most one live state in a process of A-Mem, Graphiti or MemOS, and the class-level
\* owner of A-Mem and Graphiti is exactly that state, through every failure.
SingleOwner ==
  /\ profile # "mem0" => Cardinality(alive) <= 1
  /\ profile \in {"a-mem", "graphiti"} => alive = {owner} \ {NoState}

\* A registered state is live and in the hands of exactly one caller, so no second
\* materialization can discard or mutate it.
RegisteredIsHeld ==
  \A s \in States : context[s] # Unbound =>
    s \in alive /\ Cardinality({t \in Tasks : held[t] = s}) = 1

\* A live state nobody can discard exists only if its ingestion raised, and never in
\* MemOS, which tears down what it could not ingest.
LostOnlyByIngest ==
  \A s \in alive : Accounted(s) \/ (profile # "memos" /\ rows[s] = Unbound /\ context[s] = Unbound)

\* Whatever was replayed on it, a live ID carries the provenance of its frozen entry.
ProvenanceKept(s) ==
  \A id \in E0 : certified[s][id] # {} =>
    \E r \in certified[s][id] : context[s][id].src \subseteq r.src

\* As long as no call on a state failed, its physical entries say what its certificates
\* say, through the lineage of each entry, and an ID still has the provenance it was
\* initialized with; Mem0's entity row links live memories only, and A-Mem's collection is
\* still this state's.
CertificateTruth ==
  \A t \in Tasks :
    LET s == held[t] IN
    pc[t] \in {"own", "certified", "observed"} =>
      /\ EveryEntryBound(s)
      /\ Logical(rows[s], lineage[s]) = certified[s]
      /\ ProvenanceKept(s)
      /\ profile = "mem0" => Mem0AuxiliaryOK(s)
      /\ profile = "a-mem" => AMemInventoryOK(s)

\* A certified state behaves as a memory of coverage IDs: transitions change one ID, keep
\* its provenance, and what is deleted stays deleted.
Logic == INSTANCE LogicalMemory WITH memory <- certified
CertifiedMemory == Logic!Spec

\* A deletion certificate is never left behind for a later call: one exists only between
\* the certification and the deletion of the same handler.
TokensAreFresh ==
  \A k \in tokens : \E t \in Tasks :
    held[t] = k.state /\ pc[t] = "apply" /\ frame[t].art.op = "delete" /\ frame[t].pre = k.before

\* The protocol's contract (docstring of materialize_root): "A failing implementation must
\* retire every handle it created".
NoOrphanHandle == \A s \in alive : Accounted(s)
=============================================================================
