------------------------------- MODULE Lineage --------------------------------
(***************************************************************************)
(* InitialEntryLineage: one campaign's registry from physical entries to    *)
(* frozen coverage IDs, as its callers change it while they update,         *)
(* replace, merge and delete backend objects, and the retrievals resolved   *)
(* through it into the campaign's coverage.                                 *)
(*                                                                          *)
(* A call that raises changes nothing: its checks are the guard.  Reasons   *)
(* of failures, backend IDs and projections are left out; a physical entry  *)
(* is a value with a root checkpoint, or none when it belongs to another    *)
(* campaign.                                                                *)
(***************************************************************************)
EXTENDS Coverage

CONSTANTS Roots,      \* root checkpoints of the campaign
          Inventory,  \* root -> its frozen coverage IDs
          Refs,       \* physical entries
          RootOf,     \* physical entry -> its root checkpoint, or Foreign
          Starts,     \* live bindings a registry is built with: entry -> coverage token
          MaxRank,    \* longest ranking
          Foreign

E0 == UNION {Inventory[r] : r \in Roots}

ASSUME InventoryAssumption ==
  /\ Inventory \in [Roots -> SUBSET E0]
  /\ \A r, q \in Roots : r # q => Inventory[r] \cap Inventory[q] = {}
ASSUME RefAssumption == RootOf \in [Refs -> Roots \cup {Foreign}] /\ Foreign \notin Roots

\* Live bindings of an assembled campaign or of a replay re-binding: tokens of the
\* entry's own checkpoint.
ASSUME StartAssumption ==
  \A f \in Starts :
    /\ DOMAIN f \subseteq Refs
    /\ \A r \in DOMAIN f : RootOf[r] \in Roots /\ f[r] \in (SUBSET Inventory[RootOf[r]]) \ {{}}

VARIABLES start,     \* the live bindings the registry was built with
          bindings,  \* _bindings: entry -> lineage result
          deleted,   \* _deleted
          seen,      \* entries of valid retrievals
          reached    \* reached_ids of the campaign's coverage

vars == <<start, bindings, deleted, seen, reached>>

Relations == {"initial", "same_id_update", "replacement_update", "certified_merge", "unknown"}
Failed == {"inapplicable", "capability_failure"}

Certified(ids, relation) == [ids |-> ids, relation |-> relation, status |-> "certified"]
Unresolved(relation, status) == [ids |-> {}, relation |-> relation, status |-> status]

\* assemble_campaign_coverage certifies single IDs as initial; build_rebound_lineage also
\* certifies the merged tokens of a descendant.
Built(f) ==
  [r \in DOMAIN f |->
     Certified(f[r], IF Cardinality(f[r]) > 1 THEN "certified_merge" ELSE "initial")]

Init ==
  /\ start \in Starts
  /\ bindings = Built(start)
  /\ deleted = {} /\ seen = {} /\ reached = {}

-----------------------------------------------------------------------------
InCampaign(r) == RootOf[r] # Foreign

\* Mutant: any recorded result resolves.
MutResolves(r) == InCampaign(r) /\ r \in DOMAIN bindings

\* resolve, where it does not raise.
Resolves(r) == InCampaign(r) /\ r \in DOMAIN bindings /\ bindings[r].status = "certified"

Bind(r, binding) ==
  bindings' = [q \in DOMAIN bindings \cup {r} |-> IF q = r THEN binding ELSE bindings[q]]

\* _validate_scope.
InScope(r, ids) == InCampaign(r) /\ ids # {} /\ ids \subseteq Inventory[RootOf[r]]

\* Mutants: a different earlier result is overwritten; lineage may cross checkpoints.
MutCertifyOver(r, ids, relation) == InScope(r, ids) /\ Bind(r, Certified(ids, relation))
MutCertifyAcross(r, ids, relation) ==
  /\ InCampaign(r) /\ ids # {} /\ ids \subseteq E0
  /\ r \in DOMAIN bindings => bindings[r] = Certified(ids, relation)
  /\ Bind(r, Certified(ids, relation))

\* certify_binding: the same result again is accepted, another one is refused.
CertifyBinding(r, ids, relation) ==
  /\ InScope(r, ids)
  /\ r \in DOMAIN bindings => bindings[r] = Certified(ids, relation)
  /\ Bind(r, Certified(ids, relation))

\* The binding an assembly or re-binding made, once more: refused after an update in place.
CertifyAgain(r) ==
  /\ r \in DOMAIN start
  /\ CertifyBinding(r, start[r], Built(start)[r].relation)
  /\ UNCHANGED <<start, deleted, seen, reached>>

\* certify_same_id_update, called for a certified update of one backend object.
SameIdUpdate(r) ==
  /\ Resolves(r)
  /\ Bind(r, Certified(bindings[r].ids, "same_id_update"))
  /\ UNCHANGED <<start, deleted, seen, reached>>

Replace(old, new) ==
  /\ Resolves(old)
  /\ CertifyBinding(new, bindings[old].ids, "replacement_update")
  /\ UNCHANGED <<start, deleted, seen, reached>>

Merge(sources, merged) ==
  /\ sources # {} /\ \A r \in sources : Resolves(r)
  /\ CertifyBinding(merged, UNION {bindings[r].ids : r \in sources}, "certified_merge")
  /\ UNCHANGED <<start, deleted, seen, reached>>

MarkUncertifiable(r, status) ==
  /\ InCampaign(r)
  /\ r \notin DOMAIN bindings
  /\ Bind(r, Unresolved("unknown", status))
  /\ UNCHANGED <<start, deleted, seen, reached>>

\* Mutant: deletion drops the lineage.
MutMarkDeleted(r) ==
  /\ Resolves(r)
  /\ deleted' = deleted \cup {r}
  /\ bindings' = [q \in DOMAIN bindings \ {r} |-> bindings[q]]
  /\ UNCHANGED <<start, seen, reached>>

\* mark_deleted: the lineage stays.
MarkDeleted(r) ==
  /\ Resolves(r)
  /\ deleted' = deleted \cup {r}
  /\ UNCHANGED <<start, bindings, seen, reached>>

\* resolve_fuzzing_retrieval: one entry without certified lineage refuses the whole
\* ranking; the campaign adopts the update.
Retrieve(ranked) ==
  LET ranking == [i \in DOMAIN ranked |-> bindings[ranked[i]].ids]
  IN /\ \A i \in DOMAIN ranked : Resolves(ranked[i])
     /\ Observable(E0, ranking)
     /\ reached' = Observed(E0, reached, ranking).state
     /\ seen' = seen \cup {ranked[i] : i \in DOMAIN ranked}
     /\ UNCHANGED <<start, bindings, deleted>>

\* RankedPhysicalRetrieval: distinct entries of one state.
Rankings == {ranked \in UNION {[1..n -> Refs] : n \in 0..MaxRank} :
               \A i, j \in DOMAIN ranked : /\ RootOf[ranked[i]] = RootOf[ranked[j]]
                                           /\ ranked[i] = ranked[j] => i = j}

Next ==
  \/ \E r \in Refs : CertifyAgain(r) \/ SameIdUpdate(r) \/ MarkDeleted(r)
  \/ \E r, q \in Refs : Replace(r, q)
  \/ \E sources \in SUBSET Refs, r \in Refs : Merge(sources, r)
  \/ \E r \in Refs, status \in Failed : MarkUncertifiable(r, status)
  \/ \E ranked \in Rankings : Retrieve(ranked)

Spec == Init /\ [][Next]_vars

-----------------------------------------------------------------------------
\* A lineage result is certified with IDs or failed without any (LineageBinding).
TypeOK ==
  /\ start \in Starts
  /\ DOMAIN bindings \subseteq Refs
  /\ \A r \in DOMAIN bindings :
       /\ bindings[r].relation \in Relations
       /\ \/ bindings[r].status = "certified" /\ bindings[r].ids \in (SUBSET E0) \ {{}}
          \/ bindings[r].status \in Failed /\ bindings[r].ids = {}
  /\ deleted \subseteq Refs /\ seen \subseteq Refs
  /\ reached \subseteq E0

\* Whatever is updated, replaced, merged or deleted later, the lineage of an entry is
\* certified once: its IDs never change and no entry changes between certified and not.
LineageIsForever ==
  [][\A r \in DOMAIN bindings : /\ r \in DOMAIN bindings'
                                /\ bindings'[r].ids = bindings[r].ids
                                /\ bindings'[r].status = bindings[r].status]_vars

\* Lineage is inherited, never invented: an entry's IDs are those of entries its own
\* checkpoint began with, however long the chain of replacements and merges between them.
LineageIsInherited ==
  \A r \in DOMAIN bindings : \A id \in bindings[r].ids :
    \E q \in DOMAIN start : /\ RootOf[q] = RootOf[r]
                            /\ id \in start[q] /\ start[q] \subseteq bindings[r].ids

\* Coverage is what the entries retrieved so far stand for today: nothing certified after
\* a retrieval, the deletion of a retrieved entry included, adds to or takes from it.
ReachedIsSeen ==
  /\ seen \subseteq DOMAIN bindings
  /\ reached = UNION {bindings[r].ids : r \in seen}
=============================================================================
