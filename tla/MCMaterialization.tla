--------------------------- MODULE MCMaterialization ---------------------------
(***************************************************************************)
(* Bounds: two initialized IDs, two backend entries in two states, paths   *)
(* of at most two artifacts, certificates of one or two affected groups.   *)
(***************************************************************************)
EXTENDS Materialization

CONSTANTS a, b, s1, s2, e1, e2

MCE0      == {a, b}
MCStates  == {s1, s2}
MCEntries == {e1, e2}
MCTokens  == {{a}, {b}, {a, b}}
MCRefs    == [state : MCStates, entry : MCEntries]

In(s) == {r \in MCRefs : r.state = s}
Bind(D) == UNION {[S -> MCTokens] : S \in SUBSET D}

Group(k, p, s) == [kind |-> k, pred |-> p, succ |-> s, upred |-> {}, usucc |-> {}]

MCKinds == {"unchanged_lineage", "same_id_changed", "replaced", "deleted", "merge", "split"}
\* One kind for each one-to-one group: a backend calls a lineage unchanged when the
\* entry stays, replaced when the entry differs, and updated in place only entry e1.
Plausible(g) ==
  g.kind \in OneToOneKinds =>
    \A p \in DOMAIN g.pred, q \in DOMAIN g.succ :
      g.kind = (IF p.entry # q.entry THEN "replaced"
                ELSE IF p.entry = e1 THEN "same_id_changed" ELSE "unchanged_lineage")

GroupsBetween(p, s) ==
  {g \in {Group(k, x, y) : k \in MCKinds, x \in Bind(In(p)), y \in Bind(In(s))} :
     WellFormedGroup(g) /\ Plausible(g)}

GroupSets(p, s) ==
  {G \in {{g, h} : g, h \in GroupsBetween(p, s)} :
     \A g, h \in G : g # h => /\ PredRefs(g) \cap PredRefs(h) = {}
                              /\ SuccRefs(g) \cap SuccRefs(h) = {}}

OutcomeOf(k) == CHOOSE o \in Outcomes : OutcomeKind[o] = k

Cert(i, art, G, t, ok, sc) ==
  [id |-> i, artifact |-> art, status |-> "certified", scope |-> sc,
   outcome |-> OutcomeOf(t.kind), target |-> t, groups |-> G, post |-> ok]

Deleting(s) == Group("deleted", [r \in {[state |-> s, entry |-> e1]} |-> {a}], << >>)
Lost(s) == [kind |-> "otherwise_unresolved", pred |-> << >>, succ |-> << >>,
            upred |-> {[state |-> s, entry |-> e1]}, usucc |-> {}]

\* Lineages two live objects can have here: disjoint or copies of one ID.
Claimable(G) ==
  \A g, h \in G : \A p \in DOMAIN g.pred, q \in DOMAIN h.pred :
    p # q => (g.pred[p] \cap h.pred[q] = {} \/ Cardinality(g.pred[p] \cup h.pred[q]) = 1)

Groupings(from) == {G \in UNION {GroupSets(p, s) : p \in from, s \in MCStates} : Claimable(G)}

\* Everything a backend can certify in these bounds, under the right identities, and
\* one certificate for each way of being refused before its groups are looked at.
MCCertificates ==
  UNION {{Cert(1, 1, G, t, TRUE, "seed") : t \in G} : G \in Groupings({s1})}
  \cup UNION {{Cert(2, 2, G, t, TRUE, "seed") : t \in G} : G \in Groupings(MCStates)}
  \cup {Cert(2, 1, {Deleting(s1)}, Deleting(s1), TRUE, "seed"),
        Cert(1, 2, {Deleting(s1)}, Deleting(s1), TRUE, "seed"),
        Cert(1, 1, {Deleting(s1)}, Deleting(s1), FALSE, "seed"),
        Cert(1, 1, {Deleting(s1)}, Deleting(s1), TRUE, "foreign"),
        [id |-> 1, artifact |-> 1, status |-> "unresolved", scope |-> "seed",
         outcome |-> NoOutcome, target |-> Lost(s1), groups |-> {Lost(s1)}, post |-> FALSE]}

MCAccepted == {<< >>, <<1>>, <<1, 2>>, <<2, 1>>}
MCDescendants ==
  {[bag |-> TokenBag(f), deleted |-> MCE0 \ Ids(f), accepted |-> p, digest |-> d] :
     f \in Bind(In(s1)), p \in MCAccepted, d \in {"expected", "other"}}

IsRoot(f) == /\ \A r \in DOMAIN f : Cardinality(f[r]) = 1
             /\ \A r, q \in DOMAIN f : f[r] = f[q] => r = q
             /\ Ids(f) = MCE0

\* Root re-bindings as their constructor admits them, and a descendant one.
MCRootBindings ==
  {[kind |-> "root", scope |-> "seed", live |-> f, deleted |-> {}] :
     f \in {g \in Bind(In(s1)) \cup Bind(In(s2)) : IsRoot(g)}}
  \cup {[kind |-> "root", scope |-> "foreign", live |-> CHOOSE g \in Bind(In(s1)) : IsRoot(g),
         deleted |-> {}],
        [kind |-> "descendant", scope |-> "seed", deleted |-> {b},
         live |-> [r \in {[state |-> s1, entry |-> e1]} |-> {a}]]}

Artifact1 == [id |-> 1, target |-> {a}, acceptable |-> Outcomes \ {"unchanged"}]
Artifact2 == [id |-> 2, target |-> {b}, acceptable |-> {"deleted", "merged", "same_id"}]

RootState == CHOOSE d \in MCDescendants :
  /\ d.bag = [t \in {{a}, {b}} |-> 1]
  /\ d.accepted = << >> /\ d.digest = "expected"

\* The expected descendants: untouched, one ID deleted, merged, split beside the other
\* lineage, everything deleted.
MCFinals == {<<[t \in {{a}, {b}} |-> 1], {}>>, <<[t \in {{b}} |-> 1], {a}>>,
             <<[t \in {{a, b}} |-> 1], {}>>, <<[t \in {{a}} |-> 2], {b}>>, << << >>, {a, b}>>}

SeedsOf(path, finals) ==
  {[root |-> RootState, path |-> path, final |-> d] :
     d \in {x \in MCDescendants : /\ <<x.bag, x.deleted>> \in finals
                                 /\ x.accepted = [i \in DOMAIN path |-> path[i].id]
                                 /\ x.digest = "expected"}}

MCSeeds == SeedsOf(<< >>, MCFinals) \cup SeedsOf(<<Artifact1>>, MCFinals)
           \cup SeedsOf(<<Artifact1, Artifact2>>, MCFinals)

\* Every path, composed with one good observation.
ReplaySeeds == {s \in MCSeeds : \/ Len(s.path) = 2
                                \/ Len(s.path) = 0 /\ s.final.deleted = {}}
ReplayCalls ==
  [seed : ReplaySeeds, compose : {TRUE}, defect : {"none"}, topKOk : {TRUE},
   coverage : {"contains"}]

\* Seeds of at most one transition; one defective argument at a time.
ObserveSeeds == {s \in MCSeeds : Len(s.path) <= 1 /\ Cardinality(s.final.deleted) < 2}
ObserveCalls ==
  {c \in Arguments : /\ c.seed \in ObserveSeeds
                     /\ c.defect \notin {"none", "other_seed", "other_protocol"} =>
                          c.topKOk /\ c.coverage = "contains"
                     /\ ~c.topKOk => c.coverage = "contains"}

\* Run "materialize": both.
MCCalls == ReplayCalls \cup ObserveCalls

\* Runs "empty" and "orphan": an initialized state without retrieval-eligible entries.
NoIds == {}
EmptyState == [bag |-> << >>, deleted |-> {}, accepted |-> << >>, digest |-> "expected"]
EmptyStates == {EmptyState, [EmptyState EXCEPT !.digest = "other"]}
EmptySeeds == {[root |-> EmptyState, path |-> << >>, final |-> EmptyState]}
EmptyRoots == {[kind |-> "root", scope |-> "seed", live |-> << >>, deleted |-> {}]}
EmptyCalls ==
  {c \in Arguments : c.defect \notin {"none", "other_seed", "other_protocol"} =>
                       c.topKOk /\ c.coverage = "contains"}
OrphanCalls == {c \in EmptyCalls : c.compose /\ c.topKOk}
=============================================================================
