---------------------------- MODULE LineageProofs -----------------------------
(***************************************************************************)
(* The registry's invariants and its action property, for every campaign    *)
(* and every length of ranking.                                             *)
(***************************************************************************)
EXTENDS Lineage, TLAPS

\* The IDs of a certified entry are of its own checkpoint: what makes lineage stay inside
\* one checkpoint, the inventories being disjoint.
Scoped ==
  \A r \in DOMAIN bindings :
    bindings[r].status = "certified" => /\ RootOf[r] \in Roots
                                        /\ bindings[r].ids \subseteq Inventory[RootOf[r]]

IInv == TypeOK /\ Scoped /\ LineageIsInherited /\ ReachedIsSeen

-----------------------------------------------------------------------------
\* What one recorded result changes.
LEMMA BindEffect ==
  ASSUME NEW r, NEW b, Bind(r, b)
  PROVE  /\ DOMAIN bindings' = DOMAIN bindings \cup {r}
         /\ bindings'[r] = b
         /\ \A q \in DOMAIN bindings \ {r} : bindings'[q] = bindings[q]
BY DEF Bind

\* The inventory of a checkpoint is in E_0, and IDs of two checkpoints never meet.
LEMMA InventoryFacts ==
  /\ \A r \in Roots : Inventory[r] \subseteq E0
  /\ \A r, q \in Roots : \A id \in Inventory[r] : id \in Inventory[q] => r = q
BY InventoryAssumption DEF E0

\* A certified binding of IDs in scope, inherited from certified entries, keeps the
\* invariant of the registry.
LEMMA CertifyKeeps ==
  ASSUME IInv, NEW r \in Refs, NEW ids, NEW relation \in Relations,
         CertifyBinding(r, ids, relation), UNCHANGED <<start, deleted, seen, reached>>,
         \A id \in ids : \E q \in DOMAIN start :
            RootOf[q] = RootOf[r] /\ id \in start[q] /\ start[q] \subseteq ids
  PROVE  IInv'
<1> DEFINE b == Certified(ids, relation)
<1>1. /\ RootOf[r] \in Roots
      /\ ids # {} /\ ids \subseteq Inventory[RootOf[r]]
      /\ r \in DOMAIN bindings => bindings[r] = b
  BY RefAssumption DEF CertifyBinding, InScope, InCampaign
<1>2. /\ DOMAIN bindings' = DOMAIN bindings \cup {r}
      /\ bindings'[r] = b
      /\ \A q \in DOMAIN bindings \ {r} : bindings'[q] = bindings[q]
  BY BindEffect DEF CertifyBinding
<1>3. \A q \in DOMAIN bindings : bindings'[q] = bindings[q]
  BY <1>1, <1>2
<1>4. b.ids = ids /\ b.status = "certified" /\ b.relation = relation
  BY DEF Certified
<1>5. ids \subseteq E0
  BY <1>1, InventoryFacts
<1> HIDE DEF b
<1>6. TypeOK'
  BY <1>1, <1>2, <1>3, <1>4, <1>5 DEF IInv, TypeOK
<1>7. Scoped'
  BY <1>1, <1>2, <1>3, <1>4 DEF IInv, Scoped
<1>8. LineageIsInherited'
  BY <1>2, <1>3, <1>4 DEF IInv, LineageIsInherited
<1>9. ReachedIsSeen'
  BY <1>2, <1>3 DEF IInv, ReachedIsSeen
<1> QED
  BY <1>6, <1>7, <1>8, <1>9 DEF IInv

\* Inherited IDs have an origin in the checkpoint of the entry that inherits them.
LEMMA Inheritance ==
  ASSUME IInv, NEW q \in Refs, Resolves(q), NEW r \in Refs, RootOf[r] \in Roots,
         NEW id \in bindings[q].ids, id \in Inventory[RootOf[r]]
  PROVE  \E o \in DOMAIN start : /\ RootOf[o] = RootOf[r]
                                 /\ id \in start[o] /\ start[o] \subseteq bindings[q].ids
<1>1. q \in DOMAIN bindings /\ RootOf[q] \in Roots /\ id \in Inventory[RootOf[q]]
  BY DEF Resolves, IInv, Scoped
<1>2. RootOf[q] = RootOf[r]
  BY <1>1, InventoryFacts
<1> QED
  BY <1>1, <1>2 DEF IInv, LineageIsInherited

-----------------------------------------------------------------------------
LEMMA InitIInv == Init => IInv
<1> SUFFICES ASSUME Init PROVE IInv
  OBVIOUS
<1>1. /\ DOMAIN bindings = DOMAIN start
      /\ \A r \in DOMAIN start :
           /\ bindings[r].ids = start[r] /\ bindings[r].status = "certified"
           /\ bindings[r].relation \in Relations
  BY DEF Init, Built, Certified, Relations
<1>2. /\ DOMAIN start \subseteq Refs
      /\ \A r \in DOMAIN start : /\ RootOf[r] \in Roots
                                 /\ start[r] # {} /\ start[r] \subseteq Inventory[RootOf[r]]
  BY StartAssumption DEF Init
<1>3. \A r \in DOMAIN start : start[r] \subseteq E0
  BY <1>2, InventoryFacts
<1>4. TypeOK
  BY <1>1, <1>2, <1>3 DEF Init, TypeOK
<1>5. Scoped /\ LineageIsInherited
  BY <1>1, <1>2 DEF Scoped, LineageIsInherited
<1>6. ReachedIsSeen
  BY DEF Init, ReachedIsSeen
<1> QED
  BY <1>4, <1>5, <1>6 DEF IInv

\* Each call of the registry, and each retrieval, keeps the invariant.
LEMMA CertifyAgainIInv == \A r \in Refs : IInv /\ CertifyAgain(r) => IInv'
<1> SUFFICES ASSUME NEW r \in Refs, IInv, CertifyAgain(r) PROVE IInv'
  OBVIOUS
<1>1. Built(start)[r].relation \in Relations
  BY DEF CertifyAgain, Built, Certified, Relations
<1>2. \A id \in start[r] : \E q \in DOMAIN start :
        RootOf[q] = RootOf[r] /\ id \in start[q] /\ start[q] \subseteq start[r]
  BY DEF CertifyAgain
<1> QED
  BY <1>1, <1>2, CertifyKeeps DEF CertifyAgain

LEMMA SameIdUpdateIInv == \A r \in Refs : IInv /\ SameIdUpdate(r) => IInv'
<1> SUFFICES ASSUME NEW r \in Refs, IInv, SameIdUpdate(r) PROVE IInv'
  OBVIOUS
<1> DEFINE b == Certified(bindings[r].ids, "same_id_update")
<1>1. r \in DOMAIN bindings /\ bindings[r].status = "certified"
  BY DEF SameIdUpdate, Resolves
<1>2. /\ DOMAIN bindings' = DOMAIN bindings
      /\ bindings'[r] = b
      /\ \A q \in DOMAIN bindings \ {r} : bindings'[q] = bindings[q]
  BY <1>1, BindEffect DEF SameIdUpdate
<1>3. b.ids = bindings[r].ids /\ b.status = "certified" /\ b.relation \in Relations
  BY DEF Certified, Relations
<1> HIDE DEF b
<1>4. \A q \in DOMAIN bindings : /\ bindings'[q].ids = bindings[q].ids
                                 /\ bindings'[q].status = bindings[q].status
                                 /\ bindings'[q].relation \in Relations
  BY <1>1, <1>2, <1>3 DEF IInv, TypeOK
<1>5. UNCHANGED <<start, deleted, seen, reached>>
  BY DEF SameIdUpdate
<1>6. TypeOK' /\ Scoped'
  BY <1>2, <1>4, <1>5 DEF IInv, TypeOK, Scoped
<1>7. LineageIsInherited' /\ ReachedIsSeen'
  BY <1>2, <1>4, <1>5 DEF IInv, LineageIsInherited, ReachedIsSeen
<1> QED
  BY <1>6, <1>7 DEF IInv

LEMMA ReplaceIInv == \A old, new \in Refs : IInv /\ Replace(old, new) => IInv'
<1> SUFFICES ASSUME NEW old \in Refs, NEW new \in Refs, IInv, Replace(old, new) PROVE IInv'
  OBVIOUS
<1>1. RootOf[new] \in Roots /\ bindings[old].ids \subseteq Inventory[RootOf[new]]
  BY RefAssumption DEF Replace, CertifyBinding, InScope, InCampaign
<1>2. \A id \in bindings[old].ids : \E o \in DOMAIN start :
        RootOf[o] = RootOf[new] /\ id \in start[o] /\ start[o] \subseteq bindings[old].ids
  BY <1>1, Inheritance DEF Replace
<1>3. "replacement_update" \in Relations
  BY DEF Relations
<1> QED
  BY <1>2, <1>3, CertifyKeeps DEF Replace

LEMMA MergeIInv == \A sources \in SUBSET Refs, merged \in Refs : IInv /\ Merge(sources, merged) => IInv'
<1> SUFFICES ASSUME NEW sources \in SUBSET Refs, NEW merged \in Refs, IInv, Merge(sources, merged)
             PROVE  IInv'
  OBVIOUS
<1> DEFINE ids == UNION {bindings[r].ids : r \in sources}
<1>1. RootOf[merged] \in Roots /\ ids \subseteq Inventory[RootOf[merged]]
  BY RefAssumption DEF Merge, CertifyBinding, InScope, InCampaign
<1>2. ASSUME NEW id \in ids
      PROVE  \E o \in DOMAIN start :
               RootOf[o] = RootOf[merged] /\ id \in start[o] /\ start[o] \subseteq ids
  <2>1. PICK r \in sources : id \in bindings[r].ids
    BY <1>2
  <2>2. \E o \in DOMAIN start : /\ RootOf[o] = RootOf[merged]
                                /\ id \in start[o] /\ start[o] \subseteq bindings[r].ids
    BY <1>1, <2>1, Inheritance DEF Merge
  <2>3. bindings[r].ids \subseteq ids
    OBVIOUS
  <2> QED
    BY <2>2, <2>3
<1>3. "certified_merge" \in Relations
  BY DEF Relations
<1>4. CertifyBinding(merged, ids, "certified_merge") /\ UNCHANGED <<start, deleted, seen, reached>>
  BY DEF Merge
<1> HIDE DEF ids
<1> QED
  BY <1>2, <1>3, <1>4, CertifyKeeps

LEMMA MarkUncertifiableIInv ==
  \A r \in Refs, status \in Failed : IInv /\ MarkUncertifiable(r, status) => IInv'
<1> SUFFICES ASSUME NEW r \in Refs, NEW status \in Failed, IInv, MarkUncertifiable(r, status)
             PROVE  IInv'
  OBVIOUS
<1> DEFINE b == Unresolved("unknown", status)
<1>1. /\ DOMAIN bindings' = DOMAIN bindings \cup {r}
      /\ bindings'[r] = b
      /\ \A q \in DOMAIN bindings \ {r} : bindings'[q] = bindings[q]
      /\ r \notin DOMAIN bindings
  BY BindEffect DEF MarkUncertifiable
<1>2. b.ids = {} /\ b.status = status /\ b.relation \in Relations
  BY DEF Unresolved, Relations
<1>3. status # "certified"
  BY DEF Failed
<1>4. UNCHANGED <<start, deleted, seen, reached>>
  BY DEF MarkUncertifiable
<1> HIDE DEF b
<1>5. TypeOK' /\ Scoped'
  BY <1>1, <1>2, <1>3, <1>4 DEF IInv, TypeOK, Scoped
<1>6. LineageIsInherited' /\ ReachedIsSeen'
  BY <1>1, <1>2, <1>4 DEF IInv, LineageIsInherited, ReachedIsSeen
<1> QED
  BY <1>5, <1>6 DEF IInv

LEMMA MarkDeletedIInv == \A r \in Refs : IInv /\ MarkDeleted(r) => IInv'
BY DEF MarkDeleted, IInv, TypeOK, Scoped, LineageIsInherited, ReachedIsSeen

\* The entries of a ranking are certified, so what it adds to coverage is their lineage.
LEMMA RetrieveIInv == \A ranked \in Rankings : IInv /\ Retrieve(ranked) => IInv'
<1> SUFFICES ASSUME NEW ranked \in Rankings, IInv, Retrieve(ranked) PROVE IInv'
  OBVIOUS
<1> DEFINE ranking == [i \in DOMAIN ranked |-> bindings[ranked[i]].ids]
           now == {ranked[i] : i \in DOMAIN ranked}
<1>1. now \subseteq Refs
  BY DEF Rankings
<1>2. now \subseteq DOMAIN bindings
  BY DEF Retrieve, Resolves
<1>3. TokenIds(ranking) = UNION {bindings[r].ids : r \in now}
  BY DEF TokenIds
<1>4. reached' = reached \cup TokenIds(ranking) /\ TokenIds(ranking) \subseteq E0
  BY DEF Retrieve, Observed, Observable
<1>5. seen' = seen \cup now /\ UNCHANGED <<start, bindings, deleted>>
  BY DEF Retrieve
<1> HIDE DEF ranking, now
<1>6. TypeOK' /\ Scoped' /\ LineageIsInherited'
  BY <1>1, <1>4, <1>5 DEF IInv, TypeOK, Scoped, LineageIsInherited
<1>7. ReachedIsSeen'
  BY <1>2, <1>3, <1>4, <1>5 DEF IInv, ReachedIsSeen
<1> QED
  BY <1>6, <1>7 DEF IInv

LEMMA NextIInv == IInv /\ [Next]_vars => IInv'
<1> SUFFICES ASSUME IInv, [Next]_vars PROVE IInv'
  OBVIOUS
<1>1. CASE \E r \in Refs : CertifyAgain(r) \/ SameIdUpdate(r) \/ MarkDeleted(r)
  BY <1>1, CertifyAgainIInv, SameIdUpdateIInv, MarkDeletedIInv
<1>2. CASE \E r, q \in Refs : Replace(r, q)
  BY <1>2, ReplaceIInv
<1>3. CASE \E sources \in SUBSET Refs, r \in Refs : Merge(sources, r)
  BY <1>3, MergeIInv
<1>4. CASE \E r \in Refs, status \in Failed : MarkUncertifiable(r, status)
  BY <1>4, MarkUncertifiableIInv
<1>5. CASE \E ranked \in Rankings : Retrieve(ranked)
  BY <1>5, RetrieveIInv
<1>6. CASE UNCHANGED vars
  BY <1>6 DEF vars, IInv, TypeOK, Scoped, LineageIsInherited, ReachedIsSeen
<1> QED
  BY <1>1, <1>2, <1>3, <1>4, <1>5, <1>6 DEF Next

LEMMA InductiveInvariant == Spec => []IInv
BY InitIInv, NextIInv, PTL DEF Spec

-----------------------------------------------------------------------------
\* The registry's results are well formed: certified with IDs of E_0, or failed without.
THEOREM TypeCorrect == Spec => []TypeOK
<1>1. IInv => TypeOK
  BY DEF IInv
<1> QED
  BY <1>1, InductiveInvariant, PTL

\* Lineage never appears from nowhere nor leaves its checkpoint, through any chain of
\* replacements and merges.
THEOREM Inherited == Spec => []LineageIsInherited
<1>1. IInv => LineageIsInherited
  BY DEF IInv
<1> QED
  BY <1>1, InductiveInvariant, PTL

\* Coverage equals what the retrieved entries stand for now.
THEOREM CoverageIsSeen == Spec => []ReachedIsSeen
<1>1. IInv => ReachedIsSeen
  BY DEF IInv
<1> QED
  BY <1>1, InductiveInvariant, PTL

\* No call ever takes away or changes an entry's certified IDs, or certifies a failed one.
THEOREM Forever == Spec => LineageIsForever
<1> DEFINE Keeps == \A r \in DOMAIN bindings : /\ r \in DOMAIN bindings'
                                               /\ bindings'[r].ids = bindings[r].ids
                                               /\ bindings'[r].status = bindings[r].status
<1>1. ASSUME NEW r, NEW ids, NEW relation, CertifyBinding(r, ids, relation) PROVE Keeps
  <2>1. /\ DOMAIN bindings' = DOMAIN bindings \cup {r}
        /\ bindings'[r] = Certified(ids, relation)
        /\ \A q \in DOMAIN bindings \ {r} : bindings'[q] = bindings[q]
    BY <1>1, BindEffect DEF CertifyBinding
  <2>2. r \in DOMAIN bindings => bindings[r] = Certified(ids, relation)
    BY <1>1 DEF CertifyBinding
  <2> QED
    BY <2>1, <2>2
<1>2. ASSUME NEW r, SameIdUpdate(r) PROVE Keeps
  <2>1. r \in DOMAIN bindings /\ bindings[r].status = "certified"
    BY <1>2 DEF SameIdUpdate, Resolves
  <2>2. /\ DOMAIN bindings' = DOMAIN bindings \cup {r}
        /\ bindings'[r] = Certified(bindings[r].ids, "same_id_update")
        /\ \A q \in DOMAIN bindings \ {r} : bindings'[q] = bindings[q]
    BY <1>2, BindEffect DEF SameIdUpdate
  <2> QED
    BY <2>1, <2>2 DEF Certified
<1>3. ASSUME NEW r, NEW status, MarkUncertifiable(r, status) PROVE Keeps
  BY <1>3, BindEffect DEF MarkUncertifiable
<1>4. ASSUME NEW r, MarkDeleted(r) PROVE Keeps
  BY <1>4 DEF MarkDeleted
<1>5. ASSUME NEW ranked, Retrieve(ranked) PROVE Keeps
  BY <1>5 DEF Retrieve
<1>6. UNCHANGED vars => Keeps
  BY DEF vars
<1> HIDE DEF Keeps
<1>7. ASSUME NEW r, CertifyAgain(r) PROVE Keeps
  BY <1>1, <1>7 DEF CertifyAgain
<1>8. ASSUME NEW r, NEW q, Replace(r, q) PROVE Keeps
  BY <1>1, <1>8 DEF Replace
<1>9. ASSUME NEW sources, NEW r, Merge(sources, r) PROVE Keeps
  BY <1>1, <1>9 DEF Merge
<1>10. [Next]_vars => [Keeps]_vars
  BY <1>2, <1>3, <1>4, <1>5, <1>6, <1>7, <1>8, <1>9 DEF Next
<1> USE DEF Keeps
<1> QED
  BY <1>10, PTL DEF Spec, LineageIsForever
=============================================================================
