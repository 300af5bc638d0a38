----------------------------- MODULE RoundProofs ------------------------------
(***************************************************************************)
(* That rounds separate a seed from its children, decisions are for ever    *)
(* and exhaustion is final: for any roots, methods, rankings and bounds, and *)
(* for visits in any order.                                                 *)
(*                                                                          *)
(* The strengthening remembers, for every witness, that its decision is     *)
(* terminal and was of a settled seed from an earlier round, and for every  *)
(* seed that it is of a past round, no earlier than its path is long.       *)
(***************************************************************************)
EXTENDS CampaignProofs

\* The execution a witness records was of an old enough seed, and is over.
Recorded(w) ==
  /\ w.item \in DOMAIN done
  /\ w.item[1] \in 1..Len(SettledSeeds)
  /\ seeds[w.item[1]].round < w.round
  /\ w.round <= round

AllRecorded == \A i \in DOMAIN witnesses : Recorded(witnesses[i])

\* No decision twice, and rounds in order.
Ordered ==
  \A i, j \in DOMAIN witnesses :
    i < j => witnesses[i].item # witnesses[j].item /\ witnesses[i].round <= witnesses[j].round

Enumeration(s) == [status |-> s.status, opps |-> s.opps]

Admissible ==
  \A i \in DOMAIN seeds : /\ seeds[i].round <= round /\ seeds[i].path <= seeds[i].round
                          /\ Enumeration(seeds[i]) \in Enumerations[seeds[i].root]

Dispositions == {"terminal_success", "terminal_generation_exhausted"}

Disposed ==
  /\ DOMAIN done \subseteq Items(seeds)
  /\ \A i \in DOMAIN done : done[i] \in Dispositions

Bounded == method \in Methods /\ Len(witnesses) \in 0..Budget

RInv == IInv /\ AllRecorded /\ Ordered /\ Admissible /\ Disposed /\ Bounded

LEMMA SeedsType ==
  ASSUME IInv
  PROVE  /\ Len(seeds) \in Nat /\ DOMAIN seeds = 1..Len(seeds) /\ seeds \in Seq(SeedSet)
         /\ \A i \in 1..Len(seeds) : seeds[i] \in SeedSet
         /\ round \in Nat
BY DEF IInv, Types

\* The item of a visit is an item of the seeds, pending.
LEMMA VisitPending ==
  ASSUME IInv, visit # NoVisit
  PROVE  /\ visit.item \in Items(seeds) \ DOMAIN done
         /\ visit.item \in ItemsOf(seeds, Root)
<1>1. /\ visit.item \in (1..Len(SettledSeeds)) \X Opportunities
      /\ visit.item[2] \in SettledParent.opps
      /\ visit.item \notin DOMAIN done /\ Parent = SettledParent
  BY VisitItem
<1>2. visit.item \in (1..Len(seeds)) \X Opportunities
  BY <1>1, SettledPrefix
<1> QED
  BY <1>1, <1>2 DEF Items, ItemsOf, Parent, Root

-----------------------------------------------------------------------------
(* What the invariant gives.                                                 *)

LEMMA RInvDiscipline == RInv => RoundDiscipline
<1> SUFFICES ASSUME RInv PROVE RoundDiscipline
  OBVIOUS
<1>1. \A i \in DOMAIN witnesses : seeds[witnesses[i].item[1]].round < witnesses[i].round
  BY DEF RInv, AllRecorded, Recorded
<1>2. \A i \in DOMAIN seeds : seeds[i].path <= seeds[i].round
  BY DEF RInv, Admissible
<1> QED
  BY <1>1, <1>2 DEF RInv, Ordered, RoundDiscipline

LEMMA RInvTypeOK == RInv => TypeOK
<1> SUFFICES ASSUME RInv PROVE TypeOK
  OBVIOUS
<1>1. IInv /\ Types
  BY DEF RInv, IInv
<1>2. \A i \in DOMAIN seeds : /\ seeds[i].root \in Roots /\ seeds[i].round \in 0..round
                             /\ [status |-> seeds[i].status, opps |-> seeds[i].opps]
                                  \in Enumerations[seeds[i].root]
  <2>1. \A i \in DOMAIN seeds : seeds[i].root \in Roots /\ seeds[i].round \in Nat
    BY <1>1, SeedsType DEF SeedSet
  <2>2. \A i \in DOMAIN seeds : /\ seeds[i].round <= round
                               /\ [status |-> seeds[i].status, opps |-> seeds[i].opps]
                                    \in Enumerations[seeds[i].root]
    BY DEF RInv, Admissible, Enumeration
  <2>3. round \in Nat
    BY <1>1 DEF Types
  <2> QED
    BY <2>1, <2>2, <2>3
<1>3. DOMAIN priority = IF Past("retain") /\ ~Past("prioritize") THEN 1..visit.known ELSE DOMAIN seeds
  <2>1. CASE visit = NoVisit
    BY <1>1, <2>1, NoVisitSettled, SeedsType DEF IInv, Paired
  <2>2. CASE visit # NoVisit /\ visit.stage = "finish"
    <3>1. PICK p : priority = [i \in 1..Len(seeds) |->
                                 IF i <= Len(SettledSeeds) THEN SettledPriority[i] ELSE p]
      BY <1>1, <2>2, PastStages DEF PastIs, IInv, Staged, Prioritized
    <3>2. Past("prioritize")
      BY <2>2, PastStages DEF PastIs
    <3> QED
      BY <1>1, <3>1, <3>2, SeedsType
  <2>3. CASE visit # NoVisit /\ visit.stage = "prioritize"
    <3>1. Past("retain") /\ ~Past("prioritize")
      BY <2>3, PastStages DEF PastIs
    <3>2. SettledPriority = priority /\ visit.known = Len(SettledSeeds)
      BY <1>1, <2>3, SettledStages DEF SettledBy, PriorityBy, IInv, Shape
    <3> QED
      BY <1>1, <3>1, <3>2 DEF IInv, Paired
  <2>4. CASE visit # NoVisit /\ visit.stage \notin {"prioritize", "finish"}
    <3>1. ~Past("retain")
      BY <2>4, PastStages DEF PastIs
    <3>2. SettledPriority = priority /\ SettledSeeds = seeds
      BY <1>1, <2>4, SettledStages DEF SettledBy, PriorityBy, SeedsBy, IInv, Shape, StageSet
    <3> QED
      BY <1>1, <3>1, <3>2, SeedsType DEF IInv, Paired
  <2> QED
    BY <2>1, <2>2, <2>3, <2>4
<1>4. visit # NoVisit => visit.item \in Items(seeds) \ DOMAIN done
  BY <1>1, VisitPending
<1> QED
  BY <1>1, <1>2, <1>3, <1>4 DEF TypeOK, RInv, Disposed, Dispositions, Types, Bounded

-----------------------------------------------------------------------------
LEMMA InitRInv == Init => RInv
<1> SUFFICES ASSUME Init PROVE RInv
  OBVIOUS
<1>1. IInv
  BY InitIInv
<1>2. witnesses = << >> /\ done = << >> /\ method \in Methods /\ round = 1
  BY DEF Init, SearchInit
<1>3. AllRecorded /\ Ordered /\ Disposed /\ Bounded
  BY <1>2, BoundAssumption DEF AllRecorded, Ordered, Disposed, Bounded
<1>4. Admissible
  <2> DEFINE n == Cardinality(Roots)
  <2>1. PICK o \in Orders, e \in Enumerated : seeds = Initial(o, e)
    BY DEF Init, SearchInit
  <2>2. \A i \in 1..n : o[i] \in Roots /\ e[o[i]] \in Enumerations[o[i]]
    BY DEF Orders, Enumerated
  <2>3. DOMAIN seeds = 1..n
    BY <2>1 DEF Initial
  <2>4. \A i \in 1..n : /\ seeds[i].round = 0 /\ seeds[i].path = 0 /\ seeds[i].root = o[i]
                        /\ seeds[i].status = e[o[i]].status
                        /\ seeds[i].opps = e[o[i]].opps
    BY <2>1 DEF Initial, Seed
  <2> HIDE DEF n
  <2>5. \A i \in 1..n : Enumeration(seeds[i]) = e[o[i]]
    BY <2>2, <2>4, FrontierAssumption DEF Enumeration, LegalEnumeration
  <2> QED
    BY <1>2, <2>2, <2>3, <2>4, <2>5 DEF Admissible
<1> QED
  BY <1>1, <1>3, <1>4 DEF RInv

-----------------------------------------------------------------------------
(* What was recorded stays recorded.                                         *)

\* Seeds are only added, dispositions only recorded, rounds only counted.
Forward ==
  /\ DOMAIN done \subseteq DOMAIN done'
  /\ Len(SettledSeeds) <= Len(SettledSeeds') /\ Len(SettledSeeds') \in Nat
  /\ \A i \in 1..Len(SettledSeeds) : seeds'[i] = seeds[i]
  /\ round <= round' /\ round' \in Nat

LEMMA RecordedKept ==
  ASSUME IInv, Forward, NEW w \in WitnessSet, Recorded(w)
  PROVE  Recorded(w)'
<1>1. round \in Nat /\ w.round \in Nat /\ Len(SettledSeeds) \in Nat
  BY SettledPrefix, SeedsType DEF WitnessSet
<1>2. w.item \in DOMAIN done' /\ w.item[1] \in 1..Len(SettledSeeds')
  BY <1>1 DEF Forward, Recorded
<1>3. seeds'[w.item[1]] = seeds[w.item[1]]
  BY DEF Forward, Recorded
<1> QED
  BY <1>1, <1>2, <1>3 DEF Forward, Recorded

\* Without a new witness.
LEMMA ForwardRecords ==
  ASSUME RInv, Forward, UNCHANGED witnesses
  PROVE  AllRecorded' /\ Ordered'
<1>1. \A i \in DOMAIN witnesses : witnesses[i] \in WitnessSet
  BY DEF RInv, IInv, Types
<1> QED
  BY <1>1, RecordedKept DEF RInv, AllRecorded, Ordered

\* Where the seeds and what was decided stay.
LEMMA QuietRInv ==
  ASSUME RInv, IInv', Unsettled, UNCHANGED <<method, seeds, done, witnesses>>,
         round <= round'
  PROVE  RInv'
<1>1. IInv /\ round \in Nat /\ round' \in Nat
  BY DEF RInv, IInv, Types
<1>2. Forward
  BY <1>1, SettledPrefix DEF Forward, Unsettled
<1>3. AllRecorded' /\ Ordered'
  BY <1>2, ForwardRecords
<1>4. Admissible'
  <2>1. \A i \in DOMAIN seeds : seeds[i].round \in Nat
    BY <1>1, SeedsType DEF SeedSet
  <2> QED
    BY <1>1, <2>1 DEF RInv, Admissible
<1>5. Disposed' /\ Bounded'
  BY DEF RInv, Disposed, Bounded
<1> QED
  BY <1>3, <1>4, <1>5 DEF RInv

\* A terminal decision disposes of one more item.
LEMMA TerminalIs ==
  ASSUME NEW i, NEW d, done' = Terminal(i, d)
  PROVE  /\ DOMAIN done' = DOMAIN done \cup {i}
         /\ \A j \in DOMAIN done' : done'[j] = IF j = i THEN d ELSE done[j]
<1>1. done' = [j \in DOMAIN done \cup {i} |-> IF j = i THEN d ELSE done[j]]
  BY DEF Terminal
<1> QED
  BY <1>1

\* A terminal decision on an item of the seeds.
LEMMA TerminalDisposed ==
  ASSUME RInv, visit # NoVisit, UNCHANGED seeds, NEW d \in Dispositions,
         done' = Terminal(visit.item, d)
  PROVE  Disposed'
<1>1. visit.item \in Items(seeds)
  BY VisitPending DEF RInv
<1>2. /\ DOMAIN done' = DOMAIN done \cup {visit.item}
      /\ \A j \in DOMAIN done' : done'[j] = IF j = visit.item THEN d ELSE done[j]
  <2> HIDE DEF Terminal
  <2> DEFINE item == visit.item
  <2>1. done' = Terminal(item, d)
    OBVIOUS
  <2> HIDE DEF item
  <2>2. /\ DOMAIN done' = DOMAIN done \cup {item}
        /\ \A j \in DOMAIN done' : done'[j] = IF j = item THEN d ELSE done[j]
    BY <2>1, TerminalIs
  <2> QED
    BY <2>2 DEF item
<1> QED
  BY <1>1, <1>2 DEF RInv, Disposed

LEMMA ExhaustRInv == RInv /\ Exhaust => RInv'
<1> SUFFICES ASSUME RInv, Exhaust PROVE RInv'
  OBVIOUS
<1>1. IInv /\ IInv' /\ Unsettled /\ visit # NoVisit
  BY ExhaustUnsettled, ExhaustIInv DEF RInv
<1>2. /\ done' = Terminal(visit.item, "terminal_generation_exhausted")
      /\ UNCHANGED <<method, round, seeds, witnesses>>
  BY DEF Exhaust, EndVisit
<1>3. DOMAIN done \subseteq DOMAIN done'
  BY <1>2, TerminalIs
<1>4. Forward
  BY <1>1, <1>2, <1>3, SettledPrefix, SeedsType DEF Forward, Unsettled
<1>5. Disposed'
  BY <1>1, <1>2, TerminalDisposed DEF Dispositions
<1>6. Admissible' /\ Bounded'
  BY <1>2 DEF RInv, Admissible, Bounded
<1> QED
  BY <1>1, <1>2, <1>4, <1>5, <1>6, ForwardRecords DEF RInv

\* A child is of the current round, and its path no longer than that.
LEMMA RetainRInv == RInv /\ Retain => RInv'
<1> SUFFICES ASSUME RInv, Retain PROVE RInv'
  OBVIOUS
<1>1. /\ IInv /\ IInv' /\ Unsettled /\ visit.stage = "retain"
      /\ \A i \in 1..Len(seeds) : seeds'[i] = seeds[i]
      /\ UNCHANGED <<method, round, done, witnesses>>
  BY RetainUnsettled, RetainIInv DEF RInv, Retain
<1>2. visit # NoVisit
  BY <1>1, VisitFacts
<1>3. Forward
  BY <1>1, SettledPrefix, SeedsType DEF Forward, Unsettled
<1>4. \/ seeds' = seeds
      \/ \E c \in SeedSet : /\ seeds' = Append(seeds, c) /\ c.root = Root
                            /\ c.round = round /\ c.path <= SettledParent.path + 1
                            /\ \E e \in Enumerations[Root] : c.status = e.status /\ c.opps = e.opps
  BY <1>1, RetainSeeds
<1>5. /\ SettledParent.path <= SettledParent.round /\ round >= SettledParent.round + 1
      /\ SettledParent \in SeedSet /\ Root \in Roots
  <2>1. visit.item[1] \in 1..Len(SettledSeeds)
    BY <1>1, <1>2, VisitItem
  <2>2. visit.item[1] \in DOMAIN seeds /\ seeds[visit.item[1]] = SettledParent
    BY <1>1, <2>1, SettledPrefix, SeedsType DEF SettledParent
  <2> QED
    BY <1>1, <1>2, <2>2, VisitItem DEF RInv, Admissible
<1>6. CASE seeds' = seeds
  BY <1>1, <1>3, <1>6, ForwardRecords DEF RInv, Admissible, Disposed, Bounded
<1>7. CASE seeds' # seeds
  <2>1. PICK c \in SeedSet : /\ seeds' = Append(seeds, c) /\ c.root = Root
                             /\ c.round = round /\ c.path <= SettledParent.path + 1
                             /\ \E e \in Enumerations[Root] : c.status = e.status /\ c.opps = e.opps
    BY <1>4, <1>7
  <2>2. /\ seeds \in Seq(SeedSet) /\ Len(seeds) \in Nat /\ DOMAIN seeds = 1..Len(seeds)
        /\ DOMAIN seeds' = 1..(Len(seeds) + 1) /\ Len(seeds') = Len(seeds) + 1
        /\ seeds'[Len(seeds) + 1] = c
    BY <1>1, <2>1, SeedsType
  <2>3. Enumeration(c) \in Enumerations[c.root]
    <3>1. PICK e \in Enumerations[Root] : c.status = e.status /\ c.opps = e.opps
      BY <2>1
    <3>2. e = [status |-> e.status, opps |-> e.opps]
      BY <1>5, FrontierAssumption DEF LegalEnumeration
    <3> QED
      BY <2>1, <3>1, <3>2 DEF Enumeration
  <2>4. c.round <= round /\ c.path <= c.round
    <3>1. c.path \in Nat /\ round \in Nat /\ SettledParent.path \in Nat /\ SettledParent.round \in Nat
      BY <1>1, <1>5, SeedsType DEF SeedSet
    <3> QED
      BY <1>5, <2>1, <3>1
  <2>5. Admissible'
    <3>1. \A i \in 1..Len(seeds) : /\ seeds'[i].round <= round /\ seeds'[i].path <= seeds'[i].round
                                   /\ Enumeration(seeds'[i]) \in Enumerations[seeds'[i].root]
      BY <1>1, <2>2 DEF RInv, Admissible
    <3> QED
      BY <1>1, <2>2, <2>3, <2>4, <3>1 DEF Admissible
  <2>6. Items(seeds) \subseteq Items(seeds')
    BY <1>1, <2>2 DEF Items
  <2>7. Disposed' /\ Bounded'
    BY <1>1, <2>6 DEF RInv, Disposed, Bounded
  <2> QED
    BY <1>1, <1>3, <2>5, <2>7, ForwardRecords DEF RInv
<1> QED
  BY <1>6, <1>7

-----------------------------------------------------------------------------
\* The new witness: of an old seed, and of a decision no other witness has.
LEMMA FinishForward ==
  ASSUME RInv, Finish
  PROVE  /\ Forward
         /\ \A v : v = Witness(visit.item, Parent.root, visit.update, Signature, visit.new)
                     => Recorded(v)'
         /\ visit.item \notin DOMAIN done
<1> DEFINE item == visit.item
           w == Witness(item, Parent.root, visit.update, Signature, visit.new)
<1>1. /\ IInv /\ visit # NoVisit /\ visit' = NoVisit
      /\ done' = Terminal(item, "terminal_success") /\ UNCHANGED <<round, seeds>>
  BY FinishFacts DEF RInv, Finish, EndVisit
<1>2. /\ item[1] \in 1..Len(SettledSeeds) /\ item \notin DOMAIN done
      /\ round >= SettledParent.round + 1 /\ SettledParent \in SeedSet
      /\ seeds[item[1]] = SettledParent
  BY <1>1, VisitItem DEF Parent
<1>3. /\ Len(seeds) \in Nat /\ Len(SettledSeeds) \in Nat /\ Len(SettledSeeds) <= Len(seeds)
      /\ round \in Nat
  BY <1>1, SettledPrefix, SeedsType
<1>4. SettledSeeds' = seeds
  BY <1>1, NoVisitSettledPrimed
<1>5. DOMAIN done' = DOMAIN done \cup {item}
  BY <1>1, TerminalIs
<1>6. Forward
  BY <1>1, <1>3, <1>4, <1>5 DEF Forward
<1>7. w.item = item /\ w.round = round
  BY DEF Witness
<1>8. seeds[item[1]].round < round
  BY <1>2, <1>3 DEF SeedSet
<1> HIDE DEF w
<1>9. \A v : v = w => Recorded(v)'
  BY <1>1, <1>2, <1>3, <1>4, <1>5, <1>7, <1>8 DEF Recorded
<1> QED
  BY <1>2, <1>6, <1>9 DEF w

LEMMA FinishRInv == RInv /\ Finish => RInv'
<1> SUFFICES ASSUME RInv, Finish PROVE RInv'
  OBVIOUS
<1> DEFINE n == Len(witnesses)
           w == Witness(visit.item, Parent.root, visit.update, Signature, visit.new)
<1>1. /\ IInv /\ IInv' /\ Forward
      /\ \A v : v = w => Recorded(v)'
      /\ visit.item \notin DOMAIN done /\ visit # NoVisit
  BY FinishForward, FinishIInv, FinishFacts DEF RInv
<1>2. /\ witnesses \in Seq(WitnessSet) /\ witnesses' = Append(witnesses, w)
      /\ UNCHANGED <<method, round, seeds>> /\ done' = Terminal(visit.item, "terminal_success")
  BY DEF Finish, EndVisit, RInv, IInv, Types
<1>3. w.item = visit.item /\ w.round = round
  BY DEF Witness
<1> HIDE DEF w
<1>4. /\ n \in Nat /\ DOMAIN witnesses = 1..n /\ DOMAIN witnesses' = 1..(n + 1)
      /\ Len(witnesses') = n + 1
      /\ \A i \in 1..n : witnesses'[i] = witnesses[i] /\ witnesses[i] \in WitnessSet
      /\ witnesses'[n + 1] = w
  BY <1>2
<1>5. Bounded'
  <2>1. n < Budget
    BY <1>1 DEF IInv, Shape
  <2> QED
    BY <1>2, <1>4, <2>1, BoundAssumption DEF RInv, Bounded
<1> HIDE DEF n
<1>6. \A i \in 1..n : Recorded(witnesses[i])
  BY <1>4 DEF RInv, AllRecorded
<1>7. AllRecorded'
  <2>1. \A i \in 1..n : \A v : v = witnesses[i] => Recorded(v)'
    BY <1>1, <1>4, <1>6, RecordedKept
  <2>2. \A i \in 1..(n + 1) : \A v : v = witnesses'[i] => Recorded(v)'
    BY <1>1, <1>4, <2>1
  <2> QED
    BY <1>4, <2>2 DEF AllRecorded
<1>8. \A i \in 1..n : witnesses[i].item # w.item /\ witnesses[i].round <= w.round
  BY <1>1, <1>3, <1>6 DEF Recorded
<1>9. Ordered'
  <2> SUFFICES ASSUME NEW i \in 1..(n + 1), NEW j \in 1..(n + 1), i < j
               PROVE  /\ witnesses'[i].item # witnesses'[j].item
                      /\ witnesses'[i].round <= witnesses'[j].round
    BY <1>4 DEF Ordered
  <2>1. i \in 1..n /\ witnesses'[i] = witnesses[i]
    BY <1>4
  <2>2. CASE j = n + 1
    BY <1>4, <1>8, <2>1, <2>2
  <2>3. CASE j # n + 1
    <3>1. j \in 1..n /\ witnesses'[j] = witnesses[j]
      BY <1>4, <2>3
    <3> QED
      BY <1>4, <2>1, <3>1 DEF RInv, Ordered
  <2> QED
    BY <2>2, <2>3
<1>10. Admissible'
  BY <1>2 DEF RInv, Admissible
<1>11. Disposed'
  BY <1>1, <1>2, TerminalDisposed DEF Dispositions
<1> QED
  BY <1>1, <1>5, <1>7, <1>9, <1>10, <1>11 DEF RInv

-----------------------------------------------------------------------------
LEMMA NextRInv == RInv /\ [Next]_vars => RInv'
<1> SUFFICES ASSUME RInv, [Next]_vars PROVE RInv'
  OBVIOUS
<1>0. IInv /\ IInv' /\ round <= round
  BY NextIInv, SeedsType DEF RInv
<1>1. CASE Select
  BY <1>0, <1>1, SelectUnsettled, QuietRInv DEF Select, search
<1>2. CASE Execute
  BY <1>0, <1>2, ExecuteUnsettled, QuietRInv DEF Execute, search
<1>3. CASE Exhaust
  BY <1>3, ExhaustRInv
<1>4. CASE Adopt
  BY <1>0, <1>4, AdoptUnsettled, QuietRInv DEF Adopt
<1>5. CASE Score
  BY <1>0, <1>5, ScoreUnsettled, QuietRInv DEF Score
<1>6. CASE Retain
  BY <1>6, RetainRInv
<1>7. CASE Prioritize
  BY <1>0, <1>7, PrioritizeUnsettled, QuietRInv DEF Prioritize
<1>8. CASE Finish
  BY <1>8, FinishRInv
<1>9. CASE Advance
  <2>1. round <= round'
    BY <1>0, <1>9, SeedsType DEF Advance, NextRound
  <2> QED
    BY <1>0, <1>9, <2>1, AdvanceUnsettled, QuietRInv DEF Advance, NextRound
<1>10. CASE UNCHANGED vars
  BY <1>0, <1>10, StutterUnsettled, QuietRInv DEF vars, search
<1> QED
  BY <1>1, <1>2, <1>3, <1>4, <1>5, <1>6, <1>7, <1>8, <1>9, <1>10 DEF Next

THEOREM Recording == Spec => []RInv
<1>1. Init => RInv
  BY InitRInv
<1>2. RInv /\ [Next]_vars => RInv'
  BY NextRInv
<1> QED
  BY <1>1, <1>2, PTL DEF Spec

\* A seed never executes in the round that made it, no parent and opportunity execute twice,
\* and a path of memory mutations takes as many rounds, whatever is visited when.
THEOREM Disciplined == Spec => []RoundDiscipline
BY Recording, RInvDiscipline, PTL

\* Every variable of a campaign has its type, and the decision in flight is never terminal.
THEOREM TypeCorrect == Spec => []TypeOK
BY Recording, RInvTypeOK, PTL

-----------------------------------------------------------------------------
(* Exhaustion.                                                               *)

Final(r) ==
  ScientificallyExhausted(seeds, done, r) =>
    ItemsOf(seeds', r) = ItemsOf(seeds, r) /\ ScientificallyExhausted(seeds', done', r)

\* No decision is forgotten.
LEMMA SameSeedsFinal ==
  ASSUME UNCHANGED seeds, DOMAIN done \subseteq DOMAIN done', NEW r
  PROVE  Final(r)
BY DEF Final, ScientificallyExhausted

\* The root of a visit is not exhausted, and only it gets a seed.
LEMMA RetainFinal ==
  ASSUME IInv, Retain, NEW r \in Roots
  PROVE  Final(r)
<1>1. /\ visit.stage = "retain" /\ visit # NoVisit /\ done' = done
      /\ \A i \in 1..Len(seeds) : seeds'[i] = seeds[i]
  BY RetainUnsettled, VisitFacts DEF Retain, At
<1>2. visit.item \in ItemsOf(seeds, Root) /\ visit.item \notin DOMAIN done
  BY <1>1, VisitPending
<1>3. CASE r = Root
  BY <1>2, <1>3 DEF Final, ScientificallyExhausted
<1>4. CASE seeds' = seeds
  BY <1>1, <1>4, SameSeedsFinal
<1>5. CASE r # Root /\ seeds' # seeds
  <2>1. PICK c \in SeedSet : seeds' = Append(seeds, c) /\ c.root = Root
    BY <1>5, RetainSeeds
  <2>2. /\ seeds \in Seq(SeedSet) /\ Len(seeds) \in Nat /\ Len(seeds') = Len(seeds) + 1
        /\ seeds'[Len(seeds) + 1].root = Root
    BY <2>1, SeedsType
  <2>3. ItemsOf(seeds', r) = ItemsOf(seeds, r)
    BY <1>1, <1>5, <2>2 DEF ItemsOf, Items
  <2>4. ASSUME ScientificallyExhausted(seeds, done, r)
        PROVE  \A i \in 1..Len(seeds') : seeds'[i].root = r => Certified(seeds'[i])
    <3>1. \A i \in 1..Len(seeds) : seeds'[i].root = r => Certified(seeds'[i])
      BY <1>1, <2>4 DEF ScientificallyExhausted
    <3> QED
      BY <1>5, <2>2, <3>1
  <2> QED
    BY <1>1, <2>3, <2>4 DEF Final, ScientificallyExhausted
<1> QED
  BY <1>3, <1>4, <1>5

LEMMA NextFinal ==
  ASSUME IInv, [Next]_vars, NEW r \in Roots
  PROVE  Final(r)
<1>1. CASE Retain
  BY <1>1, RetainFinal
<1>2. CASE Exhaust \/ Finish
  <2>1. \E d : done' = Terminal(visit.item, d)
    BY <1>2 DEF Exhaust, Finish, EndVisit
  <2>2. seeds' = seeds
    BY <1>2 DEF Exhaust, Finish
  <2> QED
    BY <2>1, <2>2, TerminalIs, SameSeedsFinal
<1>3. CASE ~Retain /\ ~(Exhaust \/ Finish)
  <2>1. seeds' = seeds /\ done' = done
    BY <1>3 DEF Next, Select, Execute, Adopt, Score, Prioritize, Advance, NextRound, vars, search
  <2> QED
    BY <2>1, SameSeedsFinal
<1> QED
  BY <1>1, <1>2, <1>3

\* Once nothing of a root is left and its enumerations are complete, no step admits a seed of
\* it or executes anything of it.
THEOREM Exhausted == Spec => ExhaustionIsFinal
<1>1. IInv /\ [Next]_vars => \A r \in Roots : Final(r)
  BY NextFinal
<1>2. (\A r \in Roots : Final(r)) =>
        \A r \in Roots : ScientificallyExhausted(seeds, done, r) =>
          ItemsOf(seeds', r) = ItemsOf(seeds, r) /\ ScientificallyExhausted(seeds', done', r)
  BY DEF Final
<1> QED
  BY <1>1, <1>2, Invariant, PTL DEF Spec, ExhaustionIsFinal
=============================================================================
