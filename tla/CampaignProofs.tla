---------------------------- MODULE CampaignProofs ----------------------------
(***************************************************************************)
(* That the calls after an execution implement the atomic trajectory, and   *)
(* that its witnesses account for it: for any roots, methods, rankings and  *)
(* bounds.                                                                  *)
(*                                                                          *)
(* The invariant says what every variable is as a function of the settled   *)
(* ones and of the visit in flight, stage by stage.                         *)
(***************************************************************************)
EXTENDS Campaign, SequenceTheorems, FiniteSetTheorems, TLAPS

Signatures == {RetrievalSignature(k) : k \in UNION {Rankings[r] \cup {FirstRanking[r]} : r \in Roots}}

SeedSet ==
  [root : Roots, path : Nat, round : Nat,
   status : {e.status : e \in UNION {Enumerations[r] : r \in Roots}},
   opps : SUBSET Opportunities, signature : Signatures]

WitnessSet ==
  [item : Nat \X Opportunities, root : Roots, round : Nat, ids : SUBSET E0, newly : SUBSET E0,
   signature : Signatures, new : BOOLEAN]

StageSet == {"execute", "adopt", "score", "retain", "prioritize", "finish"}

Fields == {"item", "stage", "ranking", "update", "new", "feedback", "known"}

\* What is past at each stage.
PastIs ==
  /\ Past("execute") <=> visit.stage \in {"adopt", "score", "retain", "prioritize", "finish"}
  /\ Past("adopt") <=> visit.stage \in {"score", "retain", "prioritize", "finish"}
  /\ Past("score") <=> visit.stage \in {"retain", "prioritize", "finish"}
  /\ Past("retain") <=> visit.stage \in {"prioritize", "finish"}
  /\ Past("prioritize") <=> visit.stage = "finish"

LEMMA PastStages == PastIs
<1>0. SUFFICES /\ Past("execute") <=> visit.stage \in {"adopt", "score", "retain", "prioritize", "finish"}
               /\ Past("adopt") <=> visit.stage \in {"score", "retain", "prioritize", "finish"}
               /\ Past("score") <=> visit.stage \in {"retain", "prioritize", "finish"}
               /\ Past("retain") <=> visit.stage \in {"prioritize", "finish"}
               /\ Past("prioritize") <=> visit.stage = "finish"
  BY DEF PastIs
<1>1. DOMAIN Stages = 1..6
  BY DEF Stages
<1>2. /\ Stages[1] = "execute" /\ Stages[2] = "adopt" /\ Stages[3] = "score"
      /\ Stages[4] = "retain" /\ Stages[5] = "prioritize" /\ Stages[6] = "finish"
  BY DEF Stages
<1> HIDE DEF Stages
<1>3. Past("execute") <=> visit.stage \in {"adopt", "score", "retain", "prioritize", "finish"}
  BY <1>1, <1>2 DEF Past
<1>4. Past("adopt") <=> visit.stage \in {"score", "retain", "prioritize", "finish"}
  BY <1>1, <1>2 DEF Past
<1>5. Past("score") <=> visit.stage \in {"retain", "prioritize", "finish"}
  BY <1>1, <1>2 DEF Past
<1>6. Past("retain") <=> visit.stage \in {"prioritize", "finish"}
  BY <1>1, <1>2 DEF Past
<1>7. Past("prioritize") <=> visit.stage = "finish"
  BY <1>1, <1>2 DEF Past
<1> QED
  BY <1>3, <1>4, <1>5, <1>6, <1>7

LEMMA PastStagesPrimed == PastIs'
BY PastStages, PTL

-----------------------------------------------------------------------------
(* The invariant.                                                            *)

Types ==
  /\ round \in Nat \ {0}
  /\ seeds \in Seq(SeedSet) /\ witnesses \in Seq(WitnessSet)
  /\ DOMAIN history = Roots /\ history = [r \in Roots |-> history[r]]
  /\ coverage \subseteq E0

\* The settled seeds and priorities belong together.
Paired ==
  /\ SettledSeeds \in Seq(SeedSet) /\ Len(SettledSeeds) <= Len(seeds)
  /\ \A i \in 1..Len(SettledSeeds) : SettledSeeds[i] = seeds[i]
  /\ SettledPriority = [i \in 1..Len(SettledSeeds) |-> SettledPriority[i]]

SettledParent == SettledSeeds[visit.item[1]]

Root == SettledParent.root

Shape ==
  /\ visit # NoVisit => DOMAIN visit = Fields /\ visit.stage \in StageSet
  /\ visit # NoVisit => visit.known = Len(SettledSeeds)
  /\ visit # NoVisit => visit.item \in Selectable(method, SettledPriority,
                                          Eligible(SettledSeeds, done, Root, round))
  /\ visit # NoVisit => Len(witnesses) < Budget

Executed ==
  Past("execute") => /\ visit.ranking \in Rankings[Root]
                     /\ visit.update = Observed(E0, SettledCoverage, visit.ranking)

Adopted == Past("adopt") => coverage = visit.update.state

WasScored ==
  Past("score") =>
    /\ history = [SettledHistory EXCEPT ![Root] = @ \cup {Signature}]
    /\ visit.new = (Signature \notin SettledHistory[Root])
    /\ visit.feedback = FeedbackScore(method, Relation, visit.update.gain, SettledHistory[Root],
                                      Signature, SettledParent.signature)

Retained == Past("retain") => seeds \in Admitted(SettledSeeds, SettledParent, Relation, Signature)

Prioritized ==
  Past("prioritize") =>
    \E p \in Priorities(method, visit.feedback) :
      priority = [i \in 1..Len(seeds) |-> IF i <= Len(SettledSeeds) THEN SettledPriority[i] ELSE p]

Staged == Executed /\ Adopted /\ WasScored /\ Retained /\ Prioritized

IInv == Types /\ Paired /\ Shape /\ Staged /\ WitnessesAccount

LEMMA NoVisitSettled ==
  visit = NoVisit => /\ SettledCoverage = coverage /\ SettledHistory = history
                     /\ SettledSeeds = seeds /\ SettledPriority = priority
                     /\ ~Past("execute") /\ ~Past("adopt") /\ ~Past("score")
                     /\ ~Past("retain") /\ ~Past("prioritize")
BY PastStages DEF PastIs, NoVisit, SettledCoverage, SettledHistory, SettledSeeds, SettledPriority

LEMMA RootsFinite == Cardinality(Roots) \in Nat
BY FrontierAssumption, FS_CardinalityType

LEMMA SignatureType ==
  \A r \in Roots : /\ RetrievalSignature(FirstRanking[r]) \in Signatures
                   /\ \A k \in Rankings[r] : RetrievalSignature(k) \in Signatures
BY DEF Signatures

\* A seed of an enumeration that its root may fix.
LEMMA SeedType ==
  ASSUME NEW r \in Roots, NEW p \in Nat, NEW n \in Nat, NEW e \in Enumerations[r],
         NEW s \in Signatures
  PROVE  Seed(r, p, n, e, s) \in SeedSet
<1>1. e.opps \subseteq Opportunities
  BY FrontierAssumption DEF LegalEnumeration
<1>2. e.status \in {f.status : f \in UNION {Enumerations[q] : q \in Roots}}
  OBVIOUS
<1> QED
  BY <1>1, <1>2 DEF Seed, SeedSet

LEMMA ChildPathType ==
  ASSUME NEW s \in SeedSet, NEW r
  PROVE  ChildPath(s, r) \in Nat /\ ChildPath(s, r) <= s.path + 1
BY DEF ChildPath, SeedSet

-----------------------------------------------------------------------------
LEMMA InitIInv == Init => IInv
<1> SUFFICES ASSUME Init PROVE IInv
  OBVIOUS
<1>1. Cardinality(Roots) \in Nat
  BY RootsFinite
<1> DEFINE n == Cardinality(Roots)
<1>2. PICK o \in Orders, e \in Enumerated : seeds = Initial(o, e)
  BY DEF Init, SearchInit
<1>3. o \in [1..n -> Roots]
  BY DEF Orders
<1>4. \A i \in 1..n : /\ o[i] \in Roots /\ e[o[i]] \in Enumerations[o[i]]
                      /\ RetrievalSignature(FirstRanking[o[i]]) \in Signatures
  BY <1>3, SignatureType DEF Enumerated
<1>5. \A i \in 1..n : Seed(o[i], 0, 0, e[o[i]], RetrievalSignature(FirstRanking[o[i]])) \in SeedSet
  BY <1>4, SeedType
<1>6. seeds \in [1..n -> SeedSet]
  BY <1>2, <1>5 DEF Initial
<1> HIDE DEF n
<1>7. seeds \in Seq(SeedSet) /\ Len(seeds) = n /\ n \in Nat
  BY <1>1, <1>6 DEF n
<1>8. visit = NoVisit /\ witnesses = << >>
  BY DEF Init, SearchInit
<1>9. Types
  BY <1>7, <1>8 DEF Init, SearchInit, Types
<1>10. Paired /\ Shape /\ Staged
  <2>1. priority = [i \in 1..n |-> 0]
    BY DEF Init, SearchInit, n
  <2> QED
    BY <1>7, <1>8, <2>1, NoVisitSettled DEF Paired, Shape, Staged, Executed, Adopted, WasScored,
       Retained, Prioritized
<1>11. WitnessesAccount
  <2>1. coverage = {} /\ history = [r \in Roots |-> {RetrievalSignature(FirstRanking[r])}]
    BY DEF Init, SearchInit
  <2>2. DOMAIN witnesses = {} /\ Len(witnesses) + 1 = 1
    BY <1>8
  <2>3. \A r \in Roots : Seen(r, 1) = {RetrievalSignature(FirstRanking[r])}
    BY DEF Seen
  <2> QED
    BY <1>8, <2>1, <2>2, <2>3, NoVisitSettled DEF WitnessesAccount
<1> QED
  BY <1>9, <1>10, <1>11 DEF IInv

-----------------------------------------------------------------------------
(* Nothing of a visit settles before its witness is on record.               *)

Unsettled ==
  /\ SettledCoverage' = SettledCoverage /\ SettledHistory' = SettledHistory
  /\ SettledSeeds' = SettledSeeds /\ SettledPriority' = SettledPriority

CoverageBy ==
  /\ visit.stage \in {"none", "execute", "adopt"} => SettledCoverage = coverage
  /\ visit.stage \in {"score", "retain", "prioritize", "finish"} =>
       SettledCoverage = coverage \ visit.update.newly

HistoryBy ==
  /\ visit.stage \in {"none", "execute", "adopt", "score"} => SettledHistory = history
  /\ visit.stage \in {"retain", "prioritize", "finish"} =>
       SettledHistory =
         IF visit.new THEN [history EXCEPT ![Parent.root] = @ \ {Signature}] ELSE history

SeedsBy ==
  /\ visit.stage \in {"none", "execute", "adopt", "score", "retain"} => SettledSeeds = seeds
  /\ visit.stage \in {"prioritize", "finish"} => SettledSeeds = [i \in 1..visit.known |-> seeds[i]]

PriorityBy ==
  /\ visit.stage \in {"none", "execute", "adopt", "score", "retain", "prioritize"} =>
       SettledPriority = priority
  /\ visit.stage = "finish" => SettledPriority = [i \in 1..visit.known |-> priority[i]]

SettledBy == CoverageBy /\ HistoryBy /\ SeedsBy /\ PriorityBy

LEMMA SettledStages == SettledBy
<1>1. CoverageBy
  BY PastStages DEF PastIs, SettledCoverage, CoverageBy
<1>2. HistoryBy
  BY PastStages DEF PastIs, SettledHistory, HistoryBy
<1>3. SeedsBy /\ PriorityBy
  BY PastStages DEF PastIs, SettledSeeds, SettledPriority, SeedsBy, PriorityBy
<1> QED
  BY <1>1, <1>2, <1>3 DEF SettledBy

LEMMA SettledStagesPrimed == SettledBy'
BY SettledStages, PTL

\* The stage of a visit, and the fields it has.
LEMMA VisitFacts ==
  ASSUME IInv, visit.stage # "none"
  PROVE  /\ visit # NoVisit /\ DOMAIN visit = Fields /\ visit.stage \in StageSet
BY DEF IInv, Shape, NoVisit

\* What is settled of the seeds is a prefix of them.
LEMMA SettledPrefix ==
  ASSUME IInv
  PROVE  /\ Len(seeds) \in Nat /\ Len(SettledSeeds) \in Nat /\ Len(SettledSeeds) <= Len(seeds)
         /\ \A i \in 1..Len(SettledSeeds) : SettledSeeds[i] = seeds[i]
         /\ \A i \in 1..Len(SettledSeeds) : SettledSeeds[i] \in SeedSet
BY DEF IInv, Paired, Types

\* The decision of a visit is of a settled seed, and not taken yet.
LEMMA VisitItem ==
  ASSUME IInv, visit # NoVisit
  PROVE  /\ visit.item \in (1..Len(SettledSeeds)) \X Opportunities
         /\ visit.item[2] \in SettledParent.opps
         /\ visit.item \notin DOMAIN done
         /\ round >= SettledParent.round + 1
         /\ SettledParent \in SeedSet /\ Root \in Roots /\ Parent = SettledParent
<1>1. visit.item \in Eligible(SettledSeeds, done, Root, round)
  BY DEF IInv, Shape, Selectable
<1>2. /\ visit.item \in (1..Len(SettledSeeds)) \X Opportunities
      /\ visit.item[2] \in SettledParent.opps
      /\ visit.item \notin DOMAIN done
      /\ round >= SettledParent.round + 1
  BY <1>1 DEF Eligible, ItemsOf, Items, SettledParent, FirstEligibleRound
<1>3. visit.item[1] \in 1..Len(SettledSeeds)
  BY <1>2
<1>4. SettledParent \in SeedSet /\ Parent = SettledParent
  BY <1>3, SettledPrefix DEF SettledParent, Parent
<1>5. Root \in Roots
  BY <1>4 DEF Root, SeedSet
<1> QED
  BY <1>2, <1>4, <1>5

LEMMA SelectUnsettled == IInv /\ Select => Unsettled /\ visit'.stage = "execute" /\ visit.stage = "none"
<1> SUFFICES ASSUME IInv, Select PROVE Unsettled /\ visit'.stage = "execute" /\ visit.stage = "none"
  OBVIOUS
<1>1. visit'.stage = "execute" /\ visit.stage = "none"
  BY DEF Select, NoVisit
<1> QED
  BY <1>1, SettledStages, SettledStagesPrimed DEF Select, SettledBy, CoverageBy, HistoryBy, SeedsBy, PriorityBy, Unsettled, search

LEMMA ExecuteUnsettled == IInv /\ Execute => Unsettled /\ visit'.stage = "adopt" /\ visit.stage = "execute"
<1> SUFFICES ASSUME IInv, Execute PROVE Unsettled /\ visit'.stage = "adopt" /\ visit.stage = "execute"
  OBVIOUS
<1>1. visit.stage = "execute" /\ DOMAIN visit = Fields
  BY VisitFacts DEF Execute, At
<1>2. visit'.stage = "adopt"
  BY <1>1 DEF Execute, To, Fields
<1> QED
  BY <1>1, <1>2, SettledStages, SettledStagesPrimed DEF Execute, SettledBy, CoverageBy, HistoryBy, SeedsBy, PriorityBy, Unsettled, search

LEMMA AdoptUnsettled ==
  IInv /\ Adopt => Unsettled /\ visit'.stage = "score" /\ visit.stage = "adopt"
<1> SUFFICES ASSUME IInv, Adopt PROVE Unsettled /\ visit'.stage = "score" /\ visit.stage = "adopt"
  OBVIOUS
<1>1. visit.stage = "adopt" /\ DOMAIN visit = Fields
  BY VisitFacts DEF Adopt, At
<1>2. visit'.stage = "score" /\ visit'.update = visit.update
  BY <1>1 DEF Adopt, To, Fields
<1>3. visit.update = Observed(E0, coverage, visit.ranking)
  BY <1>1, PastStages, SettledStages DEF PastIs, IInv, Staged, Executed, SettledBy, CoverageBy
<1> DEFINE T == TokenIds(visit.ranking)
<1>4. visit.update.state = coverage \cup T /\ visit.update.newly = T \ coverage
  BY <1>3 DEF Observed
<1>5. SettledCoverage = coverage /\ SettledCoverage' = coverage' \ visit'.update.newly
  BY <1>1, <1>2, SettledStages, SettledStagesPrimed DEF SettledBy, CoverageBy
<1>6. coverage' = coverage \cup T
  BY <1>4 DEF Adopt
<1>7. SettledCoverage' = SettledCoverage
  BY <1>2, <1>4, <1>5, <1>6
<1> QED
  BY <1>1, <1>2, <1>7, SettledStages, SettledStagesPrimed DEF Adopt, SettledBy, CoverageBy, HistoryBy, SeedsBy, PriorityBy, Unsettled

\* A signature that was inserted and is taken out again.
LEMMA TakenOut ==
  ASSUME NEW A, NEW s
  PROVE  /\ s \in A => A \cup {s} = A
         /\ s \notin A => (A \cup {s}) \ {s} = A
OBVIOUS

LEMMA ScoreUnsettled ==
  IInv /\ Score => Unsettled /\ visit'.stage = "retain" /\ visit.stage = "score"
<1> SUFFICES ASSUME IInv, Score PROVE Unsettled /\ visit'.stage = "retain" /\ visit.stage = "score"
  OBVIOUS
<1>1. visit.stage = "score" /\ DOMAIN visit = Fields /\ visit # NoVisit
  BY VisitFacts DEF Score, At
<1>2. /\ visit'.stage = "retain" /\ visit'.update = visit.update /\ visit'.ranking = visit.ranking
      /\ visit'.item = visit.item
      /\ visit'.new = (Signature \notin history[Parent.root])
  BY <1>1 DEF Score, Scored, To, Fields
<1>3. Signature' = Signature /\ Parent' = Parent /\ Parent.root \in Roots
  BY <1>1, <1>2, VisitItem DEF Signature, Parent, Score, Root
<1> DEFINE sig == Signature
           r == Parent.root
           A == history[r]
<1>4. history' = [history EXCEPT ![r] = A \cup {sig}]
  BY DEF Score
<1>5. history = [q \in Roots |-> history[q]]
  BY DEF IInv, Types
<1>6. SettledHistory = history
  BY <1>1, SettledStages DEF SettledBy, HistoryBy
<1>7. SettledHistory' = IF sig \notin A THEN [history' EXCEPT ![r] = @ \ {sig}] ELSE history'
  BY <1>2, <1>3, SettledStagesPrimed DEF SettledBy, HistoryBy
<1>8. r \in Roots
  BY <1>3
<1> HIDE DEF sig, r
<1>9. SettledHistory' = history
  <2>1. CASE sig \in A
    <3>1. A \cup {sig} = A
      BY <2>1, TakenOut
    <3> QED
      BY <1>4, <1>5, <1>7, <1>8, <2>1, <3>1
  <2>2. CASE sig \notin A
    <3>1. (A \cup {sig}) \ {sig} = A
      BY <2>2, TakenOut
    <3> QED
      BY <1>4, <1>5, <1>7, <1>8, <2>2, <3>1
  <2> QED
    BY <2>1, <2>2
<1> QED
  BY <1>1, <1>2, <1>6, <1>9, SettledStages, SettledStagesPrimed DEF Score, SettledBy, CoverageBy, HistoryBy, SeedsBy, PriorityBy, Unsettled

LEMMA RetainUnsettled ==
  IInv /\ Retain => /\ Unsettled /\ visit'.stage = "prioritize" /\ visit.stage = "retain"
                    /\ \A i \in 1..Len(seeds) : seeds'[i] = seeds[i]
<1> SUFFICES ASSUME IInv, Retain
             PROVE /\ Unsettled /\ visit'.stage = "prioritize" /\ visit.stage = "retain"
                   /\ \A i \in 1..Len(seeds) : seeds'[i] = seeds[i]
  OBVIOUS
<1>1. visit.stage = "retain" /\ DOMAIN visit = Fields /\ visit # NoVisit
  BY VisitFacts DEF Retain, At
<1>2. visit'.stage = "prioritize" /\ visit' = [visit EXCEPT !.stage = "prioritize"]
  BY <1>1 DEF Retain, To, Fields
<1>3. /\ visit'.update = visit.update /\ visit'.ranking = visit.ranking /\ visit'.item = visit.item
      /\ visit'.known = visit.known /\ visit'.new = visit.new
  BY <1>1, <1>2 DEF Fields
<1>4. SettledSeeds = seeds /\ seeds \in Seq(SeedSet) /\ visit.known = Len(seeds)
  BY <1>1, SettledStages DEF SettledBy, SeedsBy, IInv, Types, Shape
<1>5. visit.item[1] \in 1..Len(seeds)
  BY <1>1, <1>4, VisitItem
<1>6. PICK e : seeds' = seeds \/ seeds' = Append(seeds, e)
  BY DEF Retain, Admitted
<1>7. /\ \A i \in 1..Len(seeds) : seeds'[i] = seeds[i]
      /\ Len(seeds) \in Nat
  BY <1>4, <1>6
<1>8. [i \in 1..Len(seeds) |-> seeds'[i]] = seeds
  BY <1>4, <1>7
<1>9. SettledSeeds' = seeds
  BY <1>2, <1>3, <1>4, <1>8, SettledStagesPrimed DEF SettledBy, SeedsBy
<1>10. Parent' = Parent /\ Signature' = Signature
  BY <1>3, <1>5, <1>7 DEF Parent, Signature
<1>11. SettledCoverage' = SettledCoverage /\ SettledPriority' = SettledPriority
  BY <1>1, <1>2, <1>3, SettledStages, SettledStagesPrimed
     DEF Retain, SettledBy, CoverageBy, PriorityBy
<1>12. SettledHistory' = SettledHistory
  BY <1>1, <1>2, <1>3, <1>10, SettledStages, SettledStagesPrimed DEF Retain, SettledBy, HistoryBy
<1> QED
  BY <1>1, <1>2, <1>4, <1>7, <1>9, <1>11, <1>12 DEF Unsettled

LEMMA PrioritizeUnsettled ==
  IInv /\ Prioritize => Unsettled /\ visit'.stage = "finish" /\ visit.stage = "prioritize"
<1> SUFFICES ASSUME IInv, Prioritize
             PROVE Unsettled /\ visit'.stage = "finish" /\ visit.stage = "prioritize"
  OBVIOUS
<1>1. visit.stage = "prioritize" /\ DOMAIN visit = Fields /\ visit # NoVisit
  BY VisitFacts DEF Prioritize, At
<1>2. /\ visit'.stage = "finish"
      /\ visit'.update = visit.update /\ visit'.ranking = visit.ranking /\ visit'.item = visit.item
      /\ visit'.known = visit.known /\ visit'.new = visit.new
  BY <1>1 DEF Prioritize, To, Fields
<1>3. visit.known = Len(SettledSeeds) /\ visit.known \in Nat /\ visit.known <= Len(seeds)
      /\ Len(seeds) \in Nat
  BY <1>1, SettledPrefix DEF IInv, Shape, Types
<1>4. SettledPriority = priority /\ priority = [i \in 1..visit.known |-> priority[i]]
  BY <1>1, <1>3, SettledStages DEF SettledBy, PriorityBy, IInv, Paired
<1>5. \A i \in 1..visit.known : priority'[i] = priority[i]
  BY <1>3 DEF Prioritize
<1>6. SettledPriority' = [i \in 1..visit.known |-> priority'[i]]
  BY <1>2, SettledStagesPrimed DEF SettledBy, PriorityBy
<1>7. SettledPriority' = SettledPriority
  BY <1>4, <1>5, <1>6
<1>8. UNCHANGED <<coverage, history, seeds>> /\ Parent' = Parent /\ Signature' = Signature
  BY <1>2 DEF Prioritize, Parent, Signature
<1>9. SettledCoverage' = SettledCoverage
  BY <1>1, <1>2, <1>8, SettledStages, SettledStagesPrimed DEF SettledBy, CoverageBy
<1>10. SettledHistory' = SettledHistory
  BY <1>1, <1>2, <1>8, SettledStages, SettledStagesPrimed DEF SettledBy, HistoryBy
<1>11. SettledSeeds' = SettledSeeds
  BY <1>1, <1>2, <1>8, SettledStages, SettledStagesPrimed DEF SettledBy, SeedsBy
<1> QED
  BY <1>1, <1>2, <1>7, <1>9, <1>10, <1>11 DEF Unsettled

LEMMA NoVisitSettledPrimed ==
  visit' = NoVisit => /\ SettledCoverage' = coverage' /\ SettledHistory' = history'
                      /\ SettledSeeds' = seeds' /\ SettledPriority' = priority'
<1>1. (visit = NoVisit => /\ SettledCoverage = coverage /\ SettledHistory = history
                         /\ SettledSeeds = seeds /\ SettledPriority = priority)'
  BY NoVisitSettled, PTL
<1> QED
  BY <1>1 DEF NoVisit

\* A visit given up, a new round or no step at all settle nothing either.
LEMMA ExhaustUnsettled ==
  IInv /\ Exhaust => Unsettled /\ visit' = NoVisit /\ visit.stage = "execute" /\ visit # NoVisit
<1> SUFFICES ASSUME IInv, Exhaust
             PROVE Unsettled /\ visit' = NoVisit /\ visit.stage = "execute" /\ visit # NoVisit
  OBVIOUS
<1>1. visit.stage = "execute" /\ visit # NoVisit /\ visit' = NoVisit
  BY VisitFacts DEF Exhaust, At, EndVisit
<1> QED
  BY <1>1, SettledStages, NoVisitSettledPrimed
     DEF Exhaust, SettledBy, CoverageBy, HistoryBy, SeedsBy, PriorityBy, Unsettled

LEMMA AdvanceUnsettled == Advance => Unsettled /\ visit = NoVisit /\ visit' = NoVisit
BY NoVisitSettled, NoVisitSettledPrimed DEF Advance, NextRound, Unsettled

LEMMA StutterUnsettled == UNCHANGED vars => Unsettled
<1> SUFFICES ASSUME UNCHANGED vars PROVE Unsettled
  OBVIOUS
<1>1. /\ \A s : Past(s)' <=> Past(s)
      /\ UNCHANGED <<Parent, Signature, visit, seeds, priority, coverage, history>>
  BY DEF vars, search, Past, Parent, Signature
<1> QED
  BY <1>1 DEF Unsettled, SettledCoverage, SettledHistory, SettledSeeds, SettledPriority

-----------------------------------------------------------------------------
(* What an action keeps of the invariant while the visit goes on.            *)

\* The decision of the visit stays the decision.
SameDecision ==
  /\ Unsettled /\ visit # NoVisit
  /\ UNCHANGED <<method, round, done, witnesses>>
  /\ DOMAIN visit' = Fields /\ visit'.stage \in StageSet
  /\ visit'.item = visit.item /\ visit'.known = visit.known

SameResult == visit'.ranking = visit.ranking /\ visit'.update = visit.update

SameScore == visit'.new = visit.new /\ visit'.feedback = visit.feedback

\* What the stages of one visit share.
LEMMA SameNames ==
  SameDecision => /\ SettledParent' = SettledParent /\ Root' = Root /\ Relation' = Relation
                  /\ SameResult => Signature' = Signature
BY DEF SameDecision, Unsettled, SettledParent, Root, Relation, SameResult, Signature

LEMMA ShapeKept == IInv /\ SameDecision => Shape'
<1> SUFFICES ASSUME IInv, SameDecision PROVE Shape'
  OBVIOUS
<1>1. /\ DOMAIN visit' = Fields /\ visit'.stage \in StageSet
      /\ visit'.known = Len(SettledSeeds')
      /\ Len(witnesses') < Budget
  BY DEF IInv, SameDecision, Unsettled, Shape
<1>2. visit'.item \in Selectable(method, SettledPriority, Eligible(SettledSeeds, done, Root, round))
  BY DEF IInv, SameDecision, Shape
<1>3. /\ SettledPriority' = SettledPriority /\ SettledSeeds' = SettledSeeds /\ Root' = Root
      /\ UNCHANGED <<method, done, round>>
  BY SameNames DEF SameDecision, Unsettled
<1> QED
  BY <1>1, <1>2, <1>3 DEF Shape

LEMMA PairedKept == IInv /\ Unsettled /\ UNCHANGED seeds => Paired'
BY DEF IInv, Unsettled, Paired

LEMMA AccountKept == IInv /\ Unsettled /\ UNCHANGED witnesses => WitnessesAccount'
<1> SUFFICES ASSUME IInv, Unsettled, UNCHANGED witnesses PROVE WitnessesAccount'
  OBVIOUS
<1>1. \A r, n : Seen(r, n)' = Seen(r, n)
  BY DEF Seen
<1> QED
  BY <1>1 DEF IInv, Unsettled, WitnessesAccount

LEMMA ExecutedKept == IInv /\ SameDecision /\ SameResult /\ Past("execute") => Executed'
BY SameNames DEF IInv, Staged, Executed, SameDecision, SameResult, Unsettled

LEMMA AdoptedKept ==
  IInv /\ SameDecision /\ SameResult /\ UNCHANGED coverage /\ Past("adopt") => Adopted'
BY DEF IInv, Staged, Adopted, SameDecision, SameResult

LEMMA WasScoredKept ==
  /\ IInv /\ SameDecision /\ SameResult /\ SameScore /\ UNCHANGED history
  /\ Past("score")
  => WasScored'
BY SameNames DEF IInv, Staged, WasScored, SameDecision, SameResult, SameScore, Unsettled

LEMMA RetainedKept ==
  IInv /\ SameDecision /\ SameResult /\ UNCHANGED seeds /\ Past("retain") => Retained'
BY SameNames DEF IInv, Staged, Retained, SameDecision, SameResult, Unsettled, Admitted

LEMMA PrioritizedKept ==
  /\ IInv /\ SameDecision /\ SameResult /\ SameScore /\ UNCHANGED <<seeds, priority>>
  /\ Past("prioritize")
  => Prioritized'
BY DEF IInv, Staged, Prioritized, SameDecision, SameResult, SameScore, Unsettled

\* Stages that are not past say nothing.
LEMMA Vacuous ==
  /\ visit'.stage \in {"none", "execute"} => Executed'
  /\ visit'.stage \in {"none", "execute", "adopt"} => Adopted'
  /\ visit'.stage \in {"none", "execute", "adopt", "score"} => WasScored'
  /\ visit'.stage \in {"none", "execute", "adopt", "score", "retain"} => Retained'
  /\ visit'.stage \in {"none", "execute", "adopt", "score", "retain", "prioritize"} => Prioritized'
BY PastStagesPrimed DEF PastIs, Executed, Adopted, WasScored, Retained, Prioritized

-----------------------------------------------------------------------------
(* Every action keeps the invariant.                                         *)

LEMMA SelectIInv == IInv /\ Select => IInv'
<1> SUFFICES ASSUME IInv, Select PROVE IInv'
  OBVIOUS
<1>1. Unsettled /\ visit'.stage = "execute" /\ visit.stage = "none"
  BY SelectUnsettled
<1>2. visit = NoVisit
  BY DEF Select
<1>3. Types' /\ WitnessesAccount' /\ Paired'
  BY <1>1, AccountKept, PairedKept DEF IInv, Types, Select, search
<1>4. Shape'
  <2>1. DOMAIN visit' = Fields /\ visit'.stage \in StageSet /\ visit'.known = Len(seeds)
    BY DEF Select, Fields, StageSet
  <2>2. PICK root \in Roots : visit'.item \in Selectable(method, priority, Frontier(root))
    BY DEF Select
  <2>3. visit'.item \in Eligible(seeds, done, root, round)
    BY <2>2 DEF Selectable, Frontier
  <2>4. seeds[visit'.item[1]].root = root
    BY <2>3 DEF Eligible, ItemsOf
  <2>5. SettledSeeds' = seeds /\ SettledPriority' = priority /\ UNCHANGED <<method, done, round, witnesses>>
    BY <1>1, <1>2, NoVisitSettled DEF Select, Unsettled, search
  <2>6. Root' = root
    BY <2>4, <2>5 DEF Root, SettledParent
  <2>7. Len(witnesses') < Budget
    BY <2>5 DEF Select
  <2> QED
    BY <2>1, <2>2, <2>5, <2>6, <2>7 DEF Shape, Frontier
<1>5. Staged'
  BY <1>1, Vacuous DEF Staged
<1> QED
  BY <1>3, <1>4, <1>5 DEF IInv

LEMMA ExecuteIInv == IInv /\ Execute => IInv'
<1> SUFFICES ASSUME IInv, Execute PROVE IInv'
  OBVIOUS
<1>1. Unsettled /\ visit'.stage = "adopt" /\ visit.stage = "execute"
  BY ExecuteUnsettled
<1>2. visit # NoVisit /\ DOMAIN visit = Fields
  BY <1>1, VisitFacts
<1>3. SameDecision
  BY <1>1, <1>2 DEF SameDecision, Execute, To, search, Fields, StageSet
<1>4. Types' /\ WitnessesAccount' /\ Paired' /\ Shape'
  BY <1>1, <1>3, AccountKept, PairedKept, ShapeKept DEF IInv, Types, Execute, search
<1>5. Executed'
  <2>1. PICK k \in Rankings[Parent.root] :
          visit' = [To("adopt") EXCEPT !.ranking = k, !.update = Observed(E0, coverage, k)]
    BY DEF Execute
  <2>2. visit'.ranking = k /\ visit'.update = Observed(E0, coverage, k)
    BY <1>2, <2>1 DEF To, Fields
  <2>3. Parent.root = Root /\ Root' = Root
    BY <1>2, <1>3, VisitItem, SameNames DEF Root
  <2>4. SettledCoverage' = coverage
    BY <1>1, SettledStages DEF Unsettled, SettledBy, CoverageBy
  <2> QED
    BY <2>1, <2>2, <2>3, <2>4 DEF Executed
<1>6. Staged'
  BY <1>1, <1>5, Vacuous DEF Staged
<1> QED
  BY <1>4, <1>6 DEF IInv

LEMMA AdoptIInv == IInv /\ Adopt => IInv'
<1> SUFFICES ASSUME IInv, Adopt PROVE IInv'
  OBVIOUS
<1>1. Unsettled /\ visit'.stage = "score" /\ visit.stage = "adopt"
  BY AdoptUnsettled
<1>2. visit # NoVisit /\ DOMAIN visit = Fields
  BY <1>1, VisitFacts
<1>3. SameDecision /\ SameResult
  BY <1>1, <1>2 DEF SameDecision, SameResult, Adopt, To, Fields, StageSet
<1>4. visit.update = Observed(E0, SettledCoverage, visit.ranking) /\ visit.ranking \in Rankings[Root]
      /\ SettledCoverage = coverage
  BY <1>1, PastStages, SettledStages DEF PastIs, IInv, Staged, Executed, SettledBy, CoverageBy
<1>5. TokenIds(visit.ranking) \subseteq E0
  BY <1>2, <1>4, FrontierAssumption, VisitItem DEF Observable
<1>6. coverage' \subseteq E0
  BY <1>4, <1>5 DEF Adopt, Observed, IInv, Types
<1>7. Types' /\ WitnessesAccount' /\ Paired' /\ Shape'
  BY <1>1, <1>3, <1>6, AccountKept, PairedKept, ShapeKept DEF IInv, Types, Adopt
<1>8. Executed'
  BY <1>1, <1>3, ExecutedKept, PastStages DEF PastIs
<1>9. Adopted'
  BY <1>3 DEF Adopt, Adopted, SameResult
<1>10. Staged'
  BY <1>1, <1>8, <1>9, Vacuous DEF Staged
<1> QED
  BY <1>7, <1>10 DEF IInv

LEMMA ScoreIInv == IInv /\ Score => IInv'
<1> SUFFICES ASSUME IInv, Score PROVE IInv'
  OBVIOUS
<1>1. Unsettled /\ visit'.stage = "retain" /\ visit.stage = "score"
  BY ScoreUnsettled
<1>2. visit # NoVisit /\ DOMAIN visit = Fields
  BY <1>1, VisitFacts
<1>3. SameDecision /\ SameResult
  BY <1>1, <1>2 DEF SameDecision, SameResult, Score, Scored, To, Fields, StageSet
<1>4. SettledHistory = history /\ SettledHistory' = history
  BY <1>1, SettledStages DEF SettledBy, HistoryBy, Unsettled
<1>5. Parent = SettledParent /\ Parent.root = Root /\ Root \in Roots
  BY <1>2, VisitItem DEF Root
<1>6. history' = [history EXCEPT ![Root] = @ \cup {Signature}]
  BY <1>5 DEF Score
<1>7. DOMAIN history' = Roots /\ history' = [r \in Roots |-> history'[r]]
  BY <1>6 DEF IInv, Types
<1>8. Types' /\ WitnessesAccount' /\ Paired' /\ Shape'
  BY <1>1, <1>3, <1>7, AccountKept, PairedKept, ShapeKept DEF IInv, Types, Score
<1>9. Executed' /\ Adopted'
  BY <1>1, <1>3, ExecutedKept, AdoptedKept, PastStages DEF PastIs, Score
<1>10. /\ visit'.new = (Signature \notin history[Root])
       /\ visit'.feedback = FeedbackScore(method, Relation, visit.update.gain, history[Root],
                                          Signature, SettledParent.signature)
  BY <1>2, <1>5 DEF Score, Scored, To, Fields
<1>11. WasScored'
  BY <1>3, <1>4, <1>6, <1>10, SameNames DEF WasScored, SameResult, SameDecision
<1>12. Staged'
  BY <1>1, <1>9, <1>11, Vacuous DEF Staged
<1> QED
  BY <1>8, <1>12 DEF IInv

\* What is admitted is a seed.
LEMMA AdmittedType ==
  ASSUME IInv, NEW p \in SeedSet, NEW s \in Signatures, NEW r,
         NEW S \in Admitted(seeds, p, r, s)
  PROVE  S = seeds \/ \E c \in SeedSet : /\ S = Append(seeds, c) /\ c.root = p.root
                                         /\ c.round = round /\ c.path <= p.path + 1
                                         /\ \E e \in Enumerations[p.root] :
                                              c.status = e.status /\ c.opps = e.opps
<1>1. CASE S = seeds
  BY <1>1
<1>2. ASSUME NEW e \in Enumerations[p.root],
             S = Append(seeds, Seed(p.root, ChildPath(p, r), round, e, s))
      PROVE  \E c \in SeedSet : /\ S = Append(seeds, c) /\ c.root = p.root
                                /\ c.round = round /\ c.path <= p.path + 1
                                /\ \E f \in Enumerations[p.root] :
                                     c.status = f.status /\ c.opps = f.opps
  <2> DEFINE c == Seed(p.root, ChildPath(p, r), round, e, s)
  <2>1. p.root \in Roots /\ round \in Nat
    BY DEF IInv, Types, SeedSet
  <2>2. c \in SeedSet
    BY <2>1, SeedType, ChildPathType
  <2>3. c.root = p.root /\ c.round = round /\ c.path = ChildPath(p, r) /\ c.status = e.status
        /\ c.opps = e.opps
    BY DEF Seed
  <2> HIDE DEF c
  <2>4. S = Append(seeds, c)
    BY <1>2 DEF c
  <2> QED
    BY <2>2, <2>3, <2>4, ChildPathType
<1> QED
  BY <1>1, <1>2 DEF Admitted

\* What a retention makes of the seeds.
LEMMA RetainSeeds ==
  ASSUME IInv, Retain
  PROVE  /\ seeds' \in Seq(SeedSet) /\ Len(seeds) <= Len(seeds')
         /\ seeds' = seeds \/ \E c \in SeedSet : /\ seeds' = Append(seeds, c) /\ c.root = Root
                                                 /\ c.round = round /\ c.path <= SettledParent.path + 1
                                                 /\ \E e \in Enumerations[Root] :
                                                      c.status = e.status /\ c.opps = e.opps
<1>1. visit.stage = "retain" /\ visit # NoVisit
  BY VisitFacts DEF Retain, At
<1>2. Parent = SettledParent /\ SettledParent \in SeedSet /\ Root \in Roots
  BY <1>1, VisitItem
<1>3. visit.ranking \in Rankings[Root]
  BY <1>1, PastStages DEF PastIs, IInv, Staged, Executed
<1>4. Signature \in Signatures
  BY <1>2, <1>3, SignatureType DEF Signature
<1>5. seeds' \in Admitted(seeds, SettledParent, Relation, Signature)
  BY <1>2 DEF Retain
<1>6. seeds' = seeds \/ \E c \in SeedSet : /\ seeds' = Append(seeds, c) /\ c.root = Root
                                           /\ c.round = round /\ c.path <= SettledParent.path + 1
                                           /\ \E e \in Enumerations[Root] :
                                                c.status = e.status /\ c.opps = e.opps
  BY <1>2, <1>4, <1>5, AdmittedType DEF Root
<1>7. seeds \in Seq(SeedSet)
  BY DEF IInv, Types
<1>8. seeds' \in Seq(SeedSet) /\ Len(seeds) <= Len(seeds')
  BY <1>6, <1>7, AppendProperties
<1> QED
  BY <1>6, <1>8

LEMMA RetainIInv == IInv /\ Retain => IInv'
<1> SUFFICES ASSUME IInv, Retain PROVE IInv'
  OBVIOUS
<1>1. /\ Unsettled /\ visit'.stage = "prioritize" /\ visit.stage = "retain"
      /\ \A i \in 1..Len(seeds) : seeds'[i] = seeds[i]
  BY RetainUnsettled
<1>2. visit # NoVisit /\ DOMAIN visit = Fields
  BY <1>1, VisitFacts
<1>3. SameDecision /\ SameResult /\ SameScore
  BY <1>1, <1>2 DEF SameDecision, SameResult, SameScore, Retain, To, Fields, StageSet
<1>4. seeds' \in Seq(SeedSet) /\ Len(seeds) <= Len(seeds')
  BY RetainSeeds
<1>5. Types'
  BY <1>4 DEF IInv, Types, Retain
<1>6. SettledSeeds = seeds /\ SettledSeeds' = seeds
  BY <1>1, SettledStages DEF SettledBy, SeedsBy, Unsettled
<1>7. Paired'
  BY <1>1, <1>4, <1>6 DEF Paired, IInv, Unsettled
<1>8. Shape' /\ WitnessesAccount'
  BY <1>3, ShapeKept, AccountKept DEF SameDecision
<1>9. Executed' /\ Adopted' /\ WasScored'
  BY <1>1, <1>3, ExecutedKept, AdoptedKept, WasScoredKept, PastStages DEF PastIs, Retain
<1>10. Retained'
  <2>1. seeds' \in Admitted(seeds, SettledParent, Relation, Signature)
    BY <1>2, VisitItem DEF Retain
  <2>2. round' = round
    BY DEF Retain
  <2> QED
    BY <1>3, <1>6, <2>1, <2>2, SameNames DEF Retained, Admitted
<1>11. Staged'
  BY <1>1, <1>9, <1>10, Vacuous DEF Staged
<1> QED
  BY <1>5, <1>7, <1>8, <1>11 DEF IInv

LEMMA PrioritizeIInv == IInv /\ Prioritize => IInv'
<1> SUFFICES ASSUME IInv, Prioritize PROVE IInv'
  OBVIOUS
<1>1. Unsettled /\ visit'.stage = "finish" /\ visit.stage = "prioritize"
  BY PrioritizeUnsettled
<1>2. visit # NoVisit /\ DOMAIN visit = Fields
  BY <1>1, VisitFacts
<1>3. SameDecision /\ SameResult /\ SameScore
  BY <1>1, <1>2 DEF SameDecision, SameResult, SameScore, Prioritize, To, Fields, StageSet
<1>4. Types' /\ WitnessesAccount' /\ Paired' /\ Shape'
  BY <1>1, <1>3, AccountKept, PairedKept, ShapeKept DEF IInv, Types, Prioritize
<1>5. Executed' /\ Adopted' /\ WasScored' /\ Retained'
  BY <1>1, <1>3, ExecutedKept, AdoptedKept, WasScoredKept, RetainedKept, PastStages
     DEF PastIs, Prioritize
<1>6. Prioritized'
  <2>1. PICK p \in Priorities(method, visit.feedback) :
          priority' = [i \in 1..Len(seeds) |-> IF i <= visit.known THEN priority[i] ELSE p]
    BY DEF Prioritize
  <2>2. /\ SettledPriority' = priority /\ SettledSeeds' = SettledSeeds
        /\ visit.known = Len(SettledSeeds)
        /\ UNCHANGED <<method, seeds>> /\ visit'.feedback = visit.feedback
    BY <1>1, <1>2, <1>3, SettledStages
       DEF Unsettled, Prioritize, SettledBy, PriorityBy, IInv, Shape, SameScore
  <2> QED
    BY <2>1, <2>2 DEF Prioritized
<1>7. Staged'
  BY <1>5, <1>6 DEF Staged
<1> QED
  BY <1>4, <1>7 DEF IInv

\* Between two visits only the variables themselves count.
LEMMA BetweenIInv ==
  ASSUME visit' = NoVisit, Types', WitnessesAccount',
         priority' = [i \in 1..Len(seeds') |-> priority'[i]]
  PROVE  IInv'
<1>1. visit'.stage = "none"
  BY DEF NoVisit
<1>2. Staged'
  BY <1>1, Vacuous DEF Staged
<1>3. Shape'
  BY DEF Shape, NoVisit
<1>4. Paired'
  BY NoVisitSettledPrimed DEF Paired, Types
<1> QED
  BY <1>2, <1>3, <1>4 DEF IInv

\* What leaves the search as it is, and no visit behind.
LEMMA QuietIInv ==
  ASSUME IInv, Unsettled, visit' = NoVisit, round' \in Nat \ {0},
         UNCHANGED <<seeds, priority, coverage, history, witnesses>>
  PROVE  IInv'
<1>1. Types' /\ WitnessesAccount'
  BY AccountKept DEF IInv, Types
<1>2. SettledSeeds' = seeds' /\ SettledPriority' = priority'
  BY NoVisitSettledPrimed
<1>3. priority' = [i \in 1..Len(seeds') |-> priority'[i]]
  BY <1>2 DEF IInv, Paired, Unsettled
<1> QED
  BY <1>1, <1>3, BetweenIInv

LEMMA ExhaustIInv == IInv /\ Exhaust => IInv'
BY ExhaustUnsettled, QuietIInv DEF Exhaust, IInv, Types

LEMMA AdvanceIInv == IInv /\ Advance => IInv'
<1> SUFFICES ASSUME IInv, Advance PROVE IInv'
  OBVIOUS
<1>1. round' \in Nat \ {0}
  BY DEF Advance, NextRound, IInv, Types
<1> QED
  BY <1>1, AdvanceUnsettled, QuietIInv DEF Advance, NextRound

LEMMA StutterIInv == IInv /\ UNCHANGED vars => IInv'
<1> SUFFICES ASSUME IInv, UNCHANGED vars PROVE IInv'
  OBVIOUS
<1>1. Unsettled
  BY StutterUnsettled
<1>2. CASE visit = NoVisit
  BY <1>1, <1>2, QuietIInv DEF vars, search, IInv, Types
<1>3. CASE visit # NoVisit
  <2>1. DOMAIN visit = Fields /\ visit.stage \in StageSet
    BY <1>3 DEF IInv, Shape
  <2>2. SameDecision /\ SameResult /\ SameScore
    BY <1>1, <1>3, <2>1 DEF SameDecision, SameResult, SameScore, vars, search
  <2>3. Types' /\ WitnessesAccount' /\ Paired' /\ Shape'
    BY <1>1, <2>2, AccountKept, PairedKept, ShapeKept DEF IInv, Types, vars, search
  <2>4. visit'.stage = visit.stage /\ UNCHANGED <<seeds, priority, coverage, history>>
    BY DEF vars, search
  <2>5. Executed' /\ Adopted'
    BY <2>1, <2>2, <2>4, ExecutedKept, AdoptedKept, Vacuous, PastStages DEF PastIs, StageSet
  <2>6. WasScored' /\ Retained' /\ Prioritized'
    BY <2>1, <2>2, <2>4, WasScoredKept, RetainedKept, PrioritizedKept, Vacuous, PastStages
       DEF PastIs, StageSet
  <2> QED
    BY <2>3, <2>5, <2>6 DEF IInv, Staged
<1> QED
  BY <1>2, <1>3

-----------------------------------------------------------------------------
(* One more witness.                                                         *)

\* Of the IDs that are new to what the others reached.
Accounts(w, C) ==
  /\ C = UNION {w[i].ids : i \in DOMAIN w}
  /\ C = UNION {w[i].newly : i \in DOMAIN w}
  /\ \A i, j \in DOMAIN w : i # j => w[i].newly \cap w[j].newly = {}

LEMMA OneMoreWitness ==
  ASSUME NEW w \in Seq(WitnessSet), NEW v \in WitnessSet, NEW C,
         Accounts(w, C), v.newly = v.ids \ C
  PROVE  Accounts(Append(w, v), C \cup v.ids)
<1> DEFINE u == Append(w, v)
           T == v.ids
<1>0. /\ C = UNION {w[i].ids : i \in DOMAIN w}
      /\ C = UNION {w[i].newly : i \in DOMAIN w}
      /\ \A i, j \in DOMAIN w : i # j => w[i].newly \cap w[j].newly = {}
  BY DEF Accounts
<1> DEFINE n == Len(w)
<1>1. /\ n \in Nat /\ DOMAIN w = 1..n /\ DOMAIN u = 1..(n + 1)
      /\ \A i \in 1..n : u[i] = w[i]
      /\ u[n + 1] = v
  BY AppendProperties, LenProperties
<1>2. DOMAIN u = DOMAIN w \cup {n + 1} /\ n + 1 \notin DOMAIN w
  BY <1>1
<1> HIDE DEF n, u, T
<1>3. C \cup T = UNION {u[i].ids : i \in DOMAIN u}
  <2>1. \A i \in DOMAIN w : u[i].ids = w[i].ids
    BY <1>1
  <2>2. u[n + 1].ids = T
    BY <1>1 DEF T
  <2> QED
    BY <1>0, <1>2, <2>1, <2>2
<1>4. C \cup T = UNION {u[i].newly : i \in DOMAIN u}
  <2>1. \A i \in DOMAIN w : u[i].newly = w[i].newly
    BY <1>1
  <2>2. u[n + 1].newly = T \ C
    BY <1>1 DEF T
  <2>3. UNION {u[i].newly : i \in DOMAIN u} = C \cup (T \ C)
    BY <1>0, <1>2, <2>1, <2>2
  <2> QED
    BY <2>3
<1>5. \A i \in DOMAIN w : w[i].newly \subseteq C
  BY <1>0
<1>6. \A i, j \in DOMAIN u : i # j => u[i].newly \cap u[j].newly = {}
  <2>1. \A i \in DOMAIN w : u[i].newly = w[i].newly /\ u[i].newly \cap (T \ C) = {}
    BY <1>1, <1>5
  <2>2. u[n + 1].newly = T \ C
    BY <1>1 DEF T
  <2> QED
    BY <1>0, <1>2, <2>1, <2>2
<1> QED
  BY <1>3, <1>4, <1>6 DEF Accounts, u, T

\* Of a behavior that is new exactly if its root's archive does not hold it.
SeenIn(w, r, n) ==
  {RetrievalSignature(FirstRanking[r])}
    \cup {w[i].signature : i \in {j \in 1..(n - 1) : w[j].root = r}}

Known(w, H) ==
  /\ \A r \in Roots : H[r] = SeenIn(w, r, Len(w) + 1)
  /\ \A i \in DOMAIN w : w[i].new <=> w[i].signature \notin SeenIn(w, w[i].root, i)

\* The archives G hold the behavior of witness v besides what the archives H held.
Learned(H, v, G) ==
  /\ v.new <=> v.signature \notin H[v.root]
  /\ \A r \in Roots : G[r] = IF r = v.root THEN H[r] \cup {v.signature} ELSE H[r]

LEMMA SeenMember ==
  ASSUME NEW w, NEW r, NEW m \in Nat, NEW x
  PROVE  x \in SeenIn(w, r, m + 1) <=> \/ x = RetrievalSignature(FirstRanking[r])
                                     \/ \E i \in 1..m : w[i].root = r /\ x = w[i].signature
<1>1. m + 1 - 1 = m
  OBVIOUS
<1> QED
  BY <1>1 DEF SeenIn

LEMMA OneMoreBehavior ==
  ASSUME NEW w \in Seq(WitnessSet), NEW v \in WitnessSet, NEW H, NEW G, Known(w, H),
         Learned(H, v, G)
  PROVE  Known(Append(w, v), G)
<1> DEFINE u == Append(w, v)
           n == Len(w)
<1>1. /\ n \in Nat /\ DOMAIN w = 1..n /\ DOMAIN u = 1..(n + 1) /\ Len(u) = n + 1
      /\ \A i \in 1..n : u[i] = w[i]
      /\ u[n + 1] = v
  BY AppendProperties, LenProperties
<1>2. v.root \in Roots
  BY DEF WitnessSet
<1> HIDE DEF n, u
<1>3. \A r : \A m \in 1..(n + 1) : SeenIn(u, r, m) = SeenIn(w, r, m)
  <2> SUFFICES ASSUME NEW r, NEW m \in 1..(n + 1) PROVE SeenIn(u, r, m) = SeenIn(w, r, m)
    OBVIOUS
  <2>1. \A i \in 1..(m - 1) : u[i] = w[i]
    BY <1>1
  <2>2. {i \in 1..(m - 1) : u[i].root = r} = {i \in 1..(m - 1) : w[i].root = r}
    BY <2>1
  <2>3. {u[i].signature : i \in {j \in 1..(m - 1) : u[j].root = r}}
          = {w[i].signature : i \in {j \in 1..(m - 1) : w[j].root = r}}
    BY <2>1, <2>2
  <2> QED
    BY <2>3 DEF SeenIn
<1>4. \A r \in Roots : G[r] = SeenIn(u, r, Len(u) + 1)
  <2> SUFFICES ASSUME NEW r \in Roots PROVE G[r] = SeenIn(u, r, n + 2)
    BY <1>1
  <2>1. H[r] = SeenIn(u, r, n + 1)
    BY <1>1, <1>3 DEF Known, n
  <2>2. G[r] = IF r = v.root THEN H[r] \cup {v.signature} ELSE H[r]
    BY DEF Learned
  <2>3. ASSUME NEW x
        PROVE  x \in SeenIn(u, r, n + 2) <=> x \in SeenIn(u, r, n + 1) \/ (r = v.root /\ x = v.signature)
    <3>1. (\E i \in 1..(n + 1) : u[i].root = r /\ x = u[i].signature)
            <=> \/ \E i \in 1..n : u[i].root = r /\ x = u[i].signature
                \/ v.root = r /\ x = v.signature
      <4>1. 1..(n + 1) = 1..n \cup {n + 1}
        BY <1>1
      <4> QED
        BY <1>1, <4>1
    <3>2. n \in Nat /\ n + 1 \in Nat /\ n + 2 = (n + 1) + 1
      BY <1>1
    <3>3. \A k \in Nat : k = n + 1 =>
            (x \in SeenIn(u, r, k + 1) <=> \/ x = RetrievalSignature(FirstRanking[r])
                                          \/ \E i \in 1..k : u[i].root = r /\ x = u[i].signature)
      BY SeenMember
    <3>4. x \in SeenIn(u, r, n + 1) <=> \/ x = RetrievalSignature(FirstRanking[r])
                                      \/ \E i \in 1..n : u[i].root = r /\ x = u[i].signature
      BY <3>2, SeenMember
    <3>5. x \in SeenIn(u, r, n + 2) <=> \/ x = RetrievalSignature(FirstRanking[r])
                                      \/ \E i \in 1..(n + 1) : u[i].root = r /\ x = u[i].signature
      BY <3>2, <3>3
    <3> QED
      BY <3>1, <3>4, <3>5
  <2> QED
    BY <2>1, <2>2, <2>3
<1>5. \A i \in DOMAIN u : u[i].new <=> u[i].signature \notin SeenIn(u, u[i].root, i)
  <2>1. \A i \in 1..n : u[i].new <=> u[i].signature \notin SeenIn(u, u[i].root, i)
    BY <1>1, <1>3 DEF Known
  <2>2. H[v.root] = SeenIn(u, v.root, n + 1)
    BY <1>1, <1>2, <1>3 DEF Known, n
  <2> QED
    BY <1>1, <2>1, <2>2 DEF Learned
<1> QED
  BY <1>4, <1>5 DEF Known, u

\* The account of the campaign, in these terms.
LEMMA AccountIs ==
  WitnessesAccount <=> Accounts(witnesses, SettledCoverage) /\ Known(witnesses, SettledHistory)
<1>1. \A r, n : Seen(r, n) = SeenIn(witnesses, r, n)
  BY DEF Seen, SeenIn
<1> QED
  BY <1>1 DEF WitnessesAccount, Accounts, Known

LEMMA AccountIsPrimed ==
  WitnessesAccount' <=> (Accounts(witnesses, SettledCoverage) /\ Known(witnesses, SettledHistory))'
BY AccountIs, PTL

\* What is on record at the end of a visit.
LEMMA FinishFacts ==
  ASSUME IInv, Finish
  PROVE  /\ visit.stage = "finish" /\ visit # NoVisit /\ visit' = NoVisit
         /\ visit.ranking \in Rankings[Root] /\ Root \in Roots
         /\ Parent = SettledParent
         /\ visit.update = Observed(E0, SettledCoverage, visit.ranking)
         /\ coverage = visit.update.state
         /\ history = [SettledHistory EXCEPT ![Root] = @ \cup {Signature}]
         /\ visit.new = (Signature \notin SettledHistory[Root])
         /\ visit.feedback = FeedbackScore(method, Relation, visit.update.gain,
                                           SettledHistory[Root], Signature, SettledParent.signature)
         /\ seeds \in Admitted(SettledSeeds, SettledParent, Relation, Signature)
         /\ \E p \in Priorities(method, visit.feedback) :
              priority = [i \in 1..Len(seeds) |->
                            IF i <= Len(SettledSeeds) THEN SettledPriority[i] ELSE p]
<1>1. visit.stage = "finish" /\ visit # NoVisit
  BY VisitFacts DEF Finish, At
<1>2. visit' = NoVisit
  BY DEF Finish, EndVisit
<1>3. Past("execute") /\ Past("adopt") /\ Past("score") /\ Past("retain") /\ Past("prioritize")
  BY <1>1, PastStages DEF PastIs
<1>4. Executed /\ Adopted /\ WasScored /\ Retained /\ Prioritized
  BY DEF IInv, Staged
<1> QED
  BY <1>1, <1>2, <1>3, <1>4, VisitItem DEF Executed, Adopted, WasScored, Retained, Prioritized

LEMMA FinishIInv == IInv /\ Finish => IInv'
<1> SUFFICES ASSUME IInv, Finish PROVE IInv'
  OBVIOUS
<1> DEFINE T == TokenIds(visit.ranking)
           w == Witness(visit.item, Parent.root, visit.update, Signature, visit.new)
<1>1. /\ visit # NoVisit /\ visit' = NoVisit /\ Parent.root = Root /\ Root \in Roots
      /\ visit.ranking \in Rankings[Root]
  BY FinishFacts DEF Root
<1>2. visit.update.retrieved = T /\ visit.update.newly = T \ SettledCoverage
      /\ coverage = SettledCoverage \cup T
  BY FinishFacts DEF Observed
<1>3. T \subseteq E0
  BY <1>1, FrontierAssumption DEF Observable
<1>4. visit.item \in Nat \X Opportunities
  <2>1. visit.item \in (1..Len(SettledSeeds)) \X Opportunities
    BY <1>1, VisitItem
  <2>2. 1..Len(SettledSeeds) \subseteq Nat
    BY SettledPrefix
  <2> QED
    BY <2>1, <2>2
<1>5. /\ w.item = visit.item /\ w.ids = T /\ w.newly = T \ SettledCoverage /\ w.root = Root
      /\ w.signature = Signature /\ w.new = (Signature \notin SettledHistory[Root])
  BY <1>1, <1>2, FinishFacts DEF Witness
<1>6. Signature \in Signatures
  BY <1>1, SignatureType DEF Signature
<1> HIDE DEF T
<1>7. w \in WitnessSet
  <2>1. w = [item |-> visit.item, root |-> Root, round |-> round, ids |-> T,
             newly |-> T \ SettledCoverage, signature |-> Signature,
             new |-> Signature \notin SettledHistory[Root]]
    BY <1>1, <1>2, FinishFacts DEF Witness
  <2>2. round \in Nat
    BY DEF IInv, Types
  <2> HIDE DEF w
  <2> QED
    BY <1>1, <1>3, <1>4, <1>6, <2>1, <2>2 DEF WitnessSet
<1>8. witnesses' = Append(witnesses, w) /\ UNCHANGED <<round, seeds, priority, coverage, history>>
  BY DEF Finish
<1> HIDE DEF w
<1>9. witnesses \in Seq(WitnessSet)
  BY DEF IInv, Types
<1>10. witnesses' \in Seq(WitnessSet)
  BY <1>7, <1>8, <1>9, AppendProperties
<1>11. Types'
  BY <1>8, <1>10 DEF IInv, Types
<1>12. priority' = [i \in 1..Len(seeds') |-> priority'[i]]
  <2>1. PICK p : priority = [i \in 1..Len(seeds) |->
                               IF i <= Len(SettledSeeds) THEN SettledPriority[i] ELSE p]
    BY FinishFacts
  <2> QED
    BY <1>8, <2>1
<1>13. Accounts(witnesses', SettledCoverage')
  <2>1. Accounts(witnesses, SettledCoverage)
    BY AccountIs DEF IInv
  <2>2. Accounts(witnesses', SettledCoverage \cup T)
    BY <1>5, <1>7, <1>8, <1>9, <2>1, OneMoreWitness
  <2> QED
    BY <1>1, <1>2, <1>8, <2>2, NoVisitSettledPrimed
<1>14. Known(witnesses', SettledHistory')
  <2>1. Known(witnesses, SettledHistory)
    BY AccountIs DEF IInv
  <2>2. history = [SettledHistory EXCEPT ![Root] = @ \cup {Signature}] /\ DOMAIN history = Roots
    BY FinishFacts DEF IInv, Types
  <2>3. \A r \in Roots : history[r] = IF r = Root THEN SettledHistory[r] \cup {Signature}
                                                  ELSE SettledHistory[r]
    BY <2>2
  <2>4. SettledHistory' = history
    BY <1>1, <1>8, NoVisitSettledPrimed
  <2>5. Learned(SettledHistory, w, history)
    BY <1>5, <2>3 DEF Learned
  <2>6. Known(Append(witnesses, w), history)
    BY <1>7, <1>9, <2>1, <2>5, OneMoreBehavior
  <2> QED
    BY <1>8, <2>4, <2>6
<1>15. WitnessesAccount'
  BY <1>13, <1>14, AccountIsPrimed
<1> QED
  BY <1>1, <1>11, <1>12, <1>15, BetweenIInv

LEMMA NextIInv == IInv /\ [Next]_vars => IInv'
BY SelectIInv, ExecuteIInv, ExhaustIInv, AdoptIInv, ScoreIInv, RetainIInv, PrioritizeIInv,
   FinishIInv, AdvanceIInv, StutterIInv DEF Next

THEOREM Invariant == Spec => []IInv
<1>1. Init => IInv
  BY InitIInv
<1>2. IInv /\ [Next]_vars => IInv'
  BY NextIInv
<1> QED
  BY <1>1, <1>2, PTL DEF Spec

\* The coverage that was reached, and the behavior that was observed, are what the witnesses
\* account for, each ID and each behavior new once.
THEOREM Accounted == Spec => []WitnessesAccount
<1>1. IInv => WitnessesAccount
  BY DEF IInv
<1> QED
  BY <1>1, Invariant, PTL

-----------------------------------------------------------------------------
(* The calls after an execution implement the atomic trajectory.             *)

\* The operators of the abstract specification are those of the campaign.
LEMMA AtomicEligible ==
  \A s, d, r, n : Atomic!Eligible(s, d, r, n) = Eligible(s, d, r, n)
BY DEF Atomic!Eligible, Eligible, Atomic!ItemsOf, ItemsOf, Atomic!Items, Items, Atomic!Certified,
       Certified, Atomic!FirstEligibleRound, FirstEligibleRound

LEMMA AtomicSelectable ==
  \A m, p, S : Atomic!Selectable(m, p, S) = Selectable(m, p, S)
BY DEF Atomic!Selectable, Selectable, Atomic!Guided, Guided

LEMMA AtomicCardinality == \A S : Atomic!Cardinality(S) = Cardinality(S)
BY DEF Atomic!Cardinality, Cardinality

LEMMA AtomicSignature == \A k : Atomic!RetrievalSignature(k) = RetrievalSignature(k)
BY DEF Atomic!RetrievalSignature, RetrievalSignature, Atomic!Firsts, Firsts, Atomic!Cardinality,
       Cardinality

LEMMA AtomicE0 == Atomic!E0 = E0
BY DEF Atomic!E0, E0

LEMMA AtomicObserved == \A e, C, k : Atomic!Observed(e, C, k) = Observed(e, C, k)
BY AtomicCardinality DEF Atomic!Observed, Observed, Atomic!TokenIds, TokenIds

LEMMA AtomicFeedback ==
  /\ \A m, r, g, A, s, p : Atomic!FeedbackScore(m, r, g, A, s, p) = FeedbackScore(m, r, g, A, s, p)
  /\ \A m, f : Atomic!Priorities(m, f) = Priorities(m, f)
BY DEF Atomic!FeedbackScore, FeedbackScore, Atomic!UFuzzScore, UFuzzScore, Atomic!Novelty, Novelty,
       Atomic!MinOf, MinOf, Atomic!Min2, Min2, Atomic!Priorities, Priorities, Atomic!Guided, Guided

LEMMA AtomicAdmitted == \A k, p, r, s : Atomic!Admitted(k, p, r, s) = Admitted(k, p, r, s)
BY DEF Atomic!Admitted, Admitted, Atomic!Seed, Seed, Atomic!ChildPath, ChildPath,
       Atomic!MemoryRelations, MemoryRelations

LEMMA AtomicInit == Init => Atomic!SearchInit
<1> SUFFICES ASSUME Init PROVE Atomic!SearchInit
  OBVIOUS
<1>1. visit = NoVisit /\ SearchInit
  BY DEF Init
<1>2. /\ SettledCoverage = coverage /\ SettledHistory = history
      /\ SettledSeeds = seeds /\ SettledPriority = priority
  BY <1>1, NoVisitSettled
<1>3. seeds \in {Atomic!Initial(o, e) : o \in Atomic!Orders, e \in Atomic!Enumerated}
  <2>1. \A o, e : Atomic!Initial(o, e) = Initial(o, e)
    BY AtomicCardinality, AtomicSignature DEF Atomic!Initial, Initial, Atomic!Seed, Seed
  <2>2. Atomic!Enumerated = Enumerated
    BY DEF Atomic!Enumerated, Enumerated
  <2>3. Atomic!Orders = Orders
    BY AtomicCardinality DEF Atomic!Orders, Orders
  <2> QED
    BY <1>1, <2>1, <2>2, <2>3 DEF SearchInit
<1>4. history = [r \in Roots |-> {Atomic!RetrievalSignature(FirstRanking[r])}]
  BY <1>1, AtomicSignature DEF SearchInit
<1>5. priority = [i \in 1..Atomic!Cardinality(Roots) |-> 0]
  BY <1>1, AtomicCardinality DEF SearchInit
<1> QED
  BY <1>1, <1>2, <1>3, <1>4, <1>5 DEF SearchInit, Atomic!SearchInit

\* The decision of the visit is one the atomic trajectory may take.
LEMMA AtomicDecision ==
  ASSUME IInv, visit # NoVisit
  PROVE  /\ Len(witnesses) < Budget /\ Root \in Roots
         /\ visit.item \in Atomic!Selectable(method, SettledPriority, Atomic!Frontier(Root))
<1>1. Atomic!Frontier(Root) = Eligible(SettledSeeds, done, Root, round)
  BY AtomicEligible DEF Atomic!Frontier
<1> QED
  BY <1>1, AtomicSelectable, VisitItem DEF IInv, Shape

LEMMA AtomicStutter ==
  ASSUME Unsettled, UNCHANGED <<method, round, done, witnesses>>
  PROVE  UNCHANGED Atomic!searchVars
BY DEF Unsettled, Atomic!searchVars

\* An exhausted opportunity.
LEMMA AtomicExhaust ==
  ASSUME IInv, Exhaust
  PROVE  Atomic!Decide
<1>1. Unsettled /\ visit # NoVisit
  BY ExhaustUnsettled
<1>2. done' = Atomic!Terminal(visit.item, "terminal_generation_exhausted")
  BY DEF Exhaust, EndVisit, Terminal, Atomic!Terminal
<1>3. Atomic!Exhaust(visit.item)
  BY <1>1, <1>2 DEF Atomic!Exhaust, Unsettled, Exhaust
<1> QED
  BY <1>1, <1>3, AtomicDecision DEF Atomic!Decide, Exhaust

\* A witness on record: everything the stages did amounts to one atomic execution.
LEMMA AtomicSucceed ==
  ASSUME IInv, Finish
  PROVE  Atomic!Decide
<1> DEFINE sig == Signature
           upd == visit.update
           A   == SettledHistory[Root]
<1>1. /\ visit # NoVisit /\ visit' = NoVisit
      /\ visit.ranking \in Rankings[Root]
      /\ upd = Observed(E0, SettledCoverage, visit.ranking)
      /\ coverage = upd.state
      /\ history = [SettledHistory EXCEPT ![Root] = @ \cup {sig}]
      /\ visit.new = (sig \notin A)
      /\ visit.feedback = FeedbackScore(method, Relation, upd.gain, A, sig, SettledParent.signature)
      /\ seeds \in Admitted(SettledSeeds, SettledParent, Relation, sig)
      /\ \E p \in Priorities(method, visit.feedback) :
           priority = [i \in 1..Len(seeds) |->
                         IF i <= Len(SettledSeeds) THEN SettledPriority[i] ELSE p]
      /\ Parent.root = Root
  BY FinishFacts DEF Root
<1>2. /\ SettledCoverage' = coverage /\ SettledHistory' = history
      /\ SettledSeeds' = seeds /\ SettledPriority' = priority
  BY <1>1, NoVisitSettledPrimed DEF Finish
<1>3. witnesses' = Append(witnesses, Atomic!Witness(visit.item, Root, upd, sig, sig \notin A))
  BY <1>1 DEF Finish, Witness, Atomic!Witness
<1>4. done' = Atomic!Terminal(visit.item, "terminal_success")
  BY DEF Finish, EndVisit, Terminal, Atomic!Terminal
<1>5. Atomic!RetrievalSignature(visit.ranking) = sig
      /\ Atomic!Observed(Atomic!E0, SettledCoverage, visit.ranking) = upd
  BY <1>1, AtomicSignature, AtomicObserved, AtomicE0 DEF Signature
<1> HIDE DEF sig, upd
<1>6. Atomic!Succeed(visit.item, visit.ranking)
  <2>1. Atomic!FeedbackScore(method, Relation, upd.gain, A, sig, SettledParent.signature)
          = visit.feedback
    BY <1>1, AtomicFeedback
  <2>2. \E p \in Atomic!Priorities(method, visit.feedback) :
          SettledPriority' = [i \in 1..Len(SettledSeeds') |->
                                IF i <= Len(SettledSeeds) THEN SettledPriority[i] ELSE p]
    BY <1>1, <1>2, AtomicFeedback
  <2>3. SettledSeeds' \in Atomic!Admitted(SettledSeeds, SettledParent, Relation, sig)
    BY <1>1, <1>2, AtomicAdmitted
  <2>4. SettledHistory' = [SettledHistory EXCEPT ![Root] = @ \cup {sig}] /\ SettledCoverage' = upd.state
    BY <1>1, <1>2
  <2> QED
    BY <1>3, <1>4, <1>5, <2>1, <2>2, <2>3, <2>4 DEF Atomic!Succeed, SettledParent, Root, Relation
<1> QED
  BY <1>1, <1>6, AtomicDecision DEF Atomic!Decide, Finish

\* A new round is the same step.
LEMMA AtomicAdvance ==
  ASSUME Advance
  PROVE  Atomic!NextRound
BY AdvanceUnsettled DEF Advance, NextRound, Atomic!NextRound, Unsettled

LEMMA AtomicStep == IInv /\ [Next]_vars => [Atomic!Next]_(Atomic!searchVars)
<1> SUFFICES ASSUME IInv, [Next]_vars PROVE Atomic!Next \/ UNCHANGED Atomic!searchVars
  OBVIOUS
<1>1. CASE Select
  BY <1>1, SelectUnsettled, AtomicStutter DEF Select, search
<1>2. CASE Execute
  BY <1>2, ExecuteUnsettled, AtomicStutter DEF Execute, search
<1>3. CASE Exhaust
  BY <1>3, AtomicExhaust DEF Atomic!Next
<1>4. CASE Adopt
  BY <1>4, AdoptUnsettled, AtomicStutter DEF Adopt
<1>5. CASE Score
  BY <1>5, ScoreUnsettled, AtomicStutter DEF Score
<1>6. CASE Retain
  BY <1>6, RetainUnsettled, AtomicStutter DEF Retain
<1>7. CASE Prioritize
  BY <1>7, PrioritizeUnsettled, AtomicStutter DEF Prioritize
<1>8. CASE Finish
  BY <1>8, AtomicSucceed DEF Atomic!Next
<1>9. CASE Advance
  BY <1>9, AtomicAdvance DEF Atomic!Next
<1>10. CASE UNCHANGED vars
  BY <1>10, StutterUnsettled, AtomicStutter DEF vars, search
<1> QED
  BY <1>1, <1>2, <1>3, <1>4, <1>5, <1>6, <1>7, <1>8, <1>9, <1>10 DEF Next

\* What follows an execution, call by call, amounts to one atomic decision.
THEOREM Refinement == Spec => AtomicTrajectory
<1>1. Init => Atomic!SearchInit
  BY AtomicInit
<1>2. IInv /\ [Next]_vars => [Atomic!Next]_(Atomic!searchVars)
  BY AtomicStep
<1> QED
  BY <1>1, <1>2, Invariant, PTL DEF Spec, AtomicTrajectory, Atomic!Spec
=============================================================================
