---------------------------- MODULE PgGenerateProofs ----------------------------
(***************************************************************************)
(* Processes over one directory, for every dataset, plan and number of     *)
(* processes: what is on disk stays what it was validated to be.           *)
(***************************************************************************)
EXTENDS PgGenerate, TLAPS

\* A process is consistent: a query it generates or commits is one of its shard.
Local(me) ==
  /\ me.pc = "shard_files" => me.at < me.view.num
  /\ me.pc \in {"generate", "commit"} =>
       me.at \in DOMAIN Dataset /\ Dataset[me.at] \in ShardIds(me.view, me.shard)
  /\ me.pc = "commit" => me.draft \in Contents

AtQuery == \A p \in Proc : Local(proc[p])

\* Whoever is past the plan has found one.
Planned == \A p \in Proc : ~Free(p) /\ proc[p].mode \notin PlanMode => plan \in Plans

TInv == TypeOK /\ AtQuery /\ Planned

LEMMA ShardInRange ==
  ASSUME NEW r \in Plans, NEW q \in r.ids
  PROVE  ShardOf(q, r.num) \in 0..(r.num - 1) /\ ShardOf(q, r.num) \in Shards /\ Path(q, r) \in Paths
<1>1. /\ r.num \in Nat \ {0} /\ r.num \in 0..MaxShards /\ q \in Queries /\ MaxShards \in Nat
      /\ Hash[q] \in Nat
  BY PlanAssumption, DatasetAssumption DEF Plans
<1> DEFINE h == Hash[q]
           n == r.num
<1>2. h \in Nat /\ n \in Nat \ {0} /\ ShardOf(q, r.num) = h % n
  BY <1>1 DEF ShardOf
<1>3. h % n \in 0..(n - 1)
  <2> HIDE DEF h, n
  <2> QED BY <1>2
<1> QED BY <1>1, <1>2, <1>3 DEF Shards, Paths, Path

LEMMA TypeInit == Init => TInv
<1> SUFFICES ASSUME Init PROVE TInv
  OBVIOUS
<1>1. TypeOK
  BY ContentAssumption DEF Init, TypeOK, Processes, Gone, MergedFiles, ArtifactNames, Published
<1>2. AtQuery /\ Planned
  BY DEF Init, AtQuery, Local, Planned, Gone, Free
<1> QED BY <1>1, <1>2 DEF TInv

\* What a process at each step is.
LEMMA Positions ==
  ASSUME TypeOK, NEW p \in Proc
  PROVE  /\ proc[p] \in Processes
         /\ proc[p].pc = "gone" => proc[p] = Gone
         /\ proc[p].pc = "plan" => proc[p] \in Planning
         /\ proc[p].pc = "shard_files" => proc[p] \in Filing
         /\ proc[p].pc \in {"scan", "generate", "commit", "status"} => proc[p] \in Working
         /\ proc[p].pc = "inspect" => proc[p] \in Inspecting
         /\ proc[p].pc \in {"report", "gather"} => proc[p] \in Reporting
         /\ proc[p].pc = "publish" => proc[p] \in Publishing
         /\ proc[p].pc \in {"manifest", "checksums"} => proc[p] \in Sealing
  BY DEF TypeOK, Processes, Planning, Filing, Working, Inspecting, Reporting, Publishing, Sealing, Gone

FilesTyped ==
  /\ plan \in Plans \cup {None}
  /\ shardFile \in [Shards -> (SUBSET Queries) \cup {None}]
  /\ records \in [Paths -> Contents \cup {Stale, None}]
  /\ report \in Verdicts \cup {None}
  /\ DOMAIN merged = MergedFiles /\ \A f \in ArtifactNames : merged[f] \in Published

\* A step that leaves typed files and lets p become something typed and consistent.
LEMMA Becomes ==
  ASSUME TInv, FilesTyped', plan \in Plans => plan' \in Plans,
         NEW p \in Proc, NEW r \in Processes, Become(p, r), Local(r),
         r # Gone /\ r.mode \notin PlanMode => plan' \in Plans
  PROVE  TInv'
<1>1. /\ proc' \in [Proc -> Processes] /\ proc'[p] = r
      /\ \A o \in Proc : o # p => proc'[o] = proc[o]
  BY DEF TInv, TypeOK, Become
<1>2. AtQuery'
  BY <1>1 DEF TInv, AtQuery, Local, ShardIds, ShardOf
<1>3. TypeOK'
  BY <1>1, <1>2 DEF TypeOK, FilesTyped, AtQuery, Local
<1>4. Planned'
  BY <1>1 DEF TInv, Planned, Free
<1> QED BY <1>2, <1>3, <1>4 DEF TInv

LEMMA Typed == TypeOK => FilesTyped
  BY DEF TypeOK, FilesTyped

LEMMA PlanSteps ==
  ASSUME TInv, NEW p \in Proc, StartPlan(p) \/ WritePlan(p) \/ WriteShardFile(p)
  PROVE  TInv'
<1>1. TypeOK /\ FilesTyped
  BY Typed DEF TInv
<1>2. CASE StartPlan(p)
  <2>1. FilesTyped'
    BY <1>1, <1>2 DEF StartPlan, FilesTyped, planFiles, shardFiles, outputs
  <2>2. PICK r \in PlanRequests :
          IF r.ids # {} /\ r.num = 0 THEN Become(p, Gone)
          ELSE Become(p, [pc |-> "plan", mode |-> "plan", view |-> r])
    BY <1>2 DEF StartPlan, Raise
  <2>3. CASE r.ids # {} /\ r.num = 0
    BY <1>2, <2>1, <2>2, <2>3, Becomes DEF StartPlan, Processes, Local, Gone, planFiles
  <2>4. CASE ~(r.ids # {} /\ r.num = 0)
    <3>1. r \in Plans
      BY <2>4, PlanAssumption DEF Plans
    <3> DEFINE n == [pc |-> "plan", mode |-> "plan", view |-> r]
    <3>2. n \in Processes /\ Local(n) /\ n.mode \in PlanMode
      BY <3>1 DEF Processes, Planning, PlanMode, Local
    <3> QED BY <1>2, <2>1, <2>2, <2>4, <3>2, Becomes DEF StartPlan, planFiles
  <2> QED BY <2>3, <2>4
<1>3. CASE WritePlan(p)
  <2> DEFINE me == proc[p]
  <2>1. me \in Planning
    BY <1>1, <1>3, Positions DEF WritePlan
  <2>2. me.view \in Plans /\ me.view.num \in 0..MaxShards /\ MaxShards \in Nat
    BY <2>1, PlanAssumption DEF Planning, Plans
  <2>3. FilesTyped' /\ plan' \in Plans
    BY <1>1, <1>3, <2>2 DEF WritePlan, FilesTyped, shardFiles, outputs
  <2>4. CASE me.view.num = 0
    BY <1>3, <2>3, <2>4, Becomes DEF WritePlan, Return, Processes, Local, Gone
  <2>5. CASE me.view.num # 0
    <3> DEFINE n == [pc |-> "shard_files", mode |-> "plan", view |-> me.view, at |-> 0]
    <3>1. n \in Processes /\ Local(n) /\ n.mode \in PlanMode
      BY <2>2, <2>5 DEF Processes, Filing, PlanMode, Local, Shards
    <3> QED BY <1>3, <2>3, <2>5, <3>1, Becomes DEF WritePlan
  <2> QED BY <2>4, <2>5
<1>4. CASE WriteShardFile(p)
  <2> DEFINE me == proc[p]
  <2>1. me \in Filing /\ me.at < me.view.num
    BY <1>1, <1>4, Positions DEF WriteShardFile, TypeOK
  <2>2. me.view \in Plans /\ me.view.num \in 0..MaxShards /\ MaxShards \in Nat
        /\ me.view.ids \subseteq Queries
    BY <2>1, PlanAssumption DEF Filing, Plans
  <2>3. FilesTyped' /\ plan' = plan
    BY <1>1, <1>4, <2>2 DEF WriteShardFile, FilesTyped, shardFiles, outputs, ShardIds
  <2>4. CASE me.at + 1 = me.view.num
    BY <1>4, <2>3, <2>4, Becomes DEF WriteShardFile, Return, Processes, Local, Gone
  <2>5. CASE me.at + 1 # me.view.num
    <3> DEFINE n == [me EXCEPT !.at = @ + 1]
    <3>1. n \in Processes /\ Local(n) /\ n.mode \in PlanMode
      BY <2>1, <2>2, <2>5 DEF Processes, Filing, PlanMode, Local, Shards
    <3> QED BY <1>4, <2>3, <2>5, <3>1, Becomes DEF WriteShardFile
  <2> QED BY <2>4, <2>5
<1> QED BY <1>2, <1>3, <1>4

LEMMA ShardSteps ==
  ASSUME TInv, NEW p \in Proc,
         StartShard(p) \/ Scan(p) \/ Generate(p) \/ Commit(p) \/ WriteStatus(p)
  PROVE  TInv'
<1> DEFINE me == proc[p]
<1>1. TypeOK /\ FilesTyped /\ Local(me) /\ Local(Gone) /\ Gone \in Processes
  BY Typed DEF TInv, AtQuery, Local, Gone, Processes
<1>2. Len(Dataset) \in Nat /\ DOMAIN Dataset = 1..Len(Dataset)
  BY DatasetAssumption
<1>3. CASE StartShard(p)
  <2>1. FilesTyped' /\ plan' = plan
    BY <1>1, <1>3 DEF StartShard, FilesTyped, planFiles, shardFiles, outputs
  <2>2. PICK mode \in ShardMode, s \in 0..MaxShards, stop \in Stops :
          IF plan = None \/ (plan # None /\ s >= plan.num) THEN Become(p, Gone)
          ELSE Become(p, [pc |-> "scan", mode |-> mode, view |-> plan, shard |-> s,
                          stop |-> stop, at |-> 1, completed |-> 0, draft |-> None])
    BY <1>3 DEF StartShard, Raise
  <2>3. CASE plan = None \/ (plan # None /\ s >= plan.num)
    BY <1>1, <2>1, <2>2, <2>3, Becomes
  <2>4. CASE ~(plan = None \/ (plan # None /\ s >= plan.num))
    <3>1. plan \in Plans /\ plan.num \in 0..MaxShards /\ MaxShards \in Nat /\ s < plan.num
      BY <1>1, <2>4, PlanAssumption DEF FilesTyped, Plans
    <3> DEFINE n == [pc |-> "scan", mode |-> mode, view |-> plan, shard |-> s,
                     stop |-> stop, at |-> 1, completed |-> 0, draft |-> None]
    <3>2. n \in Working /\ Local(n)
      BY <1>2, <3>1 DEF Working, Local, Shards
    <3>3. n \in Processes
      BY <3>2 DEF Processes
    <3> QED BY <2>1, <2>2, <2>4, <3>1, <3>2, <3>3, Becomes
  <2> QED BY <2>3, <2>4
<1>4. me.pc \in {"scan", "generate", "commit", "status"} => me \in Working /\ plan \in Plans
  BY <1>1, Positions DEF TInv, Planned, Working, Free, Gone, ShardMode, PlanMode
<1>5. CASE Scan(p)
  <2>1. FilesTyped' /\ plan' = plan
    BY <1>1, <1>5 DEF Scan, FilesTyped, planFiles, shardFiles, outputs
  <2>2. PICK i \in DOMAIN Dataset :
          /\ me.pc = "scan" /\ i \in Ahead(me)
          /\ \/ Become(p, [me EXCEPT !.pc = "generate", !.at = i])
             \/ Become(p, [me EXCEPT !.at = i + 1])
             \/ Become(p, Gone)
    BY <1>5 DEF Scan, Raise, IsFirst
  <2>3. me \in Working /\ plan \in Plans
    BY <1>4, <2>2
  <2>4. i \in 1..Len(Dataset) /\ Dataset[i] \in ShardIds(me.view, me.shard)
    BY <1>2, <2>2 DEF Ahead
  <2> DEFINE g == [me EXCEPT !.pc = "generate", !.at = i]
             k == [me EXCEPT !.at = i + 1]
  <2>5. g \in Working /\ Local(g)
    <3>1. i \in 1..(Len(Dataset) + 1)
      BY <1>2, <2>4
    <3>2. g \in Working
      BY <2>3, <3>1 DEF Working
    <3>3. g.pc = "generate" /\ g.at = i /\ g.view = me.view /\ g.shard = me.shard
      BY <2>3 DEF Working
    <3> HIDE DEF g
    <3> QED BY <1>2, <2>4, <3>2, <3>3 DEF Local
  <2>6. k \in Working /\ Local(k)
    BY <1>1, <1>2, <2>2, <2>3, <2>4 DEF Working, Local
  <2>7. g \in Processes /\ k \in Processes
    BY <2>5, <2>6 DEF Processes
  <2> QED BY <1>1, <2>1, <2>2, <2>3, <2>5, <2>6, <2>7, Becomes
<1>6. CASE Generate(p)
  <2>1. FilesTyped' /\ plan' = plan
    BY <1>1, <1>6 DEF Generate, FilesTyped, planFiles, shardFiles, outputs
  <2>2. PICK c \in Contents : me.pc = "generate" /\ Become(p, [me EXCEPT !.pc = "commit", !.draft = c])
    BY <1>6 DEF Generate
  <2> DEFINE n == [me EXCEPT !.pc = "commit", !.draft = c]
  <2>3. n \in Working /\ Local(n)
    BY <1>1, <1>4, <2>2 DEF Working, Local
  <2>4. n \in Processes
    BY <2>3 DEF Processes
  <2> QED BY <1>4, <2>1, <2>2, <2>3, <2>4, Becomes
<1>7. CASE Commit(p)
  <2> DEFINE n(x) == [me EXCEPT !.pc = x, !.draft = None, !.at = @ + 1, !.completed = @ + 1]
  <2>1. me.pc = "commit" /\ me \in Working /\ plan \in Plans /\ me.draft \in Contents
        /\ me.at \in 1..Len(Dataset)
    BY <1>1, <1>2, <1>4, <1>7 DEF Commit, Local
  <2>2. FilesTyped' /\ plan' = plan
    BY <1>1, <1>7, <2>1 DEF Commit, FilesTyped, planFiles, outputs
  <2>3. PICK x \in {"status", "scan"} : Become(p, n(x))
    BY <1>7 DEF Commit
  <2>4. n(x) \in Working /\ Local(n(x))
    <3>1. me.at + 1 \in 1..(Len(Dataset) + 1) /\ me.completed + 1 \in Nat
      BY <1>2, <2>1 DEF Working
    <3>2. n(x) \in Working /\ n(x).pc = x
      BY <2>1, <2>3, <3>1 DEF Working
    <3> HIDE DEF n
    <3> QED BY <2>3, <3>2 DEF Local
  <2>5. n(x) \in Processes
    BY <2>4 DEF Processes
  <2> QED BY <2>1, <2>2, <2>3, <2>4, <2>5, Becomes
<1>8. CASE WriteStatus(p)
  BY <1>1, <1>8, Becomes DEF WriteStatus, Return, FilesTyped, planFiles, outputs
<1> QED BY <1>3, <1>5, <1>6, <1>7, <1>8

LEMMA CheckSteps ==
  ASSUME TInv, NEW p \in Proc,
         StartCheck(p) \/ Inspect(p) \/ WriteReport(p) \/ Gather(p)
  PROVE  TInv'
<1> DEFINE me == proc[p]
<1>1. TypeOK /\ FilesTyped /\ Local(me) /\ Local(Gone) /\ Gone \in Processes
  BY Typed DEF TInv, AtQuery, Local, Gone, Processes
<1>2. CASE StartCheck(p)
  <2>1. FilesTyped' /\ plan' = plan
    BY <1>1, <1>2 DEF StartCheck, FilesTyped, planFiles, shardFiles, outputs
  <2>2. PICK mode \in CheckMode, strict \in BOOLEAN :
          IF plan = None THEN Become(p, Gone)
          ELSE Become(p, [pc |-> "inspect", mode |-> mode, view |-> plan, strict |-> strict])
    BY <1>2 DEF StartCheck, Raise
  <2>3. CASE plan = None
    BY <1>1, <2>1, <2>2, <2>3, Becomes
  <2>4. CASE plan # None
    <3> DEFINE n == [pc |-> "inspect", mode |-> mode, view |-> plan, strict |-> strict]
    <3>1. plan \in Plans /\ n \in Processes /\ Local(n)
      BY <1>1, <2>4 DEF FilesTyped, Processes, Inspecting, Local
    <3> QED BY <2>1, <2>2, <2>4, <3>1, Becomes
  <2> QED BY <2>3, <2>4
<1>3. me.pc \in {"inspect", "report", "gather"} => me.mode \in CheckMode /\ plan \in Plans
  BY <1>1, Positions DEF TInv, Planned, Inspecting, Reporting, Free, Gone, CheckMode, PlanMode
<1>4. CASE Inspect(p)
  <2> DEFINE n == [pc |-> "report", mode |-> me.mode,
                   verdict |-> [plan |-> me.view, strict |-> me.strict,
                                valid |-> NoErrors(me.view, me.strict)]]
  <2>1. me \in Inspecting /\ plan \in Plans
    BY <1>1, <1>3, <1>4, Positions DEF Inspect
  <2>2. NoErrors(me.view, me.strict) \in BOOLEAN
    BY DEF NoErrors
  <2>3. n \in Processes /\ Local(n)
    BY <2>1, <2>2 DEF Processes, Inspecting, Reporting, Verdicts, Local
  <2>4. FilesTyped' /\ plan' = plan /\ Become(p, n)
    BY <1>1, <1>4 DEF Inspect, FilesTyped, planFiles, shardFiles, outputs
  <2> QED BY <2>1, <2>3, <2>4, Becomes
<1>5. CASE WriteReport(p)
  <2>1. me \in Reporting /\ plan \in Plans /\ me.pc = "report"
    BY <1>1, <1>3, <1>5, Positions DEF WriteReport
  <2>2. FilesTyped' /\ plan' = plan
    BY <1>1, <1>5, <2>1 DEF WriteReport, FilesTyped, Reporting, planFiles, shardFiles
  <2> DEFINE n == [me EXCEPT !.pc = "gather"]
  <2>3. n \in Processes /\ Local(n)
    BY <2>1 DEF Processes, Reporting, Local
  <2>4. Become(p, Gone) \/ Become(p, n)
    BY <1>5 DEF WriteReport, Return, Raise
  <2> QED BY <1>1, <2>1, <2>2, <2>3, <2>4, Becomes
<1>6. CASE Gather(p)
  <2>1. me \in Reporting /\ plan \in Plans /\ me.pc = "gather"
    BY <1>1, <1>3, <1>6, Positions DEF Gather
  <2>2. FilesTyped' /\ plan' = plan
    BY <1>1, <1>6 DEF Gather, FilesTyped, planFiles, shardFiles, outputs
  <2> DEFINE lines == [q \in plan.ids |-> records[Path(q, plan)]]
             n == [pc |-> "publish", mode |-> "merge", view |-> plan,
                   verdict |-> me.verdict, at |-> 1, lines |-> lines]
  <2>3. CASE \E q \in plan.ids : records[Path(q, plan)] = None
    BY <1>1, <1>6, <2>1, <2>2, <2>3, Becomes DEF Gather, Raise
  <2>4. CASE ~ \E q \in plan.ids : records[Path(q, plan)] = None
    <3>1. \A q \in plan.ids : records[Path(q, plan)] \in Contents \cup {Stale}
      BY <1>1, <2>1, <2>4, ShardInRange DEF FilesTyped
    <3>2. lines \in [plan.ids -> Contents \cup {Stale}]
      BY <3>1
    <3>3. lines \in Lines
      BY <2>1, <3>2 DEF Lines
    <3> HIDE DEF lines
    <3>4. n \in Publishing /\ Local(n)
      BY <2>1, <3>3 DEF Publishing, Reporting, Artifacts, Local
    <3>5. n \in Processes
      BY <3>4 DEF Processes
    <3>6. Become(p, n)
      BY <1>6, <2>4 DEF Gather, lines
    <3> QED BY <2>1, <2>2, <3>4, <3>5, <3>6, Becomes
  <2> QED BY <2>3, <2>4
<1> QED BY <1>2, <1>4, <1>5, <1>6

LEMMA MergeSteps ==
  ASSUME TInv, NEW p \in Proc,
         Publish(p) \/ Digest(p) \/ WriteManifest(p) \/ WriteChecksums(p)
  PROVE  TInv'
<1> DEFINE me == proc[p]
<1>1. TypeOK /\ FilesTyped /\ Local(me) /\ Local(Gone) /\ Gone \in Processes
  BY Typed DEF TInv, AtQuery, Local, Gone, Processes
<1>2. me.pc \in {"publish", "manifest", "checksums"} => plan \in Plans
  BY <1>1, Positions DEF TInv, Planned, Publishing, Sealing, Free, Gone, PlanMode
<1>3. CASE Publish(p)
  <2>1. me \in Publishing /\ me.at \in 1..4 /\ plan \in Plans
    BY <1>1, <1>2, <1>3, Positions DEF Publish, Publishing, Artifacts
  <2>2. Artifacts[me.at] \in ArtifactNames
    BY <2>1 DEF Artifacts, ArtifactNames
  <2>3. ArtifactContent(me, Artifacts[me.at]) \in Published
    BY <2>1 DEF ArtifactContent, Publishing, Published
  <2>4. FilesTyped' /\ plan' = plan
    BY <1>1, <1>3, <2>2, <2>3 DEF Publish, FilesTyped, planFiles, shardFiles, MergedFiles
  <2> DEFINE n == [me EXCEPT !.at = @ + 1]
  <2>5. n \in Processes /\ Local(n) /\ Become(p, n)
    BY <1>3, <2>1 DEF Publish, Processes, Publishing, Artifacts, Local
  <2> QED BY <2>1, <2>4, <2>5, Becomes
<1>4. CASE Digest(p)
  <2> DEFINE d == [f \in ArtifactNames |-> merged[f]]
             n == [pc |-> "manifest", mode |-> "merge", view |-> me.view, digests |-> d]
  <2>1. me \in Publishing /\ plan \in Plans
    BY <1>1, <1>2, <1>4, Positions DEF Digest
  <2>2. d \in [ArtifactNames -> Published]
    BY <1>1 DEF FilesTyped
  <2>3. FilesTyped' /\ plan' = plan /\ Become(p, n)
    BY <1>1, <1>4 DEF Digest, FilesTyped, planFiles, shardFiles, outputs
  <2> HIDE DEF d
  <2>4. n \in Processes /\ Local(n)
    BY <2>1, <2>2 DEF Processes, Publishing, Sealing, Local
  <2> QED BY <2>1, <2>3, <2>4, Becomes
<1>5. CASE WriteManifest(p)
  <2> DEFINE n == [me EXCEPT !.pc = "checksums"]
  <2>1. me \in Sealing /\ plan \in Plans
    BY <1>1, <1>2, <1>5, Positions DEF WriteManifest
  <2>2. FilesTyped' /\ plan' = plan /\ Become(p, n)
    BY <1>1, <1>5 DEF WriteManifest, FilesTyped, planFiles, shardFiles, MergedFiles, ArtifactNames
  <2>3. n \in Processes /\ Local(n)
    BY <2>1 DEF Processes, Sealing, Local
  <2> QED BY <2>1, <2>2, <2>3, Becomes
<1>6. CASE WriteChecksums(p)
  <2>1. FilesTyped' /\ plan' = plan /\ Become(p, Gone)
    BY <1>1, <1>6 DEF WriteChecksums, Return, FilesTyped, planFiles, shardFiles, MergedFiles,
                      ArtifactNames
  <2> QED BY <1>1, <2>1, Becomes
<1> QED BY <1>3, <1>4, <1>5, <1>6

LEMMA TypeNext == TInv /\ [Next]_vars => TInv'
<1> SUFFICES ASSUME TInv, [Next]_vars PROVE TInv'
  OBVIOUS
<1>1. CASE UNCHANGED vars
  BY <1>1 DEF vars, TInv, TypeOK, AtQuery, Local, Planned, Free, ShardIds, ShardOf
<1>2. ASSUME NEW p \in Proc, Abort(p) PROVE TInv'
  <2>1. FilesTyped' /\ plan' = plan /\ Become(p, Gone) /\ Local(Gone) /\ Gone \in Processes
    BY <1>2, Typed DEF Abort, Raise, TInv, FilesTyped, planFiles, shardFiles, outputs, Local, Gone,
                       Processes
  <2> QED BY <2>1, Becomes
<1> QED BY <1>1, <1>2, PlanSteps, ShardSteps, CheckSteps, MergeSteps DEF Next, Start, Run

Move(p) == Start(p) \/ Run(p) \/ Abort(p)

LEMMA OneMoves ==
  ASSUME TInv, NEW p \in Proc, Move(p)
  PROVE  \A o \in Proc : o # p => proc'[o] = proc[o]
<1>1. TypeOK
  BY DEF TInv
<1>2. \E r : Become(p, r)
  BY DEF Move, Start, Run, Abort, StartPlan, StartShard, StartCheck, WritePlan, WriteShardFile, Scan,
         Generate, Commit, WriteStatus, Inspect, WriteReport, Gather, Publish, Digest, WriteManifest,
         WriteChecksums, Return, Raise
<1> QED BY <1>1, <1>2 DEF TypeOK, Become

\* What a process is after each of its steps; other modes than the shard's in detail.
LEMMA After ==
  ASSUME TInv, NEW p \in Proc
  PROVE  LET me == proc[p]
             new == proc'[p]
         IN  /\ StartPlan(p) \/ WritePlan(p) \/ WriteShardFile(p) => new = Gone \/ new.mode \in PlanMode
             /\ StartShard(p) \/ Scan(p) \/ Generate(p) \/ Commit(p) => new = Gone \/ new.mode \in ShardMode
             /\ StartCheck(p) => new = Gone \/ (/\ new.pc = "inspect" /\ new.mode \in CheckMode /\ new.view = plan
                                                /\ (new.mode = "merge" => new.strict))
             /\ Inspect(p) => /\ new.pc = "report" /\ new.mode = me.mode
                              /\ new.verdict = [plan |-> me.view, strict |-> me.strict,
                                                valid |-> NoErrors(me.view, me.strict)]
             /\ WriteReport(p) => new = Gone \/ (/\ new.pc = "gather" /\ new.mode = "merge"
                                                 /\ new.verdict = me.verdict /\ me.verdict.valid)
             /\ Gather(p) => new = Gone \/ (/\ new.pc = "publish" /\ new.mode = "merge" /\ new.view = plan
                                            /\ new.verdict = me.verdict /\ new.at = 1
                                            /\ new.lines = [q \in plan.ids |-> records[Path(q, plan)]])
             /\ Publish(p) => /\ new.pc = "publish" /\ new.mode = "merge" /\ new.view = me.view
                              /\ new.verdict = me.verdict /\ new.lines = me.lines /\ new.at = me.at + 1
             /\ Digest(p) => /\ new.pc = "manifest" /\ new.mode = "merge" /\ new.view = me.view
                             /\ new.digests = [f \in ArtifactNames |-> merged[f]]
             /\ WriteManifest(p) => /\ new.pc = "checksums" /\ new.mode = "merge" /\ new.view = me.view
                                    /\ new.digests = me.digests
             /\ WriteStatus(p) \/ WriteChecksums(p) \/ Abort(p) => new = Gone
<1> DEFINE me == proc[p]
           new == proc'[p]
<1>1. TypeOK /\ \A r : Become(p, r) => new = r
  BY DEF TInv, TypeOK, Become
<1>2. StartPlan(p) => new = Gone \/ new.mode \in PlanMode
  BY <1>1 DEF StartPlan, Raise, PlanMode
<1>3. WritePlan(p) => new = Gone \/ new.mode \in PlanMode
  BY <1>1 DEF WritePlan, Return, PlanMode
<1>4. WriteShardFile(p) => new = Gone \/ new.mode \in PlanMode
  BY <1>1, Positions DEF WriteShardFile, Return, Filing
<1>5. StartShard(p) => new = Gone \/ new.mode \in ShardMode
  BY <1>1 DEF StartShard, Raise
<1>6. Scan(p) => new = Gone \/ new.mode \in ShardMode
  BY <1>1, Positions DEF Scan, Raise, Working
<1>7. Generate(p) => new = Gone \/ new.mode \in ShardMode
  BY <1>1, Positions DEF Generate, Working
<1>8. Commit(p) => new = Gone \/ new.mode \in ShardMode
  BY <1>1, Positions DEF Commit, Working
<1>9. StartCheck(p) => new = Gone \/ (/\ new.pc = "inspect" /\ new.mode \in CheckMode /\ new.view = plan
                                      /\ (new.mode = "merge" => new.strict))
  BY <1>1 DEF StartCheck, Raise
<1>10. Inspect(p) => /\ new.pc = "report" /\ new.mode = me.mode
                     /\ new.verdict = [plan |-> me.view, strict |-> me.strict,
                                       valid |-> NoErrors(me.view, me.strict)]
  BY <1>1 DEF Inspect
<1>11. WriteReport(p) => new = Gone \/ (/\ new.pc = "gather" /\ new.mode = "merge"
                                        /\ new.verdict = me.verdict /\ me.verdict.valid)
  BY <1>1, Positions DEF WriteReport, Return, Raise, Reporting, CheckMode
<1>12. Gather(p) => new = Gone \/ (/\ new.pc = "publish" /\ new.mode = "merge" /\ new.view = plan
                                   /\ new.verdict = me.verdict /\ new.at = 1
                                   /\ new.lines = [q \in plan.ids |-> records[Path(q, plan)]])
  BY <1>1 DEF Gather, Raise
<1>13. Publish(p) => /\ new.pc = "publish" /\ new.mode = "merge" /\ new.view = me.view
                     /\ new.verdict = me.verdict /\ new.lines = me.lines /\ new.at = me.at + 1
  BY <1>1, Positions DEF Publish, Publishing
<1>14. Digest(p) => /\ new.pc = "manifest" /\ new.mode = "merge" /\ new.view = me.view
                    /\ new.digests = [f \in ArtifactNames |-> merged[f]]
  BY <1>1 DEF Digest
<1>15. WriteManifest(p) => /\ new.pc = "checksums" /\ new.mode = "merge" /\ new.view = me.view
                           /\ new.digests = me.digests
  BY <1>1, Positions DEF WriteManifest, Sealing
<1>16. WriteStatus(p) \/ WriteChecksums(p) \/ Abort(p) => new = Gone
  BY <1>1 DEF WriteStatus, WriteChecksums, Abort, Return, Raise
<1> QED BY <1>2, <1>3, <1>4, <1>5, <1>6, <1>7, <1>8, <1>9, <1>10, <1>11, <1>12, <1>13, <1>14, <1>15, <1>16

\* Only a commit changes a record, to one that is valid.
LEMMA OneCommits ==
  ASSUME TInv, NEW p \in Proc, Move(p)
  PROVE  \/ records' = records
         \/ /\ Commit(p) /\ RecordPath(proc[p], proc[p].at) \in Paths
            /\ proc[p].draft \in Contents
            /\ records' = [records EXCEPT ![RecordPath(proc[p], proc[p].at)] = proc[p].draft]
<1>1. CASE Commit(p)
  <2>1. proc[p] \in Working /\ Local(proc[p]) /\ proc[p].pc = "commit"
    BY <1>1, Positions DEF TInv, AtQuery, Commit
  <2>2. Dataset[proc[p].at] \in Queries /\ proc[p].shard \in Shards /\ proc[p].draft \in Contents
    BY <2>1 DEF Local, Working, Queries
  <2> QED BY <1>1, <2>2 DEF Commit, RecordPath, Paths
<1>2. CASE ~Commit(p)
  BY <1>2 DEF Move, Start, Run, Abort, StartPlan, StartShard, StartCheck, WritePlan, WriteShardFile, Scan,
         Generate, WriteStatus, Inspect, WriteReport, Gather, Publish, Digest, WriteManifest,
         WriteChecksums, shardFiles
<1> QED BY <1>1, <1>2

\* A valid record may be replaced by another one but never goes away.
LEMMA Lasting ==
  ASSUME TInv, NEW p \in Proc, Move(p), NEW x \in Paths, Terminal(records[x])
  PROVE  Terminal(records'[x])
  BY OneCommits DEF Terminal, TInv, TypeOK

LEMMA ScannedInit == Init => ScannedIsTerminal
  BY DEF Init, ScannedIsTerminal, Free

LEMMA ScannedNext ==
  ASSUME TInv, ScannedIsTerminal, NEW p \in Proc, Move(p)
  PROVE  ScannedIsTerminal'
<1> DEFINE me == proc[p]
           new == proc'[p]
           Passed(m, i, r) == Dataset[i] \in ShardIds(m.view, m.shard) => Terminal(r[RecordPath(m, i)])
<1>1. TypeOK /\ TypeOK' /\ Len(Dataset) \in Nat /\ DOMAIN Dataset = 1..Len(Dataset)
  BY TypeNext, DatasetAssumption DEF TInv, Next, Move
<1>2. ASSUME NEW m \in Working, NEW i \in 1..Len(Dataset), Passed(m, i, records)
      PROVE  Passed(m, i, records')
  <2>1. RecordPath(m, i) \in Paths
    BY <1>1 DEF RecordPath, Working, Paths, Queries
  <2> QED BY <1>2, <2>1, Lasting
<1>3. ASSUME NEW o \in Proc, ~Free(o), proc[o].mode \in ShardMode
      PROVE  /\ proc[o] \in Working
             /\ \A i \in 1..(proc[o].at - 1) : i \in 1..Len(Dataset) /\ Passed(proc[o], i, records')
  <2>1. proc[o] \in Working
    BY <1>1, <1>3, Positions DEF Processes, Planning, Filing, Inspecting, Reporting, Publishing, Sealing,
         ShardMode, PlanMode, CheckMode, Free, TypeOK
  <2>2. \A i \in 1..(proc[o].at - 1) : i \in 1..Len(Dataset)
    BY <1>1, <2>1 DEF Working
  <2>3. \A i \in 1..(proc[o].at - 1) : Passed(proc[o], i, records)
    BY <1>3 DEF ScannedIsTerminal
  <2> HIDE DEF Passed
  <2> QED BY <1>2, <2>1, <2>2, <2>3
<1>4. ASSUME new # Gone, new.mode \in ShardMode, NEW i \in 1..(new.at - 1)
      PROVE  Passed(new, i, records')
  <2>1. new \in Working
    BY <1>1, <1>4 DEF TypeOK, Processes, Planning, Filing, Inspecting, Reporting, Publishing, Sealing,
         ShardMode, PlanMode, CheckMode, Free, TypeOK
  <2>2. CASE StartShard(p)
    <3>1. new.at = 1
      BY <1>1, <1>4, <2>2 DEF StartShard, Become, Raise, TypeOK, Gone
    <3> QED BY <1>4, <3>1
  <2>3. ASSUME me \in Working, new.view = me.view, new.shard = me.shard, me # Gone
        PROVE  /\ \A k \in 1..(me.at - 1) : Passed(new, k, records')
               /\ \A k : Passed(new, k, records') <=> Passed(me, k, records')
    <3>1. \A k : Passed(new, k, records') <=> Passed(me, k, records')
      BY <2>3 DEF RecordPath
    <3>2. \A k \in 1..(me.at - 1) : Passed(me, k, records')
      BY <1>3, <2>3 DEF Working, Free
    <3> HIDE DEF Passed
    <3> QED BY <3>1, <3>2
  <2>4. CASE Scan(p)
    <3>1. PICK k \in DOMAIN Dataset :
            /\ me.pc = "scan" /\ IsFirst(me, k) /\ records' = records
            /\ \/ Become(p, [me EXCEPT !.pc = "generate", !.at = k])
               \/ Terminal(records[RecordPath(me, k)]) /\ Become(p, [me EXCEPT !.at = k + 1])
               \/ Become(p, Gone)
      BY <2>4 DEF Scan, Raise, shardFiles
    <3>2. me \in Working /\ me # Gone
      BY <1>1, <3>1, Positions DEF Gone
    <3>3. new.view = me.view /\ new.shard = me.shard
          /\ (new.at = k \/ (new.at = k + 1 /\ Terminal(records'[RecordPath(me, k)])))
      BY <1>1, <1>4, <3>1, <3>2 DEF Become, TypeOK, Working
    <3>4. \A j \in me.at..(k - 1) : Dataset[j] \notin ShardIds(me.view, me.shard)
      BY <1>1, <3>1, <3>2 DEF IsFirst, Ahead, Working
    <3>5. CASE i = k
      <4>1. new.at = k + 1
        BY <1>1, <1>4, <3>1, <3>3, <3>5
      <4>2. Passed(me, k, records')
        BY <1>1, <3>1, <3>3, <4>1
      <4> QED BY <2>3, <3>2, <3>3, <3>5, <4>2
    <3>6. CASE i \in me.at..(k - 1)
      BY <2>3, <3>2, <3>3, <3>4, <3>6
    <3>7. CASE i \in 1..(me.at - 1)
      BY <2>3, <3>2, <3>3, <3>7
    <3>8. me.at \in Nat /\ k \in Nat /\ i \in 1..k
      BY <1>1, <1>4, <3>1, <3>2, <3>3 DEF Working
    <3> QED BY <3>5, <3>6, <3>7, <3>8
  <2>5. CASE Generate(p)
    <3>1. me \in Working /\ me # Gone
      BY <1>1, <2>5, Positions DEF Generate, Gone
    <3>2. new.view = me.view /\ new.shard = me.shard /\ new.at = me.at
      BY <1>1, <2>5, <3>1 DEF Generate, Become, TypeOK, Working
    <3> QED BY <1>4, <2>3, <3>1, <3>2
  <2>6. CASE Commit(p)
    <3>1. me \in Working /\ me # Gone
      BY <1>1, <2>6, Positions DEF Commit, Gone
    <3>2. new.view = me.view /\ new.shard = me.shard /\ new.at = me.at + 1
      BY <1>1, <2>6, <3>1 DEF Commit, Become, TypeOK, Working
    <3>3. Terminal(records'[RecordPath(me, me.at)])
      <4>1. records' = [records EXCEPT ![RecordPath(me, me.at)] = me.draft]
            /\ RecordPath(me, me.at) \in Paths /\ me.draft \in Contents
        <5>1. Local(me) /\ me.pc = "commit"
          BY <2>6 DEF TInv, AtQuery, Commit
        <5> QED BY <1>1, <2>6, <3>1, <5>1 DEF Commit, Local, RecordPath, Working, Paths, Queries
      <4> QED BY <1>1, <4>1 DEF Terminal, TypeOK
    <3>4. CASE i = me.at
      BY <2>3, <3>1, <3>2, <3>3, <3>4
    <3>5. CASE i \in 1..(me.at - 1)
      BY <2>3, <3>1, <3>2, <3>5
    <3> QED BY <1>4, <3>1, <3>2, <3>4, <3>5 DEF Working
  <2>7. CASE ~StartShard(p) /\ ~Scan(p) /\ ~Generate(p) /\ ~Commit(p)
    <3>1. new = Gone \/ new.mode \in PlanMode \cup CheckMode
      <4>1. proc[p].pc \in {"inspect", "report", "gather", "publish", "manifest"} => me.mode \in CheckMode
        BY <1>1, Positions DEF Inspecting, Reporting, Publishing, Sealing, CheckMode
      <4> QED BY <2>7, <4>1, After DEF Move, Start, Run, CheckMode, Inspect
    <3> QED BY <1>4, <3>1 DEF ShardMode, PlanMode, CheckMode
  <2> QED BY <2>2, <2>4, <2>5, <2>6, <2>7
<1>5. ASSUME NEW o \in Proc, proc'[o] # Gone, proc'[o].mode \in ShardMode, NEW i \in 1..(proc'[o].at - 1)
      PROVE  Passed(proc'[o], i, records')
  <2>1. CASE o = p
    BY <1>4, <1>5, <2>1
  <2>2. CASE o # p
    <3>1. proc'[o] = proc[o]
      BY <2>2, OneMoves
    <3> HIDE DEF Passed
    <3> QED BY <1>3, <1>5, <3>1 DEF Free
  <2> QED BY <2>1, <2>2
<1> QED BY <1>5 DEF ScannedIsTerminal, Free, ShardIds, ShardOf, RecordPath, Terminal

\* A strict verdict that says valid holds of the records.
Holds(v, r) == v.valid /\ v.strict => \A q \in v.plan.ids : Terminal(r[Path(q, v.plan)])

Truthful ==
  /\ report # None => Holds(report, records)
  /\ \A p \in Proc : proc[p].pc \in {"report", "gather", "publish"} => Holds(proc[p].verdict, records)

LEMMA HoldsOn ==
  ASSUME TInv, NEW p \in Proc, Move(p), NEW v \in Verdicts, Holds(v, records)
  PROVE  Holds(v, records')
<1>1. ASSUME NEW q \in v.plan.ids PROVE Path(q, v.plan) \in Paths
  BY ShardInRange DEF Verdicts
<1> QED BY <1>1, Lasting DEF Holds

LEMMA VerdictTypes ==
  ASSUME TypeOK
  PROVE  /\ report # None => report \in Verdicts
         /\ \A p \in Proc : proc[p].pc \in {"report", "gather", "publish"} => proc[p].verdict \in Verdicts
  BY Positions DEF TypeOK, Reporting, Publishing

\* What a process in check mode is about to say comes from its inspection.
LEMMA VerdictMoves ==
  ASSUME TInv, NEW p \in Proc, Move(p), proc'[p].pc \in {"report", "gather", "publish"}
  PROVE  \/ /\ Inspect(p) /\ proc[p] \in Inspecting
            /\ proc'[p].verdict = [plan |-> proc[p].view, strict |-> proc[p].strict,
                                   valid |-> NoErrors(proc[p].view, proc[p].strict)]
         \/ /\ proc[p].pc \in {"report", "gather", "publish"}
            /\ proc'[p].verdict = proc[p].verdict
<1>1. TypeOK /\ TypeOK'
  BY TypeNext DEF TInv, Next, Move
<1>2. proc'[p] # Gone /\ proc'[p].mode \in CheckMode
  BY <1>1 DEF TypeOK, Processes, Planning, Filing, Working, Inspecting, Reporting, Publishing, Sealing, Gone,
     CheckMode
<1>3. \/ StartCheck(p) \/ Inspect(p) \/ WriteReport(p) \/ Gather(p) \/ Publish(p) \/ Digest(p) \/ WriteManifest(p)
  BY <1>2, After DEF Move, Start, Run, PlanMode, ShardMode, CheckMode
<1>4. CASE Inspect(p)
  BY <1>1, <1>4, After, Positions DEF Inspect
<1>5. CASE WriteReport(p) \/ Gather(p) \/ Publish(p)
  <2>1. proc[p].pc \in {"report", "gather", "publish"}
    BY <1>5 DEF WriteReport, Gather, Publish
  <2> QED BY <1>2, <1>5, <2>1, After
<1>6. CASE StartCheck(p) \/ Digest(p) \/ WriteManifest(p)
  BY <1>2, <1>6, After
<1> QED BY <1>3, <1>4, <1>5, <1>6

LEMMA TruthfulNext ==
  ASSUME TInv, Truthful, NEW p \in Proc, Move(p)
  PROVE  Truthful'
<1>1. TypeOK /\ TypeOK'
  BY TypeNext DEF TInv, Next, Move
<1>2. report' # None => Holds(report', records')
  <2>1. CASE WriteReport(p)
    <3>1. proc[p].pc = "report" /\ report' = proc[p].verdict
      BY <2>1 DEF WriteReport
    <3> QED BY <1>1, <3>1, VerdictTypes, HoldsOn DEF Truthful
  <2>2. CASE ~WriteReport(p)
    <3>1. report' = report
      BY <2>2 DEF Move, Start, Run, Abort, StartPlan, StartShard, StartCheck, WritePlan, WriteShardFile, Scan,
         Generate, Commit, WriteStatus, Inspect, Gather, Publish, Digest, WriteManifest, WriteChecksums, outputs
    <3> QED BY <1>1, <3>1, VerdictTypes, HoldsOn DEF Truthful
  <2> QED BY <2>1, <2>2
<1>3. ASSUME NEW o \in Proc, proc'[o].pc \in {"report", "gather", "publish"}
      PROVE  Holds(proc'[o].verdict, records')
  <2>1. proc[o].pc \in {"report", "gather", "publish"} => Holds(proc[o].verdict, records')
    BY <1>1, VerdictTypes, HoldsOn DEF Truthful
  <2>2. CASE o # p
    BY <1>3, <2>1, <2>2, OneMoves
  <2>3. CASE o = p
    <3>1. CASE Inspect(p) /\ proc[p] \in Inspecting
               /\ proc'[p].verdict = [plan |-> proc[p].view, strict |-> proc[p].strict,
                                      valid |-> NoErrors(proc[p].view, proc[p].strict)]
      <4> DEFINE view == proc[p].view
      <4>1. view \in Plans /\ records' = records
        BY <3>1 DEF Inspecting, Inspect, shardFiles
      <4>2. ASSUME NEW strict \in BOOLEAN, strict, NoErrors(view, strict), NEW q \in view.ids
            PROVE  Terminal(records[Path(q, view)])
        BY <4>2 DEF NoErrors, Found
      <4>3. /\ proc'[p].verdict.plan = view
            /\ proc'[p].verdict.strict = proc[p].strict
            /\ proc'[p].verdict.valid = NoErrors(view, proc[p].strict)
        BY <3>1
      <4>4. proc[p].strict \in BOOLEAN
        BY <3>1 DEF Inspecting
      <4> QED BY <2>3, <4>1, <4>2, <4>3, <4>4 DEF Holds
    <3> QED BY <1>3, <2>1, <2>3, <3>1, VerdictMoves
  <2> QED BY <2>2, <2>3
<1> QED BY <1>2, <1>3 DEF Truthful, Holds, Terminal, Path, ShardOf

LEMMA Unmoved ==
  ASSUME UNCHANGED vars
  PROVE  /\ ScannedIsTerminal => ScannedIsTerminal'
         /\ Truthful => Truthful'
  BY DEF vars, ScannedIsTerminal, Free, ShardIds, ShardOf, RecordPath, Terminal, Truthful, Holds, Path

-----------------------------------------------------------------------------
\* Types of the files and of every process's locals.
THEOREM TypeCorrect == Spec => []TypeOK
<1>1. TInv => TypeOK
  BY DEF TInv
<1> QED BY <1>1, TypeInit, TypeNext, PTL DEF Spec

LEMMA Typing == Spec => []TInv
  BY TypeInit, TypeNext, PTL DEF Spec

\* run_shard's checks before resume, without any discipline: what an invocation has gone
\* past is on disk and valid.
THEOREM Scanned == Spec => []ScannedIsTerminal
<1>1. TInv /\ ScannedIsTerminal /\ [Next]_vars => ScannedIsTerminal'
  BY ScannedNext, Unmoved DEF Next, Move
<1> QED BY <1>1, ScannedInit, Typing, PTL DEF Spec

LEMMA Truth == Spec => []Truthful
<1>1. Init => Truthful
  BY DEF Init, Truthful, Gone
<1>2. TInv /\ Truthful /\ [Next]_vars => Truthful'
  BY TruthfulNext, Unmoved DEF Next, Move
<1> QED BY <1>1, <1>2, Typing, PTL DEF Spec

\* validate_root, without any discipline: a strict report that says valid stays true.
THEOREM Reported == Spec => []ReportStays
<1>1. Truthful => ReportStays
  BY DEF Truthful, Holds, ReportStays
<1> QED BY <1>1, Truth, PTL

-----------------------------------------------------------------------------
(* One process per shard: a path that was free when it was looked at is free  *)
(* when the record is committed, minutes later.                               *)

Apart ==
  \A p, o \in Proc :
    p # o /\ ~Free(p) /\ ~Free(o) /\ proc[p].mode \in ShardMode /\ proc[o].mode \in ShardMode
      => proc[p].shard # proc[o].shard

Unwritten ==
  \A p \in Proc : proc[p].pc \in {"generate", "commit"} =>
    records[RecordPath(proc[p], proc[p].at)] = None

\* A process in shard mode has just started on a shard of its own, or keeps its shard.
LEMMA ShardMoves ==
  ASSUME TInv, "one_per_shard" \in Discipline, NEW p \in Proc, Move(p), ~Free(p)',
         proc'[p].mode \in ShardMode
  PROVE  \/ /\ StartShard(p) /\ proc'[p].pc = "scan"
            /\ \A o \in Others(p, ShardMode) : proc[o].shard # proc'[p].shard
         \/ /\ Scan(p) \/ Generate(p) \/ Commit(p)
            /\ proc[p] \in Working /\ ~Free(p) /\ proc'[p].shard = proc[p].shard
<1>1. TypeOK /\ \A r : Become(p, r) => proc'[p] = r
  BY DEF TInv, TypeOK, Become
<1>2. CASE StartShard(p)
  BY <1>1, <1>2 DEF StartShard, Raise, Free
<1>3. ASSUME Scan(p) \/ Generate(p) \/ Commit(p)
      PROVE  proc[p] \in Working /\ ~Free(p) /\ proc'[p].shard = proc[p].shard
  <2>1. proc[p] \in Working /\ ~Free(p)
    <3>1. proc[p].pc \in {"scan", "generate", "commit"}
      BY <1>3 DEF Scan, Generate, Commit
    <3> QED BY <1>1, <3>1, Positions DEF Free, Gone
  <2>2. CASE Scan(p)
    BY <1>1, <2>1, <2>2 DEF Scan, Raise, Working, Free
  <2>3. CASE Generate(p)
    BY <1>1, <2>1, <2>3 DEF Generate, Working
  <2>4. CASE Commit(p)
    BY <1>1, <2>1, <2>4 DEF Commit, Working
  <2> QED BY <1>3, <2>1, <2>2, <2>3, <2>4
<1>4. CASE ~(StartShard(p) \/ Scan(p) \/ Generate(p) \/ Commit(p))
  <2>1. proc[p].pc \in {"inspect", "report", "gather", "publish", "manifest"} => proc[p].mode \in CheckMode
    BY <1>1, Positions DEF Inspecting, Reporting, Publishing, Sealing, CheckMode
  <2> QED BY <1>4, <2>1, After DEF Move, Start, Run, Free, CheckMode, ShardMode, PlanMode, Inspect
<1> QED BY <1>2, <1>3, <1>4

LEMMA ApartNext ==
  ASSUME TInv, Apart, "one_per_shard" \in Discipline, NEW p \in Proc, Move(p)
  PROVE  Apart'
<1>1. ASSUME NEW o \in Proc, o # p, ~Free(p)', ~Free(o)', proc'[p].mode \in ShardMode,
             proc'[o].mode \in ShardMode
      PROVE  proc'[p].shard # proc'[o].shard
  <2>1. proc'[o] = proc[o] /\ ~Free(o)
    BY <1>1, OneMoves DEF Free
  <2> QED BY <1>1, <2>1, ShardMoves DEF Apart, Others, Free, Working
<1>2. ASSUME NEW o \in Proc, NEW u \in Proc, o # p, u # p, o # u, ~Free(o)', ~Free(u)',
             proc'[o].mode \in ShardMode, proc'[u].mode \in ShardMode
      PROVE  proc'[o].shard # proc'[u].shard
  BY <1>2, OneMoves DEF Apart, Free
<1> QED BY <1>1, <1>2 DEF Apart

LEMMA UnwrittenNext ==
  ASSUME TInv, Apart, Unwritten, "one_per_shard" \in Discipline, NEW p \in Proc, Move(p)
  PROVE  /\ Unwritten'
         /\ \A x \in Paths : records[x] # None => records'[x] = records[x]
<1>1. TypeOK /\ TypeOK' /\ \A r : Become(p, r) => proc'[p] = r
  BY TypeNext DEF TInv, Next, Move, TypeOK, Become
<1>2. \A x \in Paths : records[x] # None => records'[x] = records[x]
  BY <1>1, OneCommits DEF Unwritten, Commit, TypeOK
<1>3. ASSUME NEW o \in Proc, o # p, proc'[o].pc \in {"generate", "commit"}
      PROVE  records'[RecordPath(proc'[o], proc'[o].at)] = None
  <2>1. proc'[o] = proc[o] /\ records[RecordPath(proc[o], proc[o].at)] = None
    BY <1>3, OneMoves DEF Unwritten
  <2>2. proc[o] \in Working /\ ~Free(o)
    BY <1>1, <1>3, <2>1, Positions DEF Free, Gone
  <2>3. CASE Commit(p)
    <3>1. proc[p] \in Working /\ ~Free(p)
      BY <1>1, <2>3, Positions DEF Commit, Free, Gone
    <3>2. proc[o].shard # proc[p].shard
      BY <1>3, <2>2, <3>1 DEF Apart, Working
    <3>3. RecordPath(proc[o], proc[o].at) # RecordPath(proc[p], proc[p].at)
      BY <3>2 DEF RecordPath
    <3>4. RecordPath(proc[o], proc[o].at) \in Paths
      <4>1. Local(proc[o])
        BY DEF TInv, AtQuery
      <4> QED BY <1>3, <2>1, <2>2, <4>1 DEF Local, RecordPath, Working, Paths, Queries
    <3> QED BY <1>1, <2>1, <2>3, <3>3, <3>4, OneCommits DEF TypeOK
  <2>4. CASE ~Commit(p)
    BY <2>1, <2>4, OneCommits
  <2> QED BY <2>3, <2>4
<1>4. ASSUME proc'[p].pc \in {"generate", "commit"}
      PROVE  records'[RecordPath(proc'[p], proc'[p].at)] = None
  <2>1. proc'[p] \in Working /\ ~Free(p)' /\ proc'[p].mode \in ShardMode
    BY <1>1, <1>4 DEF TypeOK, Processes, Planning, Filing, Working, Inspecting, Reporting, Publishing,
       Sealing, Gone, Free
  <2>2. Scan(p) \/ Generate(p) \/ Commit(p)
    BY <1>4, <2>1, ShardMoves
  <2>3. proc[p] \in Working
    BY <1>1, <2>2, Positions DEF Scan, Generate, Commit
  <2>4. CASE Scan(p)
    <3>1. PICK i \in DOMAIN Dataset :
            \/ /\ Become(p, [proc[p] EXCEPT !.pc = "generate", !.at = i])
               /\ records[RecordPath(proc[p], i)] = None
            \/ proc[p].pc = "scan" /\ Become(p, [proc[p] EXCEPT !.at = i + 1])
            \/ Become(p, Gone)
      BY <2>4 DEF Scan, Raise
    <3>2. records' = records
      BY <2>4 DEF Scan, shardFiles
    <3>3. proc[p].pc = "scan" => proc'[p] # [proc[p] EXCEPT !.at = i + 1]
      BY <1>4, <2>3 DEF Working
    <3>4. proc'[p] = [proc[p] EXCEPT !.pc = "generate", !.at = i]
          /\ records[RecordPath(proc[p], i)] = None
      BY <1>1, <1>4, <2>1, <3>1, <3>3 DEF Free
    <3>5. proc'[p].at = i /\ proc'[p].shard = proc[p].shard
      BY <2>3, <3>4 DEF Working
    <3> QED BY <3>2, <3>4, <3>5 DEF RecordPath
  <2>5. CASE Generate(p)
    <3>1. proc[p].pc = "generate" /\ proc'[p].at = proc[p].at /\ proc'[p].shard = proc[p].shard
          /\ records' = records
      BY <1>1, <2>3, <2>5 DEF Generate, Working, shardFiles
    <3> QED BY <3>1 DEF Unwritten, RecordPath
  <2>6. CASE Commit(p)
    BY <1>1, <1>4, <2>3, <2>6 DEF Commit, Working
  <2> QED BY <2>2, <2>4, <2>5, <2>6
<1>5. Unwritten'
  BY <1>3, <1>4 DEF Unwritten, RecordPath
<1> QED BY <1>2, <1>5

LEMMA WrittenOnce ==
  ASSUME "one_per_shard" \in Discipline
  PROVE  Spec => [](Apart /\ Unwritten)
<1>1. Init => Apart /\ Unwritten
  <2>1. Init => Apart
    BY DEF Init, Apart, Free
  <2>2. Init => Unwritten
    BY DEF Init, Unwritten, Gone
  <2> QED BY <2>1, <2>2
<1>2. TInv /\ Apart /\ Unwritten /\ UNCHANGED vars => (Apart /\ Unwritten)'
  BY DEF vars, Apart, Unwritten, Free, RecordPath
<1>3. TInv /\ Apart /\ Unwritten /\ [Next]_vars => (Apart /\ Unwritten)'
  BY <1>2, ApartNext, UnwrittenNext DEF Next, Move
<1> QED BY <1>1, <1>3, Typing, PTL DEF Spec

\* "terminal query already exists": with one process per shard a committed record is never
\* written again, through kills, resumptions and new plans.
THEOREM Immutable ==
  ASSUME "one_per_shard" \in Discipline
  PROVE  Spec => RecordsImmutable
<1>1. TInv /\ Apart /\ Unwritten /\ [Next]_vars
        => [\A x \in Paths : records[x] # None => records'[x] = records[x]]_vars
  BY UnwrittenNext DEF Next, Move
<1> QED BY <1>1, Typing, WrittenOnce, PTL DEF Spec, RecordsImmutable

-----------------------------------------------------------------------------
(* Plans made alone and one check at a time: a merge is never mixed with      *)
(* another one that its checksums would verify.                               *)

Solo ==
  \A p, o \in Proc : p # o /\ ~Free(p) =>
    /\ proc[p].mode \in PlanMode => Free(o)
    /\ proc[p].mode \in CheckMode /\ ~Free(o) => proc[o].mode \notin CheckMode

\* Files of one merge of one validated plan.
OneMerge(files, pl) ==
  /\ files["P"] = files["G"] /\ files["P"] = files["unresolved"]
  /\ files["validation"].valid /\ files["validation"].plan = pl
  /\ DOMAIN files["P"] = pl.ids /\ \A q \in pl.ids : Terminal(files["P"][q])

\* What a validation or a merge has in hand, given the plan and the merged files on disk.
Merging(me, pl, files) ==
  /\ me.pc = "inspect" => me.view = pl /\ (me.mode = "merge" => me.strict)
  /\ me.pc \in {"report", "gather"} =>
       me.verdict.plan = pl /\ (me.mode = "merge" => me.verdict.strict)
  /\ me.pc = "gather" => me.mode = "merge" /\ me.verdict.valid
  /\ me.pc = "publish" =>
       /\ me.verdict.valid /\ me.verdict.plan = me.view
       /\ DOMAIN me.lines = me.view.ids /\ \A q \in me.view.ids : Terminal(me.lines[q])
       /\ \A j \in 1..(me.at - 1) : files[Artifacts[j]] = ArtifactContent(me, Artifacts[j])
  /\ me.pc \in {"manifest", "checksums"} => OneMerge(me.digests, me.view)
  /\ me.pc = "checksums" => files["manifest"].plan = me.view

Summed(files) ==
  LET sums == files["SHA256SUMS"]
  IN  sums # None => DOMAIN sums = ArtifactNames \cup {"manifest"} /\ OneMerge(sums, sums["manifest"].plan)

MInv == Solo /\ (\A p \in Proc : Merging(proc[p], plan, merged)) /\ Summed(merged)

Orderly == {"plan_alone", "one_merge"} \subseteq Discipline

LEMMA SoloNext ==
  ASSUME TInv, Solo, Orderly, NEW p \in Proc, Move(p)
  PROVE  Solo'
<1>1. TypeOK
  BY DEF TInv
<1>2. PlanMode \cap CheckMode = {} /\ PlanMode \cap ShardMode = {} /\ ShardMode \cap CheckMode = {}
  BY DEF PlanMode, CheckMode, ShardMode
<1>3. CASE StartPlan(p)
  <2>1. \A o \in Proc : o # p => Free(o)
    BY <1>3 DEF StartPlan, Orderly
  <2> QED BY <2>1, OneMoves DEF Solo, Free
<1>4. CASE StartShard(p)
  <2>1. \A o \in Proc : o # p /\ ~Free(o) => proc[o].mode \notin PlanMode
    BY <1>4 DEF StartShard, Orderly, Others
  <2>2. proc'[p] = Gone \/ proc'[p].mode \in ShardMode
    BY <1>4, After
  <2> QED BY <1>2, <2>1, <2>2, OneMoves DEF Solo, Free
<1>5. CASE StartCheck(p)
  <2>1. \A o \in Proc : o # p /\ ~Free(o) => proc[o].mode \notin PlanMode \cup CheckMode
    BY <1>5 DEF StartCheck, Orderly, Others
  <2>2. proc'[p] = Gone \/ proc'[p].mode \in CheckMode
    BY <1>5, After
  <2> QED BY <1>2, <2>1, <2>2, OneMoves DEF Solo, Free
<1>6. CASE Run(p) \/ Abort(p)
  <2>1. proc'[p] = Gone \/ (~Free(p) /\ (proc'[p].mode \in PlanMode => proc[p].mode \in PlanMode)
                                      /\ (proc'[p].mode \in CheckMode => proc[p].mode \in CheckMode))
    <3>1. CASE WritePlan(p) \/ WriteShardFile(p)
      <4>1. proc[p].pc \in {"plan", "shard_files"}
        BY <3>1 DEF WritePlan, WriteShardFile
      <4>2. ~Free(p) /\ proc[p].mode \in PlanMode
        BY <1>1, <4>1, Positions DEF Planning, Filing, Free, Gone
      <4> QED BY <1>2, <3>1, <4>2, After
    <3>2. CASE Scan(p) \/ Generate(p) \/ Commit(p)
      <4>1. proc[p].pc \in {"scan", "generate", "commit"}
        BY <3>2 DEF Scan, Generate, Commit
      <4>2. ~Free(p) /\ proc[p].mode \in ShardMode
        BY <1>1, <4>1, Positions DEF Working, Free, Gone
      <4> QED BY <1>2, <3>2, <4>2, After
    <3>3. CASE Inspect(p) \/ WriteReport(p) \/ Gather(p) \/ Publish(p) \/ Digest(p) \/ WriteManifest(p)
      <4>1. proc[p].pc \in {"inspect", "report", "gather", "publish", "manifest"}
        BY <3>3 DEF Inspect, WriteReport, Gather, Publish, Digest, WriteManifest
      <4>2. ~Free(p) /\ proc[p].mode \in CheckMode
        BY <1>1, <4>1, Positions DEF Inspecting, Reporting, Publishing, Sealing, Free, Gone, CheckMode
      <4>3. proc'[p] = Gone \/ proc'[p].mode \in CheckMode
        BY <3>3, <4>2, After DEF CheckMode
      <4> QED BY <1>2, <4>2, <4>3
    <3>4. CASE WriteStatus(p) \/ WriteChecksums(p) \/ Abort(p)
      BY <3>4, After
    <3> QED BY <1>6, <3>1, <3>2, <3>3, <3>4 DEF Run
  <2> QED BY <2>1, OneMoves DEF Solo, Free
<1> QED BY <1>3, <1>4, <1>5, <1>6 DEF Move, Start

\* What a step changes of the plan and of the merged files, and who takes it.
LEMMA FileMoves ==
  ASSUME TInv, NEW p \in Proc, Move(p)
  PROVE  /\ plan' = plan \/ (WritePlan(p) /\ ~Free(p) /\ proc[p].mode \in PlanMode)
         /\ merged' = merged \/ (/\ Publish(p) \/ WriteManifest(p) \/ WriteChecksums(p)
                                 /\ ~Free(p) /\ proc[p].mode \in CheckMode)
<1>1. TypeOK
  BY DEF TInv
<1>2. CASE WritePlan(p)
  <2>1. proc[p] \in Planning /\ ~Free(p) /\ merged' = merged
    BY <1>1, <1>2, Positions DEF WritePlan, Free, Gone, outputs
  <2> QED BY <1>2, <2>1 DEF Planning
<1>3. CASE Publish(p) \/ WriteManifest(p) \/ WriteChecksums(p)
  <2>1. proc[p].pc \in {"publish", "manifest", "checksums"} /\ plan' = plan
    BY <1>3 DEF Publish, WriteManifest, WriteChecksums, planFiles
  <2>2. ~Free(p) /\ proc[p].mode \in CheckMode
    BY <1>1, <2>1, Positions DEF Publishing, Sealing, Free, Gone, CheckMode
  <2> QED BY <1>3, <2>1, <2>2
<1>4. CASE ~(WritePlan(p) \/ Publish(p) \/ WriteManifest(p) \/ WriteChecksums(p))
  BY <1>4 DEF Move, Start, Run, Abort, StartPlan, StartShard, StartCheck, WriteShardFile, Scan, Generate,
     Commit, WriteStatus, Inspect, WriteReport, Gather, Digest, planFiles, outputs
<1> QED BY <1>2, <1>3, <1>4

CheckPositions == {"inspect", "report", "gather", "publish", "manifest", "checksums"}

LEMMA MergingOthers ==
  ASSUME TInv, MInv, Orderly, NEW p \in Proc, Move(p), NEW o \in Proc, o # p
  PROVE  Merging(proc'[o], plan', merged')
<1>1. proc'[o] = proc[o] /\ Merging(proc[o], plan, merged)
  BY OneMoves DEF MInv
<1>2. CASE proc[o].pc \in CheckPositions
  <2>1. ~Free(o) /\ proc[o].mode \in CheckMode
    BY <1>2, Positions DEF TInv, CheckPositions, Inspecting, Reporting, Publishing, Sealing, Free, Gone, CheckMode
  <2>2. plan' = plan /\ merged' = merged
    BY <2>1, FileMoves DEF MInv, Solo
  <2> QED BY <1>1, <2>2
<1>3. CASE proc[o].pc \notin CheckPositions
  BY <1>1, <1>3 DEF Merging, CheckPositions
<1> QED BY <1>2, <1>3

LEMMA MergingMover ==
  ASSUME TInv, Truthful, MInv, NEW p \in Proc, Move(p)
  PROVE  Merging(proc'[p], plan', merged')
<1> DEFINE me == proc[p]
           new == proc'[p]
<1>1. TypeOK /\ TypeOK' /\ Merging(me, plan, merged)
  BY TypeNext DEF TInv, MInv, Next, Move
<1>2. CASE new.pc \notin CheckPositions
  BY <1>2 DEF Merging, CheckPositions
<1>3. ASSUME new.pc \in CheckPositions
      PROVE  /\ new # Gone /\ new.mode \notin PlanMode /\ new.mode \notin ShardMode
             /\ plan' = plan
  <2>1. new # Gone /\ new.mode \notin PlanMode /\ new.mode \notin ShardMode
    BY <1>1, <1>3 DEF TypeOK, CheckPositions, Processes, Planning, Filing, Working, Inspecting, Reporting,
       Publishing, Sealing, Gone, CheckMode, PlanMode, ShardMode
  <2>2. ~WritePlan(p)
    BY <2>1, After
  <2> QED BY <2>1, <2>2, FileMoves
<1>4. CASE StartCheck(p) /\ new.pc \in CheckPositions
  BY <1>3, <1>4, After DEF Merging
<1>5. CASE Inspect(p)
  <2>1. new.pc \in CheckPositions
    BY <1>5, After DEF CheckPositions
  <2>2. me.pc = "inspect"
    BY <1>5 DEF Inspect
  <2>3. /\ new.pc = "report" /\ new.mode = me.mode
        /\ new.verdict = [plan |-> me.view, strict |-> me.strict, valid |-> NoErrors(me.view, me.strict)]
    BY <1>5, After
  <2>4. new.verdict.plan = me.view /\ new.verdict.strict = me.strict
    BY <2>3
  <2> QED BY <1>1, <1>3, <2>1, <2>2, <2>3, <2>4 DEF Merging
<1>6. CASE WriteReport(p) /\ new.pc \in CheckPositions
  <2>1. me.pc = "report" /\ me.mode \in CheckMode
    BY <1>1, <1>6, Positions DEF WriteReport, Reporting
  <2>2. me.mode = "merge"
    BY <1>1, <1>3, <1>6, <2>1 DEF WriteReport, CheckMode, Return, Become, TypeOK
  <2> QED BY <1>1, <1>3, <1>6, <2>1, <2>2, After DEF Merging
<1>7. CASE Gather(p) /\ new.pc \in CheckPositions
  <2>1. me.pc = "gather" /\ me.mode = "merge" /\ me.verdict.valid /\ me.verdict.strict
        /\ me.verdict.plan = plan
    BY <1>1, <1>7 DEF Gather, Merging
  <2>2. \A q \in plan.ids : Terminal(records[Path(q, plan)])
    BY <2>1 DEF Truthful, Holds
  <2>3. /\ new.pc = "publish" /\ new.mode = "merge" /\ new.view = plan
        /\ new.verdict = me.verdict /\ new.at = 1
        /\ new.lines = [q \in plan.ids |-> records[Path(q, plan)]]
    BY <1>3, <1>7, After
  <2>4. DOMAIN new.lines = plan.ids /\ \A q \in plan.ids : Terminal(new.lines[q])
    BY <2>2, <2>3
  <2> QED BY <2>1, <2>3, <2>4 DEF Merging
<1>8. CASE Publish(p)
  <2>1. me \in Publishing /\ me.at \in 1..4 /\ me.pc = "publish"
    BY <1>1, <1>8, Positions DEF Publish, Publishing, Artifacts
  <2>2. merged' = [merged EXCEPT ![Artifacts[me.at]] = ArtifactContent(me, Artifacts[me.at])]
    BY <1>8 DEF Publish
  <2>3. /\ new.pc = "publish" /\ new.mode = "merge" /\ new.view = me.view
        /\ new.verdict = me.verdict /\ new.lines = me.lines /\ new.at = me.at + 1
    BY <1>8, After
  <2>4. \A f : ArtifactContent(new, f) = ArtifactContent(me, f)
    BY <2>3 DEF ArtifactContent
  <2>5. ASSUME NEW j \in 1..me.at PROVE merged'[Artifacts[j]] = ArtifactContent(me, Artifacts[j])
    <3>1. j \in 1..4 /\ Artifacts[j] \in MergedFiles /\ DOMAIN merged = MergedFiles
      BY <1>1, <2>1 DEF TypeOK, Artifacts, MergedFiles, ArtifactNames
    <3>2. CASE j = me.at
      BY <2>2, <3>1, <3>2
    <3>3. CASE j < me.at
      <4>1. merged[Artifacts[j]] = ArtifactContent(me, Artifacts[j])
        BY <1>1, <2>1, <3>3 DEF Merging
      <4>2. Artifacts[j] # Artifacts[me.at]
        BY <2>1, <3>1, <3>3 DEF Artifacts
      <4> QED BY <2>2, <3>1, <4>1, <4>2
    <3> QED BY <2>1, <3>2, <3>3
  <2>6. \A j \in 1..(new.at - 1) : merged'[Artifacts[j]] = ArtifactContent(new, Artifacts[j])
    <3>1. 1..(new.at - 1) = 1..me.at
      BY <2>1, <2>3
    <3> HIDE DEF new, me
    <3> QED BY <2>4, <2>5, <3>1
  <2>7. /\ me.verdict.valid /\ me.verdict.plan = me.view
        /\ DOMAIN me.lines = me.view.ids /\ \A q \in me.view.ids : Terminal(me.lines[q])
    BY <1>1, <2>1 DEF Merging
  <2>8. Merging(new, plan', merged')
    <3> HIDE DEF new, me
    <3> QED BY <2>3, <2>6, <2>7 DEF Merging
  <2> QED BY <2>8
<1>9. CASE Digest(p)
  <2>1. me \in Publishing /\ me.at = 5 /\ me.pc = "publish"
    BY <1>1, <1>9, Positions DEF Digest, Publishing, Artifacts
  <2>2. \A j \in 1..4 : merged[Artifacts[j]] = ArtifactContent(me, Artifacts[j])
    BY <1>1, <2>1 DEF Merging
  <2>3. /\ merged["P"] = me.lines /\ merged["G"] = me.lines /\ merged["unresolved"] = me.lines
        /\ merged["validation"] = me.verdict
    BY <2>2 DEF Artifacts, ArtifactContent
  <2>4. /\ new.pc = "manifest" /\ new.mode = "merge" /\ new.view = me.view
        /\ new.digests = [f \in ArtifactNames |-> merged[f]]
    BY <1>9, After
  <2>5. OneMerge(new.digests, me.view)
    BY <1>1, <2>1, <2>3, <2>4 DEF Merging, OneMerge, ArtifactNames
  <2> QED BY <2>4, <2>5 DEF Merging
<1>10. CASE WriteManifest(p)
  <2>1. me.pc = "manifest" /\ merged'["manifest"].plan = me.view
    BY <1>1, <1>10 DEF WriteManifest, TypeOK, MergedFiles
  <2> QED BY <1>1, <1>10, <2>1, After DEF Merging
<1> QED BY <1>2, <1>3, <1>4, <1>5, <1>6, <1>7, <1>8, <1>9, <1>10, After DEF Move, Start, Run

LEMMA SummedNext ==
  ASSUME TInv, MInv, NEW p \in Proc, Move(p)
  PROVE  Summed(merged')
<1> DEFINE me == proc[p]
<1>1. TypeOK /\ Merging(me, plan, merged) /\ Summed(merged)
  BY DEF TInv, MInv
<1>2. CASE WriteChecksums(p)
  <2> DEFINE sums == merged'["SHA256SUMS"]
  <2>1. me.pc = "checksums" /\ OneMerge(me.digests, me.view) /\ merged["manifest"].plan = me.view
    BY <1>1, <1>2 DEF WriteChecksums, Merging
  <2>2. sums = [f \in ArtifactNames \cup {"manifest"} |->
                  IF f = "manifest" THEN merged["manifest"] ELSE me.digests[f]]
    BY <1>1, <1>2 DEF WriteChecksums, TypeOK, MergedFiles
  <2>3. /\ DOMAIN sums = ArtifactNames \cup {"manifest"} /\ sums["manifest"] = merged["manifest"]
        /\ \A f \in ArtifactNames : sums[f] = me.digests[f]
    BY <2>2 DEF ArtifactNames
  <2> HIDE DEF sums
  <2>4. OneMerge(sums, sums["manifest"].plan)
    BY <2>1, <2>3 DEF OneMerge, ArtifactNames
  <2> QED BY <2>3, <2>4 DEF Summed, sums
<1>3. CASE Publish(p)
  <2>1. me.at \in 1..4
    BY <1>1, <1>3, Positions DEF Publish, Publishing, Artifacts
  <2>2. Artifacts[me.at] # "SHA256SUMS"
    BY <2>1 DEF Artifacts
  <2>3. merged'["SHA256SUMS"] = merged["SHA256SUMS"]
    BY <1>1, <1>3, <2>2 DEF Publish, TypeOK, MergedFiles
  <2> QED BY <1>1, <2>3 DEF Summed
<1>4. CASE WriteManifest(p)
  <2>1. merged'["SHA256SUMS"] = merged["SHA256SUMS"]
    BY <1>1, <1>4 DEF WriteManifest, TypeOK, MergedFiles
  <2> QED BY <1>1, <2>1 DEF Summed
<1> QED BY <1>1, <1>2, <1>3, <1>4, FileMoves

LEMMA MInvNext ==
  ASSUME TInv, Truthful, MInv, Orderly, NEW p \in Proc, Move(p)
  PROVE  MInv'
<1>1. Solo'
  BY SoloNext DEF MInv
<1>2. \A o \in Proc : Merging(proc'[o], plan', merged')
  BY MergingOthers, MergingMover
<1>3. (\A o \in Proc : Merging(proc[o], plan, merged))'
  BY <1>2 DEF Merging, OneMerge, ArtifactContent, Terminal
<1>4. Summed(merged)'
  BY SummedNext DEF Summed, OneMerge, Terminal
<1> QED BY <1>1, <1>3, <1>4 DEF MInv

LEMMA MergedApart ==
  ASSUME Orderly PROVE Spec => []MInv
<1>1. Init => MInv
  <2>1. Init => Solo
    BY DEF Init, Solo, Free
  <2>2. Init => \A p \in Proc : Merging(proc[p], plan, merged)
    BY DEF Init, Merging, Gone
  <2>3. Init => Summed(merged)
    BY DEF Init, Summed, MergedFiles
  <2> QED BY <2>1, <2>2, <2>3 DEF MInv
<1>2. MInv /\ UNCHANGED vars => MInv'
  BY DEF vars, MInv, Solo, Free, Merging, Summed, OneMerge, ArtifactContent, Terminal
<1>3. TInv /\ Truthful /\ MInv /\ [Next]_vars => MInv'
  BY <1>2, MInvNext DEF Next, Move
<1> QED BY <1>1, <1>3, Typing, Truth, PTL DEF Spec

\* merge_root killed between any two of its files and repeated under other plans: with
\* plans made alone and one check at a time, outputs that SHA256SUMS verifies come from
\* one merge of one validated plan.
THEOREM OneMergeVerifies ==
  ASSUME Orderly
  PROVE  Spec => []VerifiedIsOneMerge
<1>1. TInv /\ MInv => VerifiedIsOneMerge
  <2> SUFFICES ASSUME TInv, MInv, Verifies PROVE VerifiedIsOneMerge
    BY DEF VerifiedIsOneMerge
  <2> DEFINE sums == merged["SHA256SUMS"]
  <2>1. DOMAIN sums = ArtifactNames \cup {"manifest"} /\ OneMerge(sums, sums["manifest"].plan)
    BY DEF Verifies, MInv, Summed
  <2>2. \A f \in ArtifactNames \cup {"manifest"} : merged[f] = sums[f]
    BY <2>1 DEF Verifies
  <2> HIDE DEF sums
  <2> QED BY <2>1, <2>2 DEF OneMerge, VerifiedIsOneMerge, ArtifactNames
<1> QED BY <1>1, Typing, MergedApart, PTL

-----------------------------------------------------------------------------
(* All three disciplines: the verified outputs are the records.               *)

OnDisk(lines, pl, r) == lines = [q \in pl.ids |-> r[Path(q, pl)]]

Linked(me, r) ==
  /\ me.pc = "publish" => OnDisk(me.lines, me.view, r)
  /\ me.pc \in {"manifest", "checksums"} => OnDisk(me.digests["P"], me.view, r)

LinkedSums(sums, r) == sums # None => sums["manifest"].plan \in Plans /\ OnDisk(sums["P"], sums["manifest"].plan, r)

LInv == (\A p \in Proc : Linked(proc[p], records)) /\ LinkedSums(merged["SHA256SUMS"], records)

Strict == Orderly /\ "one_per_shard" \in Discipline

LEMMA OnDiskStays ==
  ASSUME TInv, Apart, Unwritten, Strict, NEW p \in Proc, Move(p),
         NEW pl \in Plans, NEW lines, OnDisk(lines, pl, records), \A q \in pl.ids : Terminal(lines[q])
  PROVE  OnDisk(lines, pl, records')
<1>1. ASSUME NEW q \in pl.ids PROVE records'[Path(q, pl)] = records[Path(q, pl)]
  <2>1. Path(q, pl) \in Paths
    BY ShardInRange
  <2>2. Terminal(records[Path(q, pl)])
    BY DEF OnDisk
  <2>3. records[Path(q, pl)] # None
    BY <2>2, ContentAssumption DEF Terminal
  <2> QED BY <2>1, <2>3, UnwrittenNext DEF Strict
<1> QED BY <1>1 DEF OnDisk

\* What the local state of any process, or the checksums, stand for stays on disk.
LEMMA LinkedStays ==
  ASSUME TInv, Apart, Unwritten, MInv, LInv, Strict, NEW p \in Proc, Move(p)
  PROVE  /\ \A o \in Proc : Linked(proc[o], records')
         /\ LinkedSums(merged["SHA256SUMS"], records')
<1>1. TypeOK
  BY DEF TInv
<1>2. ASSUME NEW o \in Proc PROVE Linked(proc[o], records')
  <2>1. Merging(proc[o], plan, merged) /\ Linked(proc[o], records)
    BY DEF MInv, LInv
  <2>2. CASE proc[o].pc = "publish"
    <3>1. proc[o].view \in Plans
      BY <1>1, <2>2, Positions DEF Publishing
    <3> QED BY <2>1, <2>2, <3>1, OnDiskStays DEF Merging, Linked
  <2>3. CASE proc[o].pc \in {"manifest", "checksums"}
    <3>1. proc[o].view \in Plans
      BY <1>1, <2>3, Positions DEF Sealing
    <3>2. OnDisk(proc[o].digests["P"], proc[o].view, records)
          /\ \A q \in proc[o].view.ids : Terminal(proc[o].digests["P"][q])
      BY <2>1, <2>3 DEF Merging, OneMerge, Linked
    <3>3. OnDisk(proc[o].digests["P"], proc[o].view, records')
      BY <3>1, <3>2, OnDiskStays
    <3> QED BY <2>3, <3>3 DEF Linked
  <2>4. CASE proc[o].pc \notin {"publish", "manifest", "checksums"}
    BY <2>4 DEF Linked
  <2> QED BY <2>2, <2>3, <2>4
<1>3. LinkedSums(merged["SHA256SUMS"], records')
  BY OnDiskStays DEF MInv, LInv, Summed, OneMerge, LinkedSums
<1> QED BY <1>2, <1>3

LEMMA LInvNext ==
  ASSUME TInv, Apart, Unwritten, MInv, LInv, Strict, NEW p \in Proc, Move(p)
  PROVE  LInv'
<1> DEFINE me == proc[p]
           new == proc'[p]
<1>1. /\ TypeOK /\ TypeOK' /\ Linked(me, records')
      /\ LinkedSums(merged["SHA256SUMS"], records')
      /\ Merging(me, plan, merged)
  BY TypeNext, LinkedStays DEF TInv, MInv, Next, Move
<1>2. ASSUME NEW o \in Proc, o # p PROVE Linked(proc'[o], records')
  BY <1>2, OneMoves, LinkedStays
<1>3. Linked(new, records')
  <2>1. CASE Gather(p)
    <3>1. records' = records
      BY <2>1 DEF Gather, shardFiles
    <3>2. CASE new = Gone
      BY <3>2 DEF Linked, Gone
    <3>3. CASE new # Gone
      <4>1. new.pc = "publish" /\ new.view = plan /\ new.lines = [q \in plan.ids |-> records[Path(q, plan)]]
        BY <2>1, <3>3, After
      <4>2. OnDisk(new.lines, new.view, records')
        BY <3>1, <4>1 DEF OnDisk
      <4> QED BY <4>1, <4>2 DEF Linked
    <3> QED BY <3>2, <3>3
  <2>2. CASE Publish(p)
    <3>1. me.pc = "publish" /\ new.pc = "publish" /\ new.view = me.view /\ new.lines = me.lines
      BY <2>2, After DEF Publish
    <3> QED BY <1>1, <3>1 DEF Linked
  <2>3. CASE Digest(p)
    <3>1. me.pc = "publish" /\ me.at = 5
      BY <1>1, <2>3, Positions DEF Digest, Publishing, Artifacts
    <3>2. merged[Artifacts[1]] = ArtifactContent(me, Artifacts[1])
      BY <1>1, <3>1 DEF Merging
    <3>3. merged["P"] = me.lines
      BY <3>2 DEF Artifacts, ArtifactContent
    <3>4. new.pc = "manifest" /\ new.view = me.view /\ new.digests["P"] = merged["P"]
      <4>1. new.pc = "manifest" /\ new.view = me.view /\ new.digests = [f \in ArtifactNames |-> merged[f]]
        BY <2>3, After
      <4>2. "P" \in ArtifactNames
        BY DEF ArtifactNames
      <4> QED BY <4>1, <4>2
    <3> QED BY <1>1, <3>1, <3>3, <3>4 DEF Linked
  <2>4. CASE WriteManifest(p)
    <3>1. me.pc = "manifest" /\ new.pc = "checksums" /\ new.view = me.view /\ new.digests = me.digests
      BY <2>4, After DEF WriteManifest
    <3> QED BY <1>1, <3>1 DEF Linked
  <2>5. CASE ~(Gather(p) \/ Publish(p) \/ Digest(p) \/ WriteManifest(p))
    <3>1. new.pc \notin {"publish", "manifest", "checksums"}
      <4>1. new = Gone \/ new.mode \in PlanMode \cup ShardMode \/ new.pc \in {"inspect", "report", "gather"}
        BY <2>5, After DEF Move, Start, Run
      <4> QED BY <1>1, <4>1 DEF TypeOK, Processes, Planning, Filing, Working, Inspecting, Reporting, Publishing,
                 Sealing, Gone, PlanMode, ShardMode
    <3> QED BY <3>1 DEF Linked
  <2> QED BY <2>1, <2>2, <2>3, <2>4, <2>5
<1>4. LinkedSums(merged'["SHA256SUMS"], records')
  <2>1. CASE WriteChecksums(p)
    <3>1. me.pc = "checksums" /\ me.view \in Plans /\ merged["manifest"].plan = me.view
      BY <1>1, <2>1, Positions DEF WriteChecksums, Sealing, Merging
    <3>2. merged'["SHA256SUMS"] = [f \in ArtifactNames \cup {"manifest"} |->
             IF f = "manifest" THEN merged["manifest"] ELSE me.digests[f]]
      BY <1>1, <2>1 DEF WriteChecksums, TypeOK, MergedFiles
    <3>3. merged'["SHA256SUMS"]["manifest"] = merged["manifest"]
          /\ merged'["SHA256SUMS"]["P"] = me.digests["P"]
      BY <3>2 DEF ArtifactNames
    <3> QED BY <1>1, <3>1, <3>3 DEF Linked, LinkedSums
  <2>2. CASE ~WriteChecksums(p)
    <3>1. merged'["SHA256SUMS"] = merged["SHA256SUMS"]
      <4>1. CASE Publish(p)
        <5>1. me.at \in 1..4
          BY <1>1, <4>1, Positions DEF Publish, Publishing, Artifacts
        <5>2. Artifacts[me.at] # "SHA256SUMS"
          BY <5>1 DEF Artifacts
        <5> QED BY <1>1, <4>1, <5>2 DEF Publish, TypeOK, MergedFiles
      <4>2. CASE WriteManifest(p)
        BY <1>1, <4>2 DEF WriteManifest, TypeOK, MergedFiles
      <4> QED BY <2>2, <4>1, <4>2, FileMoves
    <3> QED BY <1>1, <3>1
  <2> QED BY <2>1, <2>2
<1> QED BY <1>2, <1>3, <1>4 DEF LInv, Linked, LinkedSums, OnDisk, Path, ShardOf, Plans

\* ... and they are the records still on disk for that plan, as long as every shard is run
\* by one process at a time too.
THEOREM VerifiedRecords ==
  ASSUME Strict
  PROVE  Spec => []VerifiedIsRecords
<1>1. Init => LInv
  <2>1. Init => \A p \in Proc : Linked(proc[p], records)
    BY DEF Init, Linked, Gone
  <2>2. Init => LinkedSums(merged["SHA256SUMS"], records)
    BY DEF Init, LinkedSums, MergedFiles
  <2> QED BY <2>1, <2>2 DEF LInv
<1>2. LInv /\ UNCHANGED vars => LInv'
  BY DEF vars, LInv, Linked, LinkedSums, OnDisk, Path, ShardOf
<1>3. TInv /\ Apart /\ Unwritten /\ MInv /\ LInv /\ [Next]_vars => LInv'
  BY <1>2, LInvNext DEF Next, Move
<1>4. TInv /\ MInv /\ LInv => VerifiedIsRecords
  <2> SUFFICES ASSUME TInv, MInv, LInv, Verifies PROVE VerifiedIsRecords
    BY DEF VerifiedIsRecords
  <2> DEFINE sums == merged["SHA256SUMS"]
  <2>1. DOMAIN sums = ArtifactNames \cup {"manifest"} /\ OneMerge(sums, sums["manifest"].plan)
        /\ OnDisk(sums["P"], sums["manifest"].plan, records)
    BY DEF Verifies, MInv, Summed, LInv, LinkedSums
  <2>2. \A f \in ArtifactNames \cup {"manifest"} : merged[f] = sums[f]
    BY <2>1 DEF Verifies
  <2>3. merged["P"] = sums["P"] /\ merged["G"] = sums["G"] /\ merged["manifest"] = sums["manifest"]
    BY <2>2 DEF ArtifactNames
  <2>4. sums["P"] = sums["G"]
    BY <2>1 DEF OneMerge
  <2> HIDE DEF sums
  <2> QED BY <2>1, <2>3, <2>4 DEF VerifiedIsRecords, OnDisk
<1>5. Orderly /\ "one_per_shard" \in Discipline
  BY DEF Strict
<1> QED BY <1>1, <1>3, <1>4, <1>5, Typing, MergedApart, WrittenOnce, PTL DEF Spec

-----------------------------------------------------------------------------
(* One plan, and nothing left by another: run, resume and validate agree.     *)

OnePlan ==
  /\ \A r, t \in PlanRequests : r = t
  /\ \A left \in Leftovers, r \in PlanRequests : \A x \in left : x[2] \in r.ids /\ x = Path(x[2], r)

Placed == \A x \in Found, r \in Plans : x[2] \in r.ids /\ x = Path(x[2], r)

\* Where run_shard puts a record is where validate_root looks for it, whatever is killed,
\* resumed or overlaps: a complete root validates.
THEOREM Mergeable ==
  ASSUME OnePlan
  PROVE  Spec => []CompleteIsMergeable
<1>1. Init => Placed
  BY ContentAssumption DEF Init, Placed, Found, Plans, OnePlan
<1>2. ASSUME TInv, Placed, NEW p \in Proc, Move(p) PROVE Placed'
  <2>1. CASE records' = records
    BY <1>2, <2>1 DEF Placed, Found, Plans, Path, ShardOf
  <2>2. CASE records' # records
    <3> DEFINE me == proc[p]
               x == RecordPath(me, me.at)
    <3>1. Commit(p) /\ x \in Paths /\ me.draft \in Contents
          /\ records' = [records EXCEPT ![x] = me.draft]
      BY <1>2, <2>2, OneCommits
    <3>2. me.pc = "commit" /\ me \in Working /\ Dataset[me.at] \in ShardIds(me.view, me.shard)
      BY <1>2, <3>1, Positions DEF Commit, TInv, AtQuery, Local
    <3>3. \A r \in Plans : x[2] \in r.ids /\ x = Path(x[2], r)
      BY <3>2 DEF Working, OnePlan, Plans, RecordPath, ShardIds, Path
    <3>4. \A y \in Paths : y # x => records'[y] = records[y]
      BY <1>2, <3>1 DEF TInv, TypeOK
    <3> QED BY <1>2, <3>3, <3>4 DEF Placed, Found, Plans, Path, ShardOf
  <2> QED BY <2>1, <2>2
<1>3. Placed /\ UNCHANGED vars => Placed'
  BY DEF vars, Placed, Found, Path, ShardOf
<1>4. TInv /\ Placed /\ [Next]_vars => Placed'
  BY <1>2, <1>3 DEF Next, Move
<1>5. TInv /\ Placed => CompleteIsMergeable
  BY DEF TInv, TypeOK, Placed, CompleteIsMergeable, NoErrors
<1> QED BY <1>1, <1>4, <1>5, Typing, PTL DEF Spec
================================================================================
