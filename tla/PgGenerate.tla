------------------------------- MODULE PgGenerate -------------------------------
(***************************************************************************)
(* pg_generate.py: operating-system processes share one output directory.  *)
(* A process plans the shards, runs or resumes one of them, validates the  *)
(* records or merges them; it can be killed, or an I/O or model call can   *)
(* raise, between any two of the steps below, and another be started.      *)
(*                                                                         *)
(* Every write is one atomic_write (module AtomicWrite): a file goes from  *)
(* one complete content to the next, and its temporaries match no pattern  *)
(* the program reads.  A record is named by its content, a digest is the   *)
(* content digested.  stop_after is positive.                              *)
(***************************************************************************)
EXTENDS Integers, Sequences, FiniteSets

CONSTANTS Proc,         \* processes
          Dataset,      \* query IDs in checkpoint order
          Hash,         \* Hash[q]: sha256 prefix of q
          PlanRequests, \* plans an operator may ask for: [num, ids]
          MaxShards,    \* bound: shards of any plan
          Stops,        \* values of --stop-after, 0 for none
          Contents,     \* records process_query can produce for a query
          Stale,        \* a record _validate_terminal refuses (another contract)
          Leftovers,    \* records there may be before the first process
          Discipline,   \* how the operator schedules processes, see Disciplines
          None          \* no such file

Queries == {Dataset[i] : i \in DOMAIN Dataset}
Shards == 0..(MaxShards - 1)
Paths == Shards \X Queries

Disciplines ==
  {"one_per_shard", \* a shard is run or resumed by one process at a time
   "plan_alone",    \* nothing else runs while a plan is made
   "one_merge"}     \* one validation or merge at a time

ASSUME DatasetAssumption ==
  /\ Dataset \in Seq(Queries) /\ Hash \in [Queries -> Nat]
  /\ \A i, j \in DOMAIN Dataset : Dataset[i] = Dataset[j] => i = j
ASSUME PlanAssumption ==
  /\ MaxShards \in Nat
  /\ PlanRequests \subseteq [num : 0..MaxShards, ids : SUBSET Queries] /\ None \notin PlanRequests
ASSUME ContentAssumption ==
  /\ Stale \notin Contents /\ None \notin Contents \cup {Stale}
  /\ \A left \in Leftovers : left \subseteq Paths
ASSUME DisciplineAssumption == Discipline \subseteq Disciplines

VARIABLES
  plan,      \* plan/query-shards.json
  shardFile, \* plan/shard-NNNN.json
  records,   \* shards/shard-NNNN/queries/<sha256(query)>.json
  status,    \* shards/shard-NNNN/status.json: its totals
  report,    \* manifests/mechanical-validation-report.json
  merged,    \* the files of merged/
  proc       \* the processes: where each is, and its locals

vars == <<plan, shardFile, records, status, report, merged, proc>>

planFiles == <<plan, shardFile>>
shardFiles == <<records, status>>
outputs == <<report, merged>>

ShardOf(q, num) == Hash[q] % num
Path(q, pl) == <<ShardOf(q, pl.num), q>>

\* _validate_terminal finds no error
Terminal(record) == record \in Contents

Artifacts == <<"P", "G", "unresolved", "validation">>
ArtifactNames == {"P", "G", "unresolved", "validation"}
MergedFiles == ArtifactNames \cup {"manifest", "SHA256SUMS"}

Gone == [pc |-> "gone"]
Free(p) == proc[p] = Gone

Become(p, r) == proc' = [proc EXCEPT ![p] = r]
Return(p) == Become(p, Gone)
Raise(p) == Become(p, Gone)

Others(p, mode) == {o \in Proc \ {p} : ~Free(o) /\ proc[o].mode \in mode}

PlanMode == {"plan"}
ShardMode == {"run", "resume"}
CheckMode == {"validate", "merge"}

Init ==
  /\ plan = None
  /\ shardFile = [s \in Shards |-> None]
  /\ records \in {[x \in Paths |-> IF x \in left THEN Stale ELSE None]
                    : left \in Leftovers}
  /\ status = [s \in Shards |-> None]
  /\ report = None
  /\ merged = [f \in MergedFiles |-> None]
  /\ proc = [p \in Proc |-> Gone]

--------------------------------------------------------------------------------
(* plan *)

StartPlan(p) ==
  /\ Free(p)
  /\ "plan_alone" \in Discipline => \A o \in Proc \ {p} : Free(o)
  /\ \E r \in PlanRequests :
       IF r.ids # {} /\ r.num = 0
         THEN Raise(p)      \* shard_for_query
         ELSE Become(p, [pc |-> "plan", mode |-> "plan", view |-> r])
  /\ UNCHANGED <<planFiles, shardFiles, outputs>>

\* Mutant: every shard holds the whole plan
MutShardIdsAll(pl, s) == pl.ids

ShardIds(pl, s) == {q \in pl.ids : ShardOf(q, pl.num) = s}

WritePlan(p) ==
  /\ proc[p].pc = "plan"
  /\ plan' = proc[p].view
  /\ IF proc[p].view.num = 0
       THEN Return(p)
       ELSE Become(p, [pc |-> "shard_files", mode |-> "plan",
                       view |-> proc[p].view, at |-> 0])
  /\ UNCHANGED <<shardFile, shardFiles, outputs>>

\* Mutant: one shard file too many
MutWriteShardFileOffByOne(p) ==
  LET me == proc[p]
  IN  /\ me.pc = "shard_files"
      /\ shardFile' = [shardFile EXCEPT ![me.at] = ShardIds(me.view, me.at)]
      /\ IF me.at = me.view.num
           THEN Return(p)
           ELSE Become(p, [me EXCEPT !.at = @ + 1])
      /\ UNCHANGED <<plan, shardFiles, outputs>>

WriteShardFile(p) ==
  LET me == proc[p]
  IN  /\ me.pc = "shard_files"
      /\ shardFile' = [shardFile EXCEPT ![me.at] = ShardIds(me.view, me.at)]
      /\ IF me.at + 1 = me.view.num
           THEN Return(p)
           ELSE Become(p, [me EXCEPT !.at = @ + 1])
      /\ UNCHANGED <<plan, shardFiles, outputs>>

--------------------------------------------------------------------------------
(* run and resume *)

StartShard(p) ==
  /\ Free(p)
  /\ "plan_alone" \in Discipline => Others(p, PlanMode) = {}
  /\ \E mode \in ShardMode, s \in 0..MaxShards, stop \in Stops :
       /\ "one_per_shard" \in Discipline =>
            \A o \in Others(p, ShardMode) : proc[o].shard # s
       /\ IF plan = None \/ (plan # None /\ s >= plan.num)
            THEN Raise(p)   \* load_plan, or "shard out of range"
            ELSE Become(p, [pc |-> "scan", mode |-> mode, view |-> plan,
                            shard |-> s, stop |-> stop, at |-> 1,
                            completed |-> 0, draft |-> None])
  /\ UNCHANGED <<planFiles, shardFiles, outputs>>

\* Where the loop over the dataset has queries of the shard still to come, and the first
\* of them; what is expected of another shard is passed over.
Ahead(me) == {i \in me.at..Len(Dataset) : Dataset[i] \in ShardIds(me.view, me.shard)}
IsFirst(me, i) == i \in Ahead(me) /\ \A j \in Ahead(me) : i <= j

RecordPath(me, i) == <<me.shard, Dataset[i]>>

\* Mutant: resume takes an existing record on trust
MutScanUnchecked(p) ==
  \E i \in DOMAIN Dataset :
  LET me == proc[p]
      record == records[RecordPath(me, i)]
  IN  /\ me.pc = "scan" /\ IsFirst(me, i)
      /\ IF record = None THEN Become(p, [me EXCEPT !.pc = "generate", !.at = i])
         ELSE IF me.mode = "run" THEN Raise(p)
         ELSE Become(p, [me EXCEPT !.at = i + 1])
      /\ UNCHANGED <<planFiles, shardFiles, outputs>>

\* Mutant: run regenerates what exists
MutScanRegenerates(p) ==
  \E i \in DOMAIN Dataset :
  LET me == proc[p]
      record == records[RecordPath(me, i)]
  IN  /\ me.pc = "scan" /\ IsFirst(me, i)
      /\ IF record = None \/ me.mode = "run" THEN Become(p, [me EXCEPT !.pc = "generate", !.at = i])
         ELSE IF ~Terminal(record) THEN Raise(p)
         ELSE Become(p, [me EXCEPT !.at = i + 1])
      /\ UNCHANGED <<planFiles, shardFiles, outputs>>

\* A record that is there is an error of run; resume checks it and skips the query.
Scan(p) ==
  \E i \in DOMAIN Dataset :
  LET me == proc[p]
      record == records[RecordPath(me, i)]
  IN  /\ me.pc = "scan" /\ IsFirst(me, i)
      /\ IF record = None THEN Become(p, [me EXCEPT !.pc = "generate", !.at = i])
         ELSE IF me.mode = "run" \/ ~Terminal(record) THEN Raise(p)
         ELSE Become(p, [me EXCEPT !.at = i + 1])
      /\ UNCHANGED <<planFiles, shardFiles, outputs>>

\* process_query: minutes of model calls; what it returns passes
\* _validate_terminal, or the process raises (Abort)
Generate(p) ==
  /\ proc[p].pc = "generate"
  /\ \E c \in Contents :
       Become(p, [proc[p] EXCEPT !.pc = "commit", !.draft = c])
  /\ UNCHANGED <<planFiles, shardFiles, outputs>>

Commit(p) ==
  LET me == proc[p]
      stopped == me.stop > 0 /\ me.completed + 1 >= me.stop
  IN  /\ me.pc = "commit"
      /\ records' = [records EXCEPT ![RecordPath(me, me.at)] = me.draft]
      /\ Become(p, [me EXCEPT !.pc = IF stopped THEN "status" ELSE "scan", !.draft = None,
                              !.at = @ + 1, !.completed = @ + 1])
      /\ UNCHANGED <<planFiles, status, outputs>>

WriteStatus(p) ==
  LET me == proc[p]
      expected == ShardIds(me.view, me.shard)
  IN  /\ \/ me.pc = "status"
         \/ me.pc = "scan" /\ Ahead(me) = {}
      /\ status' = [status EXCEPT ![me.shard] =
           [expected |-> Cardinality(expected),
            total |-> Cardinality({q \in expected : records[<<me.shard, q>>] # None})]]
      /\ Return(p)
      /\ UNCHANGED <<planFiles, records, outputs>>

--------------------------------------------------------------------------------
(* validate and merge *)

Found == {x \in Paths : records[x] # None}

\* Mutant: a record counts wherever it lies
MutNoErrorsAnyShard(pl, strict) ==
  /\ \A x \in Found : x[2] \in pl.ids /\ Terminal(records[x])
  /\ \A x, y \in Found : x[2] = y[2] => x = y
  /\ strict => \A q \in pl.ids : \E x \in Found : x[2] = q

\* No extra_query, duplicate_query, wrong_shard, terminal error, missing_queries
NoErrors(pl, strict) ==
  /\ \A x \in Found : x[2] \in pl.ids /\ x = Path(x[2], pl) /\ Terminal(records[x])
  /\ strict => \A q \in pl.ids : Path(q, pl) \in Found

StartCheck(p) ==
  /\ Free(p)
  /\ "plan_alone" \in Discipline => Others(p, PlanMode) = {}
  /\ "one_merge" \in Discipline => Others(p, CheckMode) = {}
  /\ \E mode \in CheckMode, strict \in BOOLEAN :
       /\ mode = "merge" => strict
       /\ IF plan = None
            THEN Raise(p)
            ELSE Become(p, [pc |-> "inspect", mode |-> mode, view |-> plan,
                            strict |-> strict])
  /\ UNCHANGED <<planFiles, shardFiles, outputs>>

\* Reports do not name the plan they were made for: verdict.plan and
\* verdict.strict are there for the properties.
Inspect(p) ==
  LET me == proc[p]
  IN  /\ me.pc = "inspect"
      /\ Become(p, [pc |-> "report", mode |-> me.mode,
                    verdict |-> [plan |-> me.view, strict |-> me.strict,
                                 valid |-> NoErrors(me.view, me.strict)]])
      /\ UNCHANGED <<planFiles, shardFiles, outputs>>

\* Mutant: merge goes on whatever the validation found
MutWriteReportUnread(p) ==
  LET me == proc[p]
  IN  /\ me.pc = "report"
      /\ report' = me.verdict
      /\ IF me.mode = "validate" THEN Return(p)
         ELSE Become(p, [me EXCEPT !.pc = "gather"])
      /\ UNCHANGED <<planFiles, shardFiles, merged>>

WriteReport(p) ==
  LET me == proc[p]
  IN  /\ me.pc = "report"
      /\ report' = me.verdict
      /\ IF me.mode = "validate" THEN Return(p)
         ELSE IF ~me.verdict.valid THEN Raise(p)   \* "merge refused"
         ELSE Become(p, [me EXCEPT !.pc = "gather"])
      /\ UNCHANGED <<planFiles, shardFiles, merged>>

\* load_plan once more, and every record it names
Gather(p) ==
  LET me == proc[p]
  IN  /\ me.pc = "gather"
      /\ IF \E q \in plan.ids : records[Path(q, plan)] = None
           THEN Raise(p)
           ELSE Become(p, [pc |-> "publish", mode |-> "merge", view |-> plan,
                           verdict |-> me.verdict, at |-> 1,
                           lines |-> [q \in plan.ids |-> records[Path(q, plan)]]])
      /\ UNCHANGED <<planFiles, shardFiles, outputs>>

\* P and G of a record, and the count of what is unresolved, follow the record
ArtifactContent(me, f) == IF f = "validation" THEN me.verdict ELSE me.lines

Publish(p) ==
  LET me == proc[p]
  IN  /\ me.pc = "publish" /\ me.at <= Len(Artifacts)
      /\ merged' = [merged EXCEPT ![Artifacts[me.at]] = ArtifactContent(me, Artifacts[me.at])]
      /\ Become(p, [me EXCEPT !.at = @ + 1])
      /\ UNCHANGED <<planFiles, shardFiles, report>>

Digest(p) ==
  LET me == proc[p]
  IN  /\ me.pc = "publish" /\ me.at > Len(Artifacts)
      /\ Become(p, [pc |-> "manifest", mode |-> "merge", view |-> me.view,
                    digests |-> [f \in ArtifactNames |-> merged[f]]])
      /\ UNCHANGED <<planFiles, shardFiles, outputs>>

WriteManifest(p) ==
  LET me == proc[p]
  IN  /\ me.pc = "manifest"
      /\ merged' = [merged EXCEPT !["manifest"] = [plan |-> me.view, digests |-> me.digests]]
      /\ Become(p, [me EXCEPT !.pc = "checksums"])
      /\ UNCHANGED <<planFiles, shardFiles, report>>

WriteChecksums(p) ==
  LET me == proc[p]
  IN  /\ me.pc = "checksums"
      /\ merged' = [merged EXCEPT !["SHA256SUMS"] =
           [f \in ArtifactNames \cup {"manifest"} |->
              IF f = "manifest" THEN merged["manifest"] ELSE me.digests[f]]]
      /\ Return(p)
      /\ UNCHANGED <<planFiles, shardFiles, report>>

--------------------------------------------------------------------------------

\* The process is killed, or an I/O, model or selector call raises
Abort(p) ==
  /\ ~Free(p)
  /\ Raise(p)
  /\ UNCHANGED <<planFiles, shardFiles, outputs>>

Start(p) == StartPlan(p) \/ StartShard(p) \/ StartCheck(p)

Run(p) ==
  \/ WritePlan(p) \/ WriteShardFile(p)
  \/ Scan(p) \/ Generate(p) \/ Commit(p) \/ WriteStatus(p)
  \/ Inspect(p) \/ WriteReport(p) \/ Gather(p)
  \/ Publish(p) \/ Digest(p) \/ WriteManifest(p) \/ WriteChecksums(p)

Next == \E p \in Proc : Start(p) \/ Run(p) \/ Abort(p)

Spec == Init /\ [][Next]_vars

--------------------------------------------------------------------------------
(* Properties *)

\* Plans that reach a file: shard_for_query refuses the rest.
Plans == {r \in PlanRequests : r.ids # {} => r.num > 0}

Verdicts == [plan : Plans, strict : BOOLEAN, valid : BOOLEAN]

Lines == UNION {[r.ids -> Contents \cup {Stale}] : r \in Plans}
Published == Lines \cup Verdicts \cup {None}

Planning   == [pc : {"plan"}, mode : PlanMode, view : Plans]
Filing     == [pc : {"shard_files"}, mode : PlanMode, view : Plans, at : Shards]
Working    == [pc : {"scan", "generate", "commit", "status"}, mode : ShardMode, view : Plans,
               shard : Shards, stop : Stops, at : 1..(Len(Dataset) + 1), completed : Nat,
               draft : Contents \cup {None}]
Inspecting == [pc : {"inspect"}, mode : CheckMode, view : Plans, strict : BOOLEAN]
Reporting  == [pc : {"report", "gather"}, mode : CheckMode, verdict : Verdicts]
Publishing == [pc : {"publish"}, mode : {"merge"}, view : Plans, verdict : Verdicts,
               at : 1..(Len(Artifacts) + 1), lines : Lines]
Sealing    == [pc : {"manifest", "checksums"}, mode : {"merge"}, view : Plans,
               digests : [ArtifactNames -> Published]]

Processes == {Gone} \cup Planning \cup Filing \cup Working \cup Inspecting \cup Reporting
               \cup Publishing \cup Sealing

TypeOK ==
  /\ plan \in Plans \cup {None}
  /\ shardFile \in [Shards -> (SUBSET Queries) \cup {None}]
  /\ records \in [Paths -> Contents \cup {Stale, None}]
  /\ report \in Verdicts \cup {None}
  /\ DOMAIN merged = MergedFiles /\ \A f \in ArtifactNames : merged[f] \in Published
  /\ proc \in [Proc -> Processes]
  /\ \A p \in Proc : proc[p].pc = "shard_files" => proc[p].at < proc[p].view.num

\* A committed terminal record is never written again, whatever is killed,
\* resumed or planned anew (run_shard's exists checks; "terminal query already
\* exists").
RecordsImmutable ==
  [][\A x \in Paths : records[x] # None => records'[x] = records[x]]_vars

\* What an invocation has gone past is on disk and terminal, so one that is not
\* stopped early leaves its shard complete ("Existing terminal records are
\* checked before resume").
ScannedIsTerminal ==
  \A p \in Proc :
    ~Free(p) /\ proc[p].mode \in ShardMode =>
      \A i \in 1..(proc[p].at - 1) :
        Dataset[i] \in ShardIds(proc[p].view, proc[p].shard)
          => Terminal(records[RecordPath(proc[p], i)])

\* A strict report that says valid stays true of the plan it was made for (which the
\* model remembers and the file does not name), whatever runs afterwards.
ReportStays ==
  report # None /\ report.valid /\ report.strict =>
    \A q \in report.plan.ids : Terminal(records[Path(q, report.plan)])

\* sha256sum -c SHA256SUMS succeeds
Verifies ==
  /\ merged["SHA256SUMS"] # None
  /\ \A f \in DOMAIN merged["SHA256SUMS"] : merged[f] = merged["SHA256SUMS"][f]

\* Outputs whose checksums verify come from one merge of one validated plan.
VerifiedIsOneMerge ==
  Verifies =>
    /\ merged["P"] = merged["G"] /\ merged["P"] = merged["unresolved"]
    /\ merged["validation"].valid
    /\ merged["validation"].plan = merged["manifest"].plan
    /\ DOMAIN merged["P"] = merged["manifest"].plan.ids
    /\ \A q \in DOMAIN merged["P"] : Terminal(merged["P"][q])

\* ... and are the records still on disk for that plan.
VerifiedIsRecords ==
  Verifies =>
    LET pl == merged["manifest"].plan
    IN  /\ merged["P"] = [q \in pl.ids |-> records[Path(q, pl)]]
        /\ merged["G"] = merged["P"]

\* Under one plan, what run and resume write is what validate accepts: once
\* every planned query has a record, strict validation finds no error but a
\* record left by an earlier contract.
CompleteIsMergeable ==
  /\ plan # None
  /\ \A q \in plan.ids : Path(q, plan) \in Found
  /\ \A x \in Found : Terminal(records[x])
  => NoErrors(plan, TRUE)
================================================================================
