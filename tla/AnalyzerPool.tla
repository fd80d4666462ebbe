---------------------------- MODULE AnalyzerPool ----------------------------
(***************************************************************************)
(* The analyzers of one file (pipeline.py: _run_analyzers, _build_report;  *)
(* investigation.py: begin_run, ingest_result).                            *)
(*                                                                         *)
(* Every registered analyzer gets a run, in registry order.  The eligible  *)
(* ones are jobs: done here one by one, or by the threads of a             *)
(* ThreadPoolExecutor, each job being one worker run (WorkerRun), whose    *)
(* answer is a choice.  When all have answered the answers are ingested in *)
(* registry order, findings first and then what the details give, and the  *)
(* report is built with the isolation inventory.  The user may interrupt   *)
(* the main thread at any time, and details of another shape than the      *)
(* analyzers give them raise in the middle of their ingestion.             *)
(*                                                                         *)
(* Run ids, evidence ids and registry positions are numbers: the id of the *)
(* run of analyzer a is a, the id of evidence is its place in evidence.    *)
(***************************************************************************)
EXTENDS IsolationInventory, Sequences, Functions

CONSTANTS
  N,              \* number of registered analyzers
  Plans,          \* what may become of them: functions from Analyzers
  WorkerLimits,   \* values of limits.max_analyzer_workers
  WorkerAnswers,  \* what IsolatedAnalyzerRunner.run may return
  LocalAnswers,   \* what an analyzer run in this process may come to
  Links,          \* what identifies a relationship of this file: type, ends, extra
  BrokerRecords   \* what the brokers of this report may have recorded

Analyzers == 1 .. N

PlanType == [Analyzers -> {"eligible", "redundant", "unsupported"}]

\* details["isolation"] of a run that used no worker.
NotIsolated == [mode |-> "other"]

\* What an item of the details becomes: a relationship, which may have evidence,
\* or evidence of an observation.
NoLink == "no link"
ItemType == {item \in [link : Links \cup {NoLink}, evidence : BOOLEAN] :
               item.link = NoLink => item.evidence}

\* What is ingested: status, isolation details, the evidence of findings, and the items
\* of the details; if these are not well shaped, those before the place where
\* _emit_from_details raises (validate.py asks only for a dictionary).
ResultOf(isolations) ==
  [status : AnalyzerStatus, isolation : isolations, evidence : Nat, items : Seq(ItemType),
   shaped : BOOLEAN]

ResultType == ResultOf(IsolationType \cup {NotIsolated})

RunType ==
  [status : AnalyzerStatus, isolation : IsolationType \cup {NotIsolated},
   evidence : SUBSET Nat]

ASSUME CountAssumption == N \in Nat \ {0}
ASSUME PlanAssumption == Plans \subseteq PlanType
ASSUME LimitAssumption == WorkerLimits \subseteq Int
ASSUME AnswerAssumption ==
  /\ WorkerAnswers \subseteq ResultOf(IsolationType)
  /\ LocalAnswers \subseteq ResultOf({NotIsolated})
ASSUME LinkAssumption == NoLink \notin Links
ASSUME BrokerAssumption == \A records \in BrokerRecords : records \in Seq(RecordType)

NoResult == [status |-> "none", isolation |-> NotIsolated, evidence |-> 0, items |-> << >>,
             shaped |-> TRUE]
NoReport == [workers |-> << >>, summary |-> [mechanism |-> "not built"]]

VARIABLES
  plan, isolate, limit,  \* eligibility; isolate_analyzers, max_analyzer_workers
  brokers,               \* stats["broker_workers"]
  pc,                    \* where the main thread is
  job,                   \* what has become of each job
  answer,                \* its future
  results,               \* results, by run id
  runs,                  \* Investigation.runs
  evidence,              \* Investigation.evidence: the run each belongs to
  relationships,         \* by link: the run that found it, and its evidence
  sections,              \* what _run_analyzers has ingested, and returns unless it raises
  interrupted,           \* KeyboardInterrupt was raised
  report                 \* limits["isolation"] of the report

setting == <<plan, isolate, limit, brokers>>
pool == <<job, answer>>
graph == <<runs, evidence, relationships, sections>>
vars == <<setting, pc, pool, results, graph, interrupted, report>>

-----------------------------------------------------------------------------

Jobs == {a \in Analyzers : plan[a] = "eligible"}
In(state) == {a \in Jobs : job[a] = state}
IsFirst(a, set) == a \in set /\ \A b \in set : a <= b

Least(x, y) == IF x <= y THEN x ELSE y
Most(x, y) == IF x >= y THEN x ELSE y

\* The floor forgotten: no worker for a limit of zero.
MutantWorkers == Least(limit, Most(1, Cardinality(Jobs)))
\* The limit forgotten: a thread per job.
MutantUnlimited == Most(1, Cardinality(Jobs))

Workers == Most(1, Least(limit, Most(1, Cardinality(Jobs))))

\* The plan's word taken for a status.
MutantSkipped(a) == [NoResult EXCEPT !.status = plan[a]]

\* What an analyzer that was not run is recorded with; "redundant" is the
\* archive analyzer after a container broker (_archive_covered_by_container).
Skipped(a) ==
  [NoResult EXCEPT !.status = IF plan[a] = "redundant" THEN "skipped" ELSE "unsupported"]

Init ==
  /\ plan \in Plans /\ isolate \in BOOLEAN /\ limit \in WorkerLimits
  /\ brokers \in BrokerRecords
  /\ (\E a \in Analyzers : plan[a] = "redundant") => brokers # << >>
  /\ pc = "plan"
  /\ job = [a \in Analyzers |-> "none"]
  /\ answer = [a \in Analyzers |-> NoResult]
  /\ results = [a \in Analyzers |-> NoResult]
  /\ runs = << >> /\ evidence = << >> /\ relationships = << >> /\ sections = << >>
  /\ interrupted = FALSE
  /\ report = NoReport

\* A run as begin_run leaves it: "completed", with nothing in it.
BegunRun == [status |-> "completed", isolation |-> NotIsolated, evidence |-> {}]

Plan ==
  /\ pc = "plan"
  /\ runs' = [a \in Analyzers |-> BegunRun]
  /\ pc' = IF Jobs = {} THEN "ingest"
           ELSE IF ~isolate THEN "local"
           ELSE IF Workers = 1 THEN "inline"
           ELSE IF Workers > 1 THEN "submit"
           ELSE "raised"     \* ThreadPoolExecutor: max_workers must be positive
  /\ UNCHANGED <<setting, pool, results, evidence, relationships, sections, interrupted,
                 report>>

-----------------------------------------------------------------------------
(* Jobs *)

\* In this process: the next analyzer that has no result.
RunLocal(a) ==
  /\ pc = "local" /\ IsFirst(a, In("none"))
  /\ \E r \in LocalAnswers :
       /\ answer' = [answer EXCEPT ![a] = r]
       /\ results' = [results EXCEPT ![a] = r]
  /\ job' = [job EXCEPT ![a] = "finished"]
  /\ UNCHANGED <<setting, pc, graph, interrupted, report>>

\* One worker: the main thread runs the jobs itself.
StartInline(a) ==
  /\ pc = "inline" /\ In("running") = {} /\ IsFirst(a, In("none"))
  /\ job' = [job EXCEPT ![a] = "running"]
  /\ UNCHANGED <<setting, pc, answer, results, graph, interrupted, report>>

InlineReturns(a) ==
  /\ pc = "inline" /\ job[a] = "running"
  /\ \E r \in WorkerAnswers :
       /\ answer' = [answer EXCEPT ![a] = r]
       /\ results' = [results EXCEPT ![a] = r]
  /\ job' = [job EXCEPT ![a] = "finished"]
  /\ UNCHANGED <<setting, pc, graph, interrupted, report>>

AllDone ==
  /\ pc \in {"local", "inline"} /\ In("finished") = Jobs
  /\ pc' = "ingest"
  /\ UNCHANGED <<setting, pool, results, graph, interrupted, report>>

\* More workers: submit in order, while the first threads already work.
Submit(a) ==
  /\ pc = "submit" /\ IsFirst(a, In("none"))
  /\ job' = [job EXCEPT ![a] = "queued"]
  /\ pc' = IF In("none") = {a} THEN "collect" ELSE pc
  /\ UNCHANGED <<setting, answer, results, graph, interrupted, report>>

\* A thread of the pool takes the oldest queued job and starts its worker.
TakeJob(a) ==
  /\ IsFirst(a, In("queued")) /\ Cardinality(In("running")) < Workers
  /\ job' = [job EXCEPT ![a] = "running"]
  /\ UNCHANGED <<setting, pc, answer, results, graph, interrupted, report>>

\* The worker run ends: WorkerRun!RunEnds.
JobReturns(a) ==
  /\ pc \in {"submit", "collect", "drain"} /\ job[a] = "running"
  /\ \E r \in WorkerAnswers : answer' = [answer EXCEPT ![a] = r]
  /\ job' = [job EXCEPT ![a] = "finished"]
  /\ UNCHANGED <<setting, pc, results, graph, interrupted, report>>

Uncollected == {a \in In("finished") : results[a] = NoResult}

\* Answers stored in the order the jobs were submitted, not by their future.
MutantCollect(a) ==
  /\ pc = "collect" /\ a \in Uncollected
  /\ LET slot == CHOOSE b \in Jobs : IsFirst(b, {d \in Jobs : results[d] = NoResult})
     IN results' = [results EXCEPT ![slot] = answer[a]]
  /\ pc' = IF Cardinality({b \in Jobs : results[b] = NoResult}) = 1 THEN "ingest" ELSE pc
  /\ UNCHANGED <<setting, pool, graph, interrupted, report>>

\* as_completed yields finished futures in any order.
Collect(a) ==
  /\ pc = "collect" /\ a \in Uncollected
  /\ results' = [results EXCEPT ![a] = answer[a]]
  /\ pc' = IF {b \in Jobs : results[b] = NoResult} = {a} THEN "ingest" ELSE pc
  /\ UNCHANGED <<setting, pool, graph, interrupted, report>>

-----------------------------------------------------------------------------
(* Interrupts *)

\* Before the pool exists or after it is gone; a worker that was being waited
\* for is terminated by the finally clause of its run.
InterruptAlone ==
  /\ pc \in {"plan", "local", "inline", "ingest", "report"} /\ ~interrupted
  /\ interrupted' = TRUE
  /\ job' = [a \in Analyzers |-> IF job[a] = "running" THEN "killed" ELSE job[a]]
  /\ pc' = "raised"
  /\ UNCHANGED <<setting, answer, results, graph, report>>

\* Inside "with ThreadPoolExecutor": shutdown(wait=True) before it goes on.
InterruptPool ==
  /\ pc \in {"submit", "collect"} /\ ~interrupted
  /\ interrupted' = TRUE
  /\ pc' = "drain"
  /\ UNCHANGED <<setting, pool, results, graph, report>>

\* shutdown(wait=False).
MutantDrained ==
  /\ pc = "drain"
  /\ pc' = "raised"
  /\ UNCHANGED <<setting, pool, results, graph, interrupted, report>>

\* Waits for every planned job, submitted or not.
MutantDrainAll ==
  /\ pc = "drain" /\ In("finished") = Jobs
  /\ pc' = "raised"
  /\ UNCHANGED <<setting, pool, results, graph, interrupted, report>>

\* Queued jobs are not cancelled: the threads work them off first.
Drained ==
  /\ pc = "drain" /\ In("queued") \cup In("running") = {}
  /\ pc' = "raised"
  /\ UNCHANGED <<setting, pool, results, graph, interrupted, report>>

-----------------------------------------------------------------------------
(* Ingestion and the report *)

Section(a) == IF plan[a] = "eligible" THEN results[a] ELSE Skipped(a)

\* The evidence of a run's findings, when the graph has n items already.
EvidenceIds(r, n) == n + 1 .. n + r.evidence

\* Evidence that the first j items of the details add, behind that of the findings.
Emitted(r, j) == Cardinality({i \in 1 .. j : r.items[i].evidence})

EvidenceCount(r) == r.evidence + Emitted(r, Len(r.items))

ItemsOf(r, link) == {j \in DOMAIN r.items : r.items[j].link = link}
LinksOf(r) == {link \in Links : ItemsOf(r, link) # {}}

\* A relationship is made of the first item that gives it; a later item finds it
\* there, and what evidence it brought is cited by no relationship.
Relationship(a, r, link, n) ==
  LET j == CHOOSE i \in DOMAIN r.items : IsFirst(i, ItemsOf(r, link))
  IN [run |-> a,
      evidence |-> IF r.items[j].evidence THEN {n + r.evidence + Emitted(r, j)} ELSE {}]

\* What ingest_result adds to the graph for run a: the run, evidence, relationships.
AddToGraph(a, r) ==
  /\ sections' = Append(sections, r)
  /\ runs' = [runs EXCEPT ![a] =
       [status |-> r.status, isolation |-> r.isolation,
        evidence |-> EvidenceIds(r, Len(evidence))]]
  /\ evidence' = evidence \o [i \in 1 .. EvidenceCount(r) |-> a]
  /\ relationships' = [link \in DOMAIN relationships \cup LinksOf(r) |->
       IF link \in DOMAIN relationships THEN relationships[link]
       ELSE Relationship(a, r, link, Len(evidence))]

\* ingest_result for the next run; runs are never abandoned.  Nothing catches what
\* _emit_from_details raises; the list it is raised over is lost, and here has the
\* result that raised at its end.
Ingest ==
  /\ pc = "ingest"
  /\ LET a == Len(sections) + 1
         r == Section(a)
     IN /\ AddToGraph(a, r)
        /\ pc' = IF ~r.shaped THEN "raised" ELSE IF a = N THEN "report" ELSE pc
  /\ UNCHANGED <<setting, pool, results, interrupted, report>>

BrokerKeys == {"broker"} \X DOMAIN brokers
RunKeys(set) == {"analyzer"} \X set

\* Only workers that did start.
MutantAttempted ==
  {a \in Analyzers : runs[a].isolation.mode = "subprocess" /\ runs[a].isolation.pid}

\* analyzer_worker_isolation_record: runs that were attempted in a subprocess.
Attempted == {a \in Analyzers : runs[a].isolation.mode = "subprocess"}

WorkerInventory ==
  [w \in BrokerKeys \cup RunKeys(Attempted) |->
     IF w \in BrokerKeys THEN brokers[w[2]]
     ELSE WorkerRecord(runs[w[2]].status, runs[w[2]].isolation)]

BuildReport ==
  /\ pc = "report"
  /\ report' = [workers |-> WorkerInventory,
                summary |-> AggregateWorkerIsolation(WorkerInventory)]
  /\ pc' = "done"
  /\ UNCHANGED <<setting, pool, results, graph, interrupted>>

Finished == pc \in {"done", "raised"} /\ UNCHANGED vars

MainStep(a) == RunLocal(a) \/ StartInline(a) \/ Submit(a) \/ Collect(a)

Next ==
  \/ Plan \/ AllDone \/ Drained \/ Ingest \/ BuildReport \/ Finished
  \/ InterruptAlone \/ InterruptPool
  \/ \E a \in Analyzers : MainStep(a) \/ InlineReturns(a) \/ TakeJob(a) \/ JobReturns(a)

Spec == Init /\ [][Next]_vars

\* The main thread and the pool's threads run, and a worker run ends.  An
\* analyzer in this process may take forever: RunLocal is not fair.
FairSpec ==
  /\ Spec
  /\ WF_vars(Plan \/ AllDone \/ Drained \/ Ingest \/ BuildReport)
  /\ WF_vars(\E a \in Analyzers : StartInline(a) \/ Submit(a) \/ Collect(a))
  /\ \A a \in Analyzers : WF_vars(TakeJob(a)) /\ WF_vars(JobReturns(a) \/ InlineReturns(a))

-----------------------------------------------------------------------------
(* Properties *)

\* Every variable has its type (sections are a prefix of the registry).
TypeOK ==
  /\ plan \in PlanType /\ isolate \in BOOLEAN /\ limit \in Int
  /\ brokers \in Seq(RecordType)
  /\ pc \in {"plan", "local", "inline", "submit", "collect", "drain", "ingest", "report",
             "done", "raised"}
  /\ job \in [Analyzers -> {"none", "queued", "running", "finished", "killed"}]
  /\ answer \in [Analyzers -> ResultType \cup {NoResult}]
  /\ results \in [Analyzers -> ResultType \cup {NoResult}]
  /\ runs \in {<< >>} \cup [Analyzers -> RunType]
  /\ evidence \in Seq(Analyzers)
  /\ DOMAIN relationships \subseteq Links
  /\ relationships \in
       [DOMAIN relationships -> [run : Analyzers, evidence : SUBSET DOMAIN evidence]]
  /\ sections \in Seq(ResultType) /\ Len(sections) <= N
  /\ interrupted \in BOOLEAN
  /\ IF pc = "done" THEN report.summary \in SummaryType ELSE report = NoReport

\* What the analyzers up to a have to say, as evidence.
EvidenceUpTo(a) ==
  SumFunctionOnSet([b \in Analyzers |-> EvidenceCount(Section(b))], 1 .. a)

\* The report does not depend on the order in which the workers answered: it is
\* the answers in registry order, with evidence numbered and relationships given to
\* their runs as if the analyzers had been run one after the other.
ReportIsDeterministic ==
  pc = "done" =>
    /\ sections = [a \in Analyzers |-> IF plan[a] = "eligible" THEN answer[a] ELSE Skipped(a)]
    /\ Len(evidence) = EvidenceUpTo(N)
    /\ \A a \in Analyzers :
         /\ runs[a] = [status |-> sections[a].status, isolation |-> sections[a].isolation,
                       evidence |-> EvidenceIds(sections[a], EvidenceUpTo(a - 1))]
         /\ \A i \in EvidenceUpTo(a - 1) + 1 .. EvidenceUpTo(a) : evidence[i] = a
         /\ \A link \in LinksOf(sections[a]) :
              (\A b \in 1 .. a - 1 : link \notin LinksOf(sections[b])) =>
                /\ link \in DOMAIN relationships
                /\ relationships[link] =
                     Relationship(a, sections[a], link, EvidenceUpTo(a - 1))
    /\ DOMAIN relationships = UNION {LinksOf(sections[a]) : a \in Analyzers}

\* When the analysis has ended, with a report or with an exception, no job is
\* left in the queue and no worker is running.
NothingOutlivesAnalysis ==
  pc \in {"done", "raised"} => In("queued") \cup In("running") = {}

\* At no time do more workers run than max_analyzer_workers allows, but one may.
PoolWithinLimit == Cardinality(In("running")) <= Most(1, limit)

\* The analysis stops without a report for one of two causes only, whatever the limits
\* are and however the workers end: an interrupt, or ill-shaped details in the answer
\* ingested last, which take the answers of all other analyzers down with them.  A
\* report means that there was neither.
LastIsIllShaped == sections # << >> /\ ~sections[Len(sections)].shaped

StoppedWithCause ==
  /\ pc = "raised" => interrupted \/ LastIsIllShaped
  /\ pc = "done" => ~interrupted /\ \A a \in Analyzers : Section(a).shaped

\* Every attempt to use a worker, launched or not, is in the inventory with
\* what its runner said of it, and nothing else is.
InventoryIsComplete ==
  pc = "done" =>
    /\ DOMAIN report.workers = BrokerKeys \cup RunKeys(IF isolate THEN Jobs ELSE {})
    /\ \A a \in Jobs : isolate =>
         report.workers[<<"analyzer", a>>] = WorkerRecord(answer[a].status, answer[a].isolation)
    /\ \A i \in DOMAIN brokers : report.workers[<<"broker", i>>] = brokers[i]

\* What brokers and runners said of capability c.
Claims(c) ==
  {brokers[i].capabilities[c] : i \in DOMAIN brokers}
    \cup {answer[a].isolation.capabilities[c] : a \in IF isolate THEN Jobs ELSE {}}

\* No worker is hidden by a stronger one: the state the report gives a
\* capability is the one of some worker, and none is weaker.
WeakestWorkerDecides ==
  pc = "done" =>
    \A c \in Capabilities : Claims(c) # {} =>
      /\ report.summary.capabilities[c] \in Claims(c)
      /\ \A s \in Claims(c) :
           CAPABILITY_STRENGTH[report.summary.capabilities[c]] <= CAPABILITY_STRENGTH[s]

\* A mechanism is named only if every attempted worker was launched under it.
MechanismIsUniform ==
  pc = "done" /\ report.summary.mechanism \in Mechanisms \ {"none"} =>
    /\ \A i \in DOMAIN brokers :
         brokers[i].launched /\ brokers[i].mechanism = report.summary.mechanism
    /\ \A a \in Jobs : isolate =>
         answer[a].isolation.pid /\ answer[a].isolation.mechanism = report.summary.mechanism

\* With isolated analyzers the analysis ends, whatever the workers do.
AnalysisEnds == isolate ~> pc \in {"done", "raised"}
=============================================================================
