------------------------- MODULE AnalyzerPoolProofs -------------------------
(***************************************************************************)
(* Proofs about AnalyzerPool, for any number of analyzers, any limits, any *)
(* answers and any broker records.                                         *)
(*                                                                         *)
(* IInv has four layers.  PoolInv ties jobs, futures and results to where  *)
(* the main thread is.  IngestInv says what has been ingested, an answer   *)
(* that raised up to the place where it did.  CauseInv says why the        *)
(* analysis stopped, if it did, and ReportInv that the report was made     *)
(* from the runs as they still are.                                        *)
(***************************************************************************)
EXTENDS AnalyzerPool, SumLemmas, SequenceTheorems

Phases ==
  {"plan", "local", "inline", "submit", "collect", "drain", "ingest", "report", "done", "raised"}
JobStates == {"none", "queued", "running", "finished", "killed"}

\* The part of TypeOK that the pool uses.
PoolType ==
  /\ plan \in PlanType /\ isolate \in BOOLEAN /\ limit \in Int
  /\ brokers \in Seq(RecordType)
  /\ pc \in Phases
  /\ job \in [Analyzers -> JobStates]
  /\ answer \in [Analyzers -> ResultType \cup {NoResult}]
  /\ results \in [Analyzers -> ResultType \cup {NoResult}]
  /\ interrupted \in BOOLEAN

\* A job is an eligible analyzer, and has an answer exactly when it finished;
\* a result, where there is one, is that answer.
AnswerKept(a) ==
  /\ job[a] # "none" => plan[a] = "eligible"
  /\ IF job[a] = "finished"
     THEN /\ answer[a] \in ResultType
          /\ (answer[a].isolation.mode = "subprocess") <=> isolate
          /\ results[a] \in {NoResult, answer[a]}
     ELSE answer[a] = NoResult /\ results[a] = NoResult

\* Where the main thread is tells how far each job is.
Progress(a) ==
  /\ pc = "plan" => job[a] = "none"
  /\ job[a] = "killed" => pc = "raised"
  /\ pc \in {"local", "ingest", "report", "done", "raised"} => job[a] \notin {"queued", "running"}
  /\ pc = "inline" => job[a] # "queued"
  /\ pc \in {"local", "inline"} /\ job[a] = "finished" => results[a] = answer[a]
  /\ pc = "collect" /\ plan[a] = "eligible" => job[a] \in {"queued", "running", "finished"}
  /\ pc \in {"ingest", "report", "done"} /\ plan[a] = "eligible" =>
       job[a] = "finished" /\ results[a] = answer[a]

PhaseOK ==
  /\ pc = "local" => ~isolate
  /\ pc \in {"inline", "submit", "collect", "drain"} => isolate
  /\ interrupted => pc \in {"drain", "raised"}
  /\ pc = "drain" => interrupted

PoolInv ==
  /\ PoolType
  /\ \A a \in Analyzers : AnswerKept(a) /\ Progress(a)
  /\ PhaseOK

-----------------------------------------------------------------------------
(* The size of the pool *)

\* The pool has at least one worker and no more than the limit allows.
LEMMA WorkersBound ==
  ASSUME PoolType
  PROVE  Workers \in Int /\ Workers >= 1 /\ Workers <= Most(1, limit)
<1>1. IsFiniteSet(Jobs)
  <2>1. IsFiniteSet(Analyzers)
    BY CountAssumption, FS_Interval DEF Analyzers
  <2> QED BY <2>1, FS_Subset DEF Jobs
<1>2. Cardinality(Jobs) \in Nat
  BY <1>1, FS_CardinalityType
<1> QED BY <1>2 DEF PoolType, Workers, Most, Least

\* Answers have the type of results, and say whether there was a worker.
LEMMA AnswerTypes ==
  /\ \A r \in WorkerAnswers : r \in ResultType /\ r.isolation.mode = "subprocess"
  /\ \A r \in LocalAnswers : r \in ResultType /\ r.isolation.mode # "subprocess"
BY AnswerAssumption DEF ResultType, ResultOf, IsolationType, NotIsolated

-----------------------------------------------------------------------------
(* The pool *)

\* Everything holds before the first step.
LEMMA PoolInit == Init => PoolInv
<1> SUFFICES ASSUME Init PROVE PoolInv
  OBVIOUS
<1>1. PoolType
  BY PlanAssumption, LimitAssumption, BrokerAssumption
  DEF Init, PoolType, Phases, JobStates
<1>2. ASSUME NEW a \in Analyzers PROVE AnswerKept(a) /\ Progress(a)
  BY <1>1 DEF Init, AnswerKept, Progress, PoolType
<1> QED BY <1>1, <1>2 DEF Init, PoolInv, PhaseOK

\* Planning: the floor of one keeps the pool from being refused.
LEMMA PlanStep == PoolInv /\ Plan => PoolInv'
<1> SUFFICES ASSUME PoolInv, Plan PROVE PoolInv'
  OBVIOUS
<1>1. Workers \in Int /\ Workers >= 1
  BY WorkersBound DEF PoolInv
<1>2. /\ pc' \in {"ingest", "local", "inline", "submit"}
      /\ pc' = "ingest" => Jobs = {}
      /\ pc' = "local" => ~isolate
      /\ pc' \in {"inline", "submit"} => isolate
  BY <1>1 DEF Plan, PoolInv, PoolType
<1>3. pc = "plan" /\ UNCHANGED <<setting, pool, results, interrupted>>
  BY DEF Plan
<1>4. PoolType'
  BY <1>2, <1>3 DEF PoolInv, PoolType, setting, pool, Phases
<1>5. ASSUME NEW b \in Analyzers PROVE AnswerKept(b)' /\ Progress(b)'
  <2>1. pc' = "ingest" => plan[b] # "eligible"
    BY <1>2 DEF Jobs
  <2> QED BY <1>2, <1>3, <2>1 DEF PoolInv, AnswerKept, Progress, setting, pool
<1> QED BY <1>2, <1>3, <1>4, <1>5 DEF PoolInv, PhaseOK, setting

\* Starting, queueing and taking a job: no answer yet.
LEMMA JobStartStep ==
  ASSUME NEW a \in Analyzers, PoolInv,
         StartInline(a) \/ Submit(a) \/ TakeJob(a)
  PROVE  PoolInv'
<1>1. /\ plan[a] = "eligible" /\ job[a] \in {"none", "queued"}
      /\ UNCHANGED <<setting, answer, results, interrupted>>
  BY DEF StartInline, Submit, TakeJob, IsFirst, In, Jobs
<1>2. PICK state \in {"queued", "running"} : job' = [job EXCEPT ![a] = state]
  BY DEF StartInline, Submit, TakeJob
<1>3. /\ pc \in {"inline", "submit", "collect", "drain"}
      /\ pc' = pc \/ (pc = "submit" /\ pc' = "collect" /\ In("none") = {a})
      /\ pc = "inline" => state = "running"
  <2>1. TakeJob(a) => job[a] = "queued" /\ pc' = pc
    BY DEF TakeJob, IsFirst, In
  <2>2. job[a] = "queued" => pc \in {"submit", "collect", "drain"}
    BY DEF PoolInv, PoolType, Phases, Progress
  <2>3. StartInline(a) => pc = "inline" /\ pc' = pc /\ job' = [job EXCEPT ![a] = "running"]
    BY DEF StartInline
  <2>4. Submit(a) => pc = "submit" /\ (pc' = pc \/ (pc' = "collect" /\ In("none") = {a}))
    BY DEF Submit
  <2>5. job \in [Analyzers -> JobStates]
    BY DEF PoolInv, PoolType
  <2>6. pc = "inline" => StartInline(a)
    BY <2>1, <2>2, <2>4
  <2>7. pc = "inline" => job'[a] = "running" /\ job'[a] = state
    BY <1>2, <2>3, <2>5, <2>6
  <2> QED BY <2>1, <2>2, <2>3, <2>4, <2>7
<1>4. PoolType'
  BY <1>1, <1>2, <1>3 DEF PoolInv, PoolType, setting, Phases, JobStates
<1>5. ASSUME NEW b \in Analyzers PROVE AnswerKept(b)' /\ Progress(b)'
  <2>1. job'[b] = IF b = a THEN state ELSE job[b]
    BY <1>2 DEF PoolInv, PoolType
  <2>2. pc' # pc /\ plan[b] = "eligible" /\ b # a => job[b] # "none"
    BY <1>3 DEF In, Jobs
  <2>3. job[b] \in JobStates /\ AnswerKept(b) /\ Progress(b)
    BY DEF PoolInv, PoolType
  <2>4. AnswerKept(b)'
    BY <1>1, <1>2, <2>1, <2>3 DEF AnswerKept, setting
  <2>5. Progress(b)'
    BY <1>1, <1>2, <1>3, <2>1, <2>2, <2>3 DEF Progress, setting, JobStates
  <2> QED BY <2>4, <2>5
<1> QED BY <1>1, <1>3, <1>4, <1>5 DEF PoolInv, PhaseOK, setting

\* A job ends with an answer.
LEMMA JobEndStep ==
  ASSUME NEW a \in Analyzers, PoolInv,
         RunLocal(a) \/ InlineReturns(a) \/ JobReturns(a)
  PROVE  PoolInv'
<1>1. /\ plan[a] = "eligible" /\ job[a] \in {"none", "running"}
      /\ UNCHANGED <<setting, pc, interrupted>>
      /\ job' = [job EXCEPT ![a] = "finished"]
  BY DEF RunLocal, InlineReturns, JobReturns, IsFirst, In, Jobs, PoolInv, AnswerKept
<1>2. /\ RunLocal(a) => pc = "local" /\ ~isolate
      /\ InlineReturns(a) => pc = "inline" /\ isolate
      /\ JobReturns(a) => pc \in {"submit", "collect", "drain"} /\ isolate
  BY DEF RunLocal, InlineReturns, JobReturns, PoolInv, PhaseOK
<1>3. PICK r \in ResultType :
        /\ answer' = [answer EXCEPT ![a] = r]
        /\ (r.isolation.mode = "subprocess") <=> isolate
        /\ results' = [results EXCEPT ![a] = r] \/ (results' = results /\ JobReturns(a))
  <2>1. CASE RunLocal(a)
    BY <1>2, <2>1, AnswerTypes DEF RunLocal
  <2>2. CASE InlineReturns(a)
    BY <1>2, <2>2, AnswerTypes DEF InlineReturns
  <2>3. CASE JobReturns(a)
    BY <1>2, <2>3, AnswerTypes DEF JobReturns
  <2> QED BY <2>1, <2>2, <2>3
<1>4. PoolType'
  BY <1>1, <1>3 DEF PoolInv, PoolType, setting, JobStates
<1>5. ASSUME NEW b \in Analyzers PROVE AnswerKept(b)' /\ Progress(b)'
  <2>1. /\ job'[b] = IF b = a THEN "finished" ELSE job[b]
        /\ answer'[b] = IF b = a THEN r ELSE answer[b]
        /\ results'[b] \in {results[b], IF b = a THEN r ELSE results[b]}
        /\ ~JobReturns(a) /\ b = a => results'[b] = r
    BY <1>1, <1>3 DEF PoolInv, PoolType
  <2>2. job[b] \in JobStates /\ AnswerKept(b) /\ Progress(b) /\ AnswerKept(a)
    BY DEF PoolInv, PoolType
  <2>3. results[a] = NoResult
    BY <1>1, <2>2 DEF AnswerKept
  <2>4. AnswerKept(b)'
    BY <1>1, <1>3, <2>1, <2>2, <2>3 DEF AnswerKept, setting
  <2>5. Progress(b)'
    BY <1>1, <1>2, <2>1, <2>2 DEF Progress, setting
  <2> QED BY <2>4, <2>5
<1> QED BY <1>1, <1>4, <1>5 DEF PoolInv, PhaseOK, setting

\* The main thread takes the result of a finished future.
LEMMA CollectStep ==
  ASSUME NEW a \in Analyzers, PoolInv, Collect(a)
  PROVE  PoolInv'
<1>1. /\ pc = "collect" /\ job[a] = "finished" /\ results[a] = NoResult
      /\ UNCHANGED <<setting, pool, interrupted>>
      /\ results' = [results EXCEPT ![a] = answer[a]]
      /\ pc' = pc \/ (pc' = "ingest" /\ {b \in Jobs : results[b] = NoResult} = {a})
  BY DEF Collect, Uncollected, In
<1>2. PoolType'
  BY <1>1 DEF PoolInv, PoolType, setting, pool, Phases
<1>3. ASSUME NEW b \in Analyzers PROVE AnswerKept(b)' /\ Progress(b)'
  <2>1. results'[b] = IF b = a THEN answer[a] ELSE results[b]
    BY <1>1 DEF PoolInv, PoolType
  <2>2. pc' # pc /\ plan[b] = "eligible" /\ b # a => results[b] # NoResult
    BY <1>1 DEF Jobs
  <2>3. AnswerKept(b) /\ Progress(b)
    BY DEF PoolInv
  <2>4. AnswerKept(b)'
    BY <1>1, <2>1, <2>3 DEF AnswerKept, setting, pool
  <2>5. Progress(b)'
    BY <1>1, <2>1, <2>2, <2>3 DEF AnswerKept, Progress, setting, pool
  <2> QED BY <2>4, <2>5
<1> QED BY <1>1, <1>2, <1>3 DEF PoolInv, PhaseOK, setting

\* The end of the jobs, interrupts, and the steps after the pool.
LEMMA PhaseStep ==
  ASSUME PoolInv,
         AllDone \/ InterruptAlone \/ InterruptPool \/ Drained \/ Ingest \/ BuildReport
           \/ UNCHANGED vars
  PROVE  PoolInv'
<1>1. UNCHANGED <<setting, answer, results>>
  BY DEF AllDone, InterruptAlone, InterruptPool, Drained, Ingest, BuildReport, vars, pool
<1>2. PoolType'
  BY <1>1 DEF PoolInv, PoolType, AllDone, InterruptAlone, InterruptPool, Drained, Ingest,
     BuildReport, vars, pool, setting, Phases, JobStates
<1>3. ASSUME NEW b \in Analyzers PROVE AnswerKept(b)' /\ Progress(b)'
  <2>1. job[b] \in JobStates /\ AnswerKept(b) /\ Progress(b)
    BY DEF PoolInv, PoolType
  <2>2. CASE AllDone
    <3>1. plan[b] = "eligible" => job[b] = "finished"
      BY <2>2 DEF AllDone, In, Jobs
    <3> QED BY <1>1, <2>1, <2>2, <3>1 DEF AllDone, AnswerKept, Progress, setting, pool
  <2>3. CASE InterruptAlone
    <3>1. job'[b] = (IF job[b] = "running" THEN "killed" ELSE job[b])
            /\ pc' = "raised" /\ job[b] # "queued"
      BY <2>1, <2>3 DEF InterruptAlone, Progress
    <3> QED BY <1>1, <2>1, <3>1 DEF AnswerKept, Progress, setting
  <2>4. CASE InterruptPool
    BY <1>1, <2>1, <2>4 DEF InterruptPool, AnswerKept, Progress, setting, pool
  <2>5. CASE Drained
    <3>1. job[b] \notin {"queued", "running"}
      BY <2>1, <2>5 DEF Drained, In, Jobs, AnswerKept
    <3> QED BY <1>1, <2>1, <2>5, <3>1 DEF Drained, AnswerKept, Progress, setting, pool
  <2>6. CASE Ingest
    BY <1>1, <2>1, <2>6 DEF Ingest, AnswerKept, Progress, setting, pool
  <2>7. CASE BuildReport
    BY <1>1, <2>1, <2>7 DEF BuildReport, AnswerKept, Progress, setting, pool
  <2>8. CASE UNCHANGED vars
    BY <2>1, <2>8 DEF vars, AnswerKept, Progress, setting, pool
  <2> QED BY <2>2, <2>3, <2>4, <2>5, <2>6, <2>7, <2>8
<1>4. PhaseOK'
  BY <1>1 DEF PoolInv, PoolType, PhaseOK, AllDone, InterruptAlone, InterruptPool, Drained,
     Ingest, BuildReport, vars, setting
<1> QED BY <1>2, <1>3, <1>4 DEF PoolInv

\* The first layer is inductive.
LEMMA PoolNext == PoolInv /\ [Next]_vars => PoolInv'
BY PlanStep, JobStartStep, JobEndStep, CollectStep, PhaseStep DEF Next, MainStep, Finished

-----------------------------------------------------------------------------
(* Ingestion *)

Ingested == 1 .. Len(sections)

GraphType ==
  /\ sections \in Seq(ResultType)
  /\ evidence \in Seq(Analyzers)
  /\ runs \in {<< >>} \cup [Analyzers -> RunType]
  /\ pc \notin {"plan", "raised"} => runs \in [Analyzers -> RunType]

\* How far ingestion is when the main thread is where it is.
IngestProgress ==
  /\ Len(sections) <= N
  /\ pc = "ingest" => Len(sections) < N
  /\ pc \in {"report", "done"} => Len(sections) = N
  /\ pc \in {"plan", "local", "inline", "submit", "collect", "drain"} => Len(sections) = 0

\* A run that was ingested holds its own section, and the evidence behind that of the
\* runs before it.
RunIngested(a) ==
  /\ sections[a] = Section(a)
  /\ runs[a] = [status |-> sections[a].status, isolation |-> sections[a].isolation,
                evidence |-> EvidenceIds(sections[a], EvidenceUpTo(a - 1))]
  /\ \A i \in EvidenceUpTo(a - 1) + 1 .. EvidenceUpTo(a) : evidence[i] = a

\* A relationship is of the first run that has its link.
FirstWith(a, link) ==
  link \in LinksOf(Section(a)) /\ \A b \in 1 .. a - 1 : link \notin LinksOf(Section(b))

RelationshipsType ==
  /\ DOMAIN relationships \subseteq Links
  /\ relationships \in
       [DOMAIN relationships -> [run : Analyzers, evidence : SUBSET DOMAIN evidence]]

RelationshipsIngested ==
  /\ DOMAIN relationships = UNION {LinksOf(Section(a)) : a \in Ingested}
  /\ \A a \in Ingested : \A link \in Links :
       FirstWith(a, link) =>
         relationships[link] = Relationship(a, Section(a), link, EvidenceUpTo(a - 1))

IngestInv ==
  /\ GraphType
  /\ IngestProgress
  /\ Len(evidence) = EvidenceUpTo(Len(sections))
  /\ \A a \in Ingested : RunIngested(a)
  /\ RelationshipsType
  /\ RelationshipsIngested

\* Neither a job without a result nor an analyzer that is not run has evidence.
LEMMA EmptyResults ==
  /\ NoResult.evidence = 0 /\ NoResult.items = << >> /\ << >> \in Seq(ItemType)
  /\ \A a : Skipped(a) \in ResultType
<1>1. << >> \in Seq(ItemType)
  OBVIOUS
<1>2. ASSUME NEW a PROVE Skipped(a) \in ResultType
  <2> DEFINE s == IF plan[a] = "redundant" THEN "skipped" ELSE "unsupported"
             none == << >>
             yes == TRUE
  <2>1. s \in AnalyzerStatus /\ none \in Seq(ItemType) /\ yes \in BOOLEAN
    BY <1>1 DEF AnalyzerStatus
  <2>2. /\ Skipped(a) = [NoResult EXCEPT !.status = s]
        /\ NoResult = [status |-> "none", isolation |-> NotIsolated, evidence |-> 0,
                       items |-> none, shaped |-> yes]
    BY DEF Skipped, NoResult
  <2> HIDE DEF s, none, yes
  <2>3. Skipped(a) = [status |-> s, isolation |-> NotIsolated, evidence |-> 0, items |-> none,
                      shaped |-> yes]
    BY <2>2
  <2> QED BY <2>1, <2>3 DEF ResultType, ResultOf
<1> QED BY <1>1, <1>2 DEF NoResult

\* How much evidence a result has.
LEMMA CountType ==
  ASSUME NEW r \in ResultType \cup {NoResult}
  PROVE  /\ r.evidence \in Nat /\ EvidenceCount(r) \in Nat
         /\ DOMAIN r.items = 1 .. Len(r.items)
         /\ \A j \in DOMAIN r.items :
              /\ Emitted(r, j) \in Nat /\ Emitted(r, j) <= Emitted(r, Len(r.items))
              /\ r.items[j].evidence => Emitted(r, j) # 0
         /\ r.evidence + Emitted(r, Len(r.items)) = EvidenceCount(r)
<1> DEFINE n == Len(r.items)
           With(j) == {i \in 1 .. j : r.items[i].evidence}
<1>1. r.evidence \in Nat /\ r.items \in Seq(ItemType)
  <2>1. CASE r \in ResultType
    BY <2>1 DEF ResultType, ResultOf
  <2>2. CASE r = NoResult
    BY <2>2, EmptyResults
  <2> QED BY <2>1, <2>2
<1>2. n \in Nat /\ DOMAIN r.items = 1 .. n
  BY <1>1
<1>3. ASSUME NEW j \in 0 .. n PROVE IsFiniteSet(With(j)) /\ Cardinality(With(j)) \in Nat
  <2>1. IsFiniteSet(1 .. j) /\ With(j) \subseteq 1 .. j
    BY <1>2, FS_Interval
  <2> HIDE DEF With
  <2> QED BY <2>1, FS_Subset, FS_CardinalityType
<1>4. ASSUME NEW j \in 1 .. n PROVE Cardinality(With(j)) <= Cardinality(With(n))
  <2>1. With(j) \subseteq With(n) /\ n \in 0 .. n
    BY <1>2
  <2> QED BY <1>3, <2>1, FS_Subset
<1>5. ASSUME NEW j \in 1 .. n, r.items[j].evidence PROVE Cardinality(With(j)) # 0
  <2>1. j \in With(j) /\ j \in 0 .. n
    BY <1>5
  <2> QED BY <1>3, <2>1, FS_EmptySet
<1>6. n \in 0 .. n /\ \A j \in 1 .. n : j \in 0 .. n
  BY <1>2
<1>7. \A j \in 0 .. n : Emitted(r, j) = Cardinality(With(j))
  BY DEF Emitted
<1> HIDE DEF With
<1> QED BY <1>1, <1>2, <1>3, <1>4, <1>5, <1>6, <1>7 DEF EvidenceCount

\* The total of the evidence grows by what each analyzer has.
LEMMA UpToType ==
  ASSUME PoolType
  PROVE  /\ EvidenceUpTo(0) = 0
         /\ \A a \in Analyzers :
              /\ EvidenceUpTo(a) \in Nat /\ EvidenceUpTo(a - 1) \in Nat
              /\ EvidenceCount(Section(a)) \in Nat
              /\ EvidenceUpTo(a) = EvidenceUpTo(a - 1) + EvidenceCount(Section(a))
<1> DEFINE f == [b \in Analyzers |-> EvidenceCount(Section(b))]
<1>1. ASSUME NEW a \in Analyzers PROVE EvidenceCount(Section(a)) \in Nat
  <2>1. Section(a) \in ResultType \cup {NoResult}
    <3>1. Skipped(a) \in ResultType
      BY EmptyResults
    <3> QED BY <3>1 DEF Section, PoolType
  <2> QED BY <2>1, CountType
<1>2. \A a \in Analyzers : f[a] = EvidenceCount(Section(a)) /\ f[a] \in Nat
  BY <1>1
<1>3. \A a \in Int : EvidenceUpTo(a) = SumFunctionOnSet(f, 1 .. a)
  BY DEF EvidenceUpTo
<1> HIDE DEF f
<1>4. EvidenceUpTo(0) = 0
  <2>1. 0 \in Nat /\ \A i \in 1 .. 0 : f[i] \in Nat
    OBVIOUS
  <2> QED BY <1>3, <2>1, SumUpTo
<1>5. ASSUME NEW a \in Analyzers
      PROVE  /\ EvidenceUpTo(a) \in Nat /\ EvidenceUpTo(a - 1) \in Nat
             /\ EvidenceUpTo(a) = EvidenceUpTo(a - 1) + f[a]
  <2>1. /\ a \in Nat /\ a # 0 /\ a - 1 \in Nat
        /\ \A i \in 1 .. a : f[i] \in Nat
        /\ \A i \in 1 .. a - 1 : f[i] \in Nat
    BY <1>2, CountAssumption DEF Analyzers
  <2>2. SumFunctionOnSet(f, 1 .. a) \in Nat
    BY <2>1, SumUpTo
  <2>3. SumFunctionOnSet(f, 1 .. a) = SumFunctionOnSet(f, 1 .. (a - 1)) + f[a]
    BY <2>1, SumUpTo
  <2>4. SumFunctionOnSet(f, 1 .. (a - 1)) \in Nat
    BY <2>1, SumUpTo
  <2> QED BY <1>3, <2>1, <2>2, <2>3, <2>4
<1> QED BY <1>2, <1>4, <1>5

\* The totals do not fall.
LEMMA UpToMonotone ==
  ASSUME PoolType
  PROVE  \A a \in Analyzers : \A b \in 0 .. a : EvidenceUpTo(b) <= EvidenceUpTo(a)
<1> DEFINE f == [b \in Analyzers |-> EvidenceCount(Section(b))]
<1>1. ASSUME NEW a \in Analyzers, NEW b \in 0 .. a PROVE EvidenceUpTo(b) <= EvidenceUpTo(a)
  <2>1. \A i \in 1 .. a : f[i] \in Nat
    <3>1. \A i \in 1 .. a : i \in Analyzers
      BY CountAssumption DEF Analyzers
    <3> QED BY <3>1, UpToType
  <2>2. IsFiniteSet(1 .. a) /\ 1 .. b \in SUBSET (1 .. a)
    BY CountAssumption, FS_Interval DEF Analyzers
  <2>3. /\ EvidenceUpTo(a) = SumFunctionOnSet(f, 1 .. a)
        /\ EvidenceUpTo(b) = SumFunctionOnSet(f, 1 .. b)
    BY DEF EvidenceUpTo
  <2> HIDE DEF f
  <2> QED BY <2>1, <2>2, <2>3, SumMonotone
<1> QED BY <1>1

\* A step that leaves the results alone leaves the totals alone.
LEMMA UpToKept ==
  ASSUME UNCHANGED <<plan, results>>
  PROVE  /\ \A a : Section(a)' = Section(a)
         /\ \A a : EvidenceUpTo(a)' = EvidenceUpTo(a)
BY DEF Section, Skipped, EvidenceUpTo, EvidenceCount, Emitted

\* A relationship made of a result cites evidence of that result, if any.
LEMMA RelationshipType ==
  ASSUME NEW a \in Analyzers, NEW r \in ResultType, NEW link \in LinksOf(r), NEW n \in Nat
  PROVE  Relationship(a, r, link, n) \in
           [run : Analyzers, evidence : SUBSET (n + 1 .. n + EvidenceCount(r))]
<1>1. /\ r.evidence \in Nat /\ DOMAIN r.items = 1 .. Len(r.items)
      /\ \A j \in DOMAIN r.items :
           /\ Emitted(r, j) \in Nat /\ Emitted(r, j) <= Emitted(r, Len(r.items))
           /\ r.items[j].evidence => Emitted(r, j) # 0
      /\ r.evidence + Emitted(r, Len(r.items)) = EvidenceCount(r)
      /\ r.items \in Seq(ItemType)
  BY CountType DEF ResultType, ResultOf
<1>2. PICK j \in DOMAIN r.items : IsFirst(j, ItemsOf(r, link))
  <2>1. ItemsOf(r, link) \subseteq DOMAIN r.items /\ ItemsOf(r, link) # {}
    BY DEF ItemsOf, LinksOf
  <2>2. ItemsOf(r, link) \subseteq Nat
    BY <1>1, <2>1
  <2> QED BY <2>1, <2>2, LeastNumber DEF IsFirst
<1> DEFINE i == CHOOSE i \in DOMAIN r.items : IsFirst(i, ItemsOf(r, link))
<1>3. i \in DOMAIN r.items
  BY <1>2
<1>4. Relationship(a, r, link, n) =
        [run |-> a,
         evidence |-> IF r.items[i].evidence THEN {n + r.evidence + Emitted(r, i)} ELSE {}]
  BY DEF Relationship
<1> HIDE DEF i
<1>5. Len(r.items) \in Nat
  BY <1>1
<1>6. r.items[i].evidence =>
        n + r.evidence + Emitted(r, i) \in n + 1 .. n + EvidenceCount(r)
  <2>1. /\ Emitted(r, i) \in Nat /\ Emitted(r, i) <= Emitted(r, Len(r.items))
        /\ r.items[i].evidence => Emitted(r, i) # 0
    BY <1>1, <1>3
  <2>2. Emitted(r, Len(r.items)) \in Nat
    BY <1>1, <1>3, <1>5
  <2> QED BY <1>1, <2>1, <2>2
<1> QED BY <1>4, <1>6

\* What is ingested for a run has the type of a result.
LEMMA SectionType ==
  ASSUME PoolInv, pc = "ingest", NEW a \in Analyzers
  PROVE  Section(a) \in ResultType
<1>1. CASE plan[a] = "eligible"
  BY <1>1 DEF PoolInv, Progress, AnswerKept, Section
<1>2. CASE ~(plan[a] = "eligible")
  <2>1. Skipped(a) \in ResultType
    BY EmptyResults
  <2> QED BY <1>2, <2>1 DEF Section
<1> QED BY <1>1, <1>2

\* Nothing is ingested before the first step.
LEMMA IngestInit == Init => IngestInv
<1> SUFFICES ASSUME Init PROVE IngestInv
  OBVIOUS
<1>1. /\ sections = << >> /\ evidence = << >> /\ runs = << >> /\ relationships = << >>
      /\ pc = "plan"
  BY DEF Init
<1>2. Len(sections) = 0 /\ Len(evidence) = 0 /\ DOMAIN relationships = {} /\ Ingested = {}
  BY <1>1 DEF Ingested
<1>3. GraphType
  BY <1>1 DEF GraphType
<1>4. IngestProgress
  BY <1>1, <1>2, CountAssumption DEF IngestProgress
<1>5. EvidenceUpTo(0) = 0
  BY PoolInit, UpToType DEF PoolInv
<1>6. RelationshipsType
  BY <1>1, <1>2 DEF RelationshipsType
<1> QED BY <1>2, <1>3, <1>4, <1>5, <1>6 DEF IngestInv, RelationshipsIngested

\* As long as nothing is ingested, the results may still change.
LEMMA NothingIngested ==
  ASSUME PoolInv, PoolInv', IngestInv, Len(sections) = 0,
         UNCHANGED <<sections, evidence, relationships>>
  PROVE  /\ Len(evidence') = EvidenceUpTo(Len(sections))'
         /\ Ingested' = {} /\ RelationshipsIngested'
<1>1. ASSUME NEW f PROVE SumFunctionOnSet(f, 1 .. 0) = 0
  <2>1. 0 \in Nat /\ \A i \in 1 .. 0 : f[i] \in Nat
    OBVIOUS
  <2> QED BY <2>1, SumUpTo
<1>2. EvidenceUpTo(0) = 0 /\ EvidenceUpTo(0)' = 0
  BY <1>1 DEF EvidenceUpTo
<1>3. Len(evidence') = EvidenceUpTo(Len(sections))'
  <2>1. Len(evidence) = EvidenceUpTo(Len(sections))
    BY DEF IngestInv
  <2>2. Len(evidence') = 0
    BY <1>2, <2>1
  <2>3. EvidenceUpTo(Len(sections))' =
          SumFunctionOnSet([b \in Analyzers |-> EvidenceCount(Section(b))]', 1 .. 0)
    BY DEF EvidenceUpTo
  <2> QED BY <1>1, <2>2, <2>3
<1>4. Ingested = {} /\ Ingested' = {}
  BY DEF Ingested
<1>5. DOMAIN relationships' = {}
  BY <1>4 DEF IngestInv, RelationshipsIngested
<1> QED BY <1>3, <1>4, <1>5 DEF RelationshipsIngested

\* Ingesting one more result: its evidence goes behind all that is there.
LEMMA EvidenceIngested ==
  ASSUME PoolInv, IngestInv, Ingest
  PROVE  LET a == Len(sections) + 1
             r == Section(a)
         IN /\ a \in Analyzers /\ r \in ResultType
            /\ Len(sections) \in Nat /\ Len(evidence) = EvidenceUpTo(a - 1)
            /\ GraphType' /\ IngestProgress'
            /\ sections' = Append(sections, r) /\ Len(sections') = a
            /\ Len(evidence') = EvidenceUpTo(a)
            /\ \A b \in 1 .. a : RunIngested(b)'
<1> DEFINE k == Len(sections)
           a == k + 1
           r == Section(a)
           m == Len(evidence)
           c == EvidenceCount(r)
           new == [i \in 1 .. c |-> a]
           ingested == [status |-> r.status, isolation |-> r.isolation,
                        evidence |-> EvidenceIds(r, m)]
<1>1. /\ pc = "ingest"
      /\ sections' = Append(sections, r)
      /\ runs' = [runs EXCEPT ![a] = ingested]
      /\ evidence' = evidence \o new
      /\ pc' = "raised" \/ pc' = (IF a = N THEN "report" ELSE pc)
      /\ UNCHANGED <<plan, results>>
  BY DEF Ingest, AddToGraph, setting
<1>2. /\ sections \in Seq(ResultType) /\ evidence \in Seq(Analyzers)
      /\ runs \in [Analyzers -> RunType]
      /\ k \in Nat /\ m \in Nat /\ k < N /\ N \in Nat
  BY <1>1, CountAssumption DEF IngestInv, GraphType, IngestProgress
<1>3. a \in Analyzers /\ a - 1 = k
  BY <1>2 DEF Analyzers
<1>4. /\ r \in ResultType /\ r.evidence \in Nat /\ r.status \in AnalyzerStatus
      /\ r.isolation \in IsolationType \cup {NotIsolated}
  BY <1>1, <1>3, SectionType DEF ResultType, ResultOf
<1>5. /\ m = EvidenceUpTo(a - 1) /\ c \in Nat
      /\ EvidenceUpTo(a) = m + c
  BY <1>3, UpToType DEF IngestInv, PoolInv
<1> HIDE DEF r, c
<1>6. new \in Seq(Analyzers) /\ Len(new) = c /\ \A i \in 1 .. c : new[i] = a
  <2>1. new \in [1 .. c -> Analyzers]
    BY <1>3
  <2> QED BY <1>5, <2>1
<1> HIDE DEF new
<1>7. /\ evidence' \in Seq(Analyzers)
      /\ Len(evidence') = m + c
      /\ \A i \in 1 .. m : evidence'[i] = evidence[i]
      /\ \A i \in m + 1 .. m + c : evidence'[i] = a
  <2>1. evidence' \in Seq(Analyzers) /\ Len(evidence') = m + c
    <3>1. /\ evidence \o new \in Seq(Analyzers)
          /\ Len(evidence \o new) = Len(evidence) + Len(new)
      BY <1>2, <1>6, ConcatProperties
    <3> QED BY <1>1, <1>6, <3>1
  <2>2. \A i \in 1 .. m : evidence'[i] = evidence[i]
    BY <1>1, <1>2, <1>5, <1>6, ConcatProperties
  <2>3. ASSUME NEW i \in m + 1 .. m + c PROVE evidence'[i] = a
    <3>1. i \in 1 .. m + c /\ i > m /\ i - m \in 1 .. c
      BY <1>2, <1>5
    <3>2. evidence'[i] = new[i - m]
      BY <1>1, <1>2, <1>5, <1>6, <3>1, ConcatProperties
    <3> QED BY <1>6, <3>1, <3>2
  <2> QED BY <2>1, <2>2, <2>3
<1>8. /\ sections' \in Seq(ResultType) /\ Len(sections') = a
      /\ sections'[a] = r /\ \A b \in 1 .. k : sections'[b] = sections[b]
  BY <1>1, <1>2, <1>4, AppendProperties
<1>9. /\ runs' \in [Analyzers -> RunType]
      /\ runs'[a] = ingested
      /\ \A b \in 1 .. k : runs'[b] = runs[b]
  <2>1. EvidenceIds(r, m) \in SUBSET Nat
    BY <1>2, <1>4 DEF EvidenceIds
  <2>2. ingested \in RunType
    BY <1>4, <2>1 DEF RunType
  <2> HIDE DEF ingested
  <2>3. runs' \in [Analyzers -> RunType] /\ runs'[a] = ingested
    BY <1>1, <1>2, <1>3, <2>2
  <2>4. \A b \in 1 .. k : b \in Analyzers /\ b # a
    BY <1>2 DEF Analyzers
  <2> QED BY <1>1, <1>2, <2>3, <2>4
<1>10. GraphType'
  BY <1>7, <1>8, <1>9 DEF GraphType
<1>11. IngestProgress'
  BY <1>1, <1>2, <1>8 DEF IngestProgress
<1>12. ASSUME NEW b \in 1 .. a PROVE RunIngested(b)'
  <2>1. /\ Section(b)' = Section(b)
        /\ EvidenceUpTo(b)' = EvidenceUpTo(b) /\ EvidenceUpTo(b - 1)' = EvidenceUpTo(b - 1)
    BY <1>1, UpToKept
  <2>2. CASE b = a
    BY <1>5, <1>7, <1>8, <1>9, <2>1, <2>2 DEF RunIngested, EvidenceIds, r
  <2>3. CASE b \in 1 .. k
    <3>1. RunIngested(b)
      BY <2>3 DEF IngestInv, Ingested
    <3>2. \A i \in EvidenceUpTo(b - 1) + 1 .. EvidenceUpTo(b) : i \in 1 .. m
      <4>1. b \in Analyzers /\ EvidenceUpTo(b) \in Nat /\ EvidenceUpTo(b - 1) \in Nat
        BY <1>2, <2>3, UpToType DEF Analyzers, PoolInv
      <4>2. EvidenceUpTo(b) <= m
        BY <1>2, <1>3, <1>5, <2>3, UpToMonotone DEF Analyzers, PoolInv
      <4> QED BY <1>2, <4>1, <4>2
    <3> QED BY <1>7, <1>8, <1>9, <2>1, <2>3, <3>1, <3>2 DEF RunIngested, EvidenceIds
  <2> QED BY <1>2, <2>2, <2>3
<1> QED BY <1>1, <1>2, <1>3, <1>4, <1>5, <1>7, <1>8, <1>10, <1>11, <1>12 DEF r

\* Ingesting one more result: its relationships are added, where they are not there yet.
LEMMA RelationshipsAdded ==
  ASSUME PoolInv, IngestInv, Ingest
  PROVE  RelationshipsType' /\ RelationshipsIngested'
<1> DEFINE k == Len(sections)
           a == k + 1
           r == Section(a)
           m == Len(evidence)
           old == DOMAIN relationships
<1>1. /\ a \in Analyzers /\ r \in ResultType /\ k \in Nat /\ m = EvidenceUpTo(a - 1)
      /\ Len(sections') = a /\ Len(evidence') = EvidenceUpTo(a)
      /\ Ingested' = 1 .. a /\ Ingested = 1 .. k
  BY EvidenceIngested DEF Ingested
<1>2. relationships' = [link \in old \cup LinksOf(r) |->
        IF link \in old THEN relationships[link] ELSE Relationship(a, r, link, m)]
  BY DEF Ingest, AddToGraph
<1>3. \A b \in 1 .. a : Section(b)' = Section(b) /\ EvidenceUpTo(b - 1)' = EvidenceUpTo(b - 1)
  BY UpToKept DEF Ingest, setting
<1>4. /\ m \in Nat /\ EvidenceCount(r) \in Nat
      /\ DOMAIN evidence = 1 .. m /\ DOMAIN evidence' = 1 .. m + EvidenceCount(r)
  <2>1. evidence \in Seq(Analyzers) /\ evidence' \in Seq(Analyzers)
    BY EvidenceIngested DEF IngestInv, GraphType
  <2> QED BY <1>1, <2>1, UpToType DEF PoolInv
<1>5. /\ old \subseteq Links
      /\ relationships \in [old -> [run : Analyzers, evidence : SUBSET (1 .. m)]]
      /\ old = UNION {LinksOf(Section(b)) : b \in 1 .. k}
      /\ \A b \in 1 .. k : \A link \in Links :
           FirstWith(b, link) =>
             relationships[link] = Relationship(b, Section(b), link, EvidenceUpTo(b - 1))
  BY <1>1, <1>4 DEF IngestInv, RelationshipsType, RelationshipsIngested
<1>6. LinksOf(r) \subseteq Links
  BY DEF LinksOf
<1>7. RelationshipsType'
  <2>1. ASSUME NEW link \in old \cup LinksOf(r)
        PROVE  relationships'[link] \in
                 [run : Analyzers, evidence : SUBSET (1 .. m + EvidenceCount(r))]
    <3>1. 1 .. m \subseteq 1 .. m + EvidenceCount(r)
      BY <1>4
    <3>2. m + 1 .. m + EvidenceCount(r) \subseteq 1 .. m + EvidenceCount(r)
      BY <1>4
    <3>3. CASE link \in old
      <4>1. relationships'[link] = relationships[link]
        BY <1>2, <3>3
      <4> QED BY <1>5, <3>1, <3>3, <4>1
    <3>4. CASE link \notin old
      <4>1. relationships'[link] = Relationship(a, r, link, m)
        BY <1>2, <3>4
      <4>2. Relationship(a, r, link, m) \in
              [run : Analyzers, evidence : SUBSET (m + 1 .. m + EvidenceCount(r))]
        BY <1>1, <1>4, <3>4, RelationshipType
      <4> QED BY <3>2, <4>1, <4>2
    <3> QED BY <3>3, <3>4
  <2>2. DOMAIN relationships' = old \cup LinksOf(r)
    BY <1>2
  <2>3. relationships' = [link \in old \cup LinksOf(r) |-> relationships'[link]]
    BY <1>2
  <2> QED BY <1>4, <1>5, <1>6, <2>1, <2>2, <2>3 DEF RelationshipsType
<1>8. \A b \in 1 .. a : \A link \in Links : FirstWith(b, link)' <=> FirstWith(b, link)
  <2>1. \A b \in 1 .. a : LinksOf(Section(b))' = LinksOf(Section(b))
    BY <1>3 DEF LinksOf, ItemsOf
  <2>2. \A b \in 1 .. a : \A c \in 1 .. b - 1 : c \in 1 .. a
    BY <1>1
  <2> QED BY <2>1, <2>2 DEF FirstWith
<1>9. RelationshipsIngested'
  <2>1. DOMAIN relationships' = UNION {LinksOf(Section(b)) : b \in 1 .. a}
    <3>1. DOMAIN relationships' = old \cup LinksOf(r)
      BY <1>2
    <3>2. \A b \in 1 .. a : b \in 1 .. k \/ b = a
      BY <1>1
    <3>3. a \in 1 .. a /\ \A b \in 1 .. k : b \in 1 .. a
      BY <1>1
    <3> QED BY <1>5, <3>1, <3>2, <3>3
  <2>2. DOMAIN relationships' = UNION {LinksOf(Section(b))' : b \in 1 .. a}
    <3>1. \A b \in 1 .. a : LinksOf(Section(b))' = LinksOf(Section(b))
      BY <1>3 DEF LinksOf, ItemsOf
    <3> QED BY <2>1, <3>1
  <2>3. ASSUME NEW b \in 1 .. a, NEW link \in Links, FirstWith(b, link)
        PROVE  relationships'[link] = Relationship(b, Section(b), link, EvidenceUpTo(b - 1))
    <3>1. CASE b \in 1 .. k
      <4>1. link \in LinksOf(Section(b))
        BY <2>3 DEF FirstWith
      <4>2. link \in old
        BY <1>5, <3>1, <4>1
      <4> QED BY <1>2, <1>5, <2>3, <3>1, <4>2
    <3>2. CASE b = a
      <4>1. link \in LinksOf(r) /\ \A c \in 1 .. k : link \notin LinksOf(Section(c))
        BY <1>1, <2>3, <3>2 DEF FirstWith
      <4>2. link \notin old
        BY <1>5, <4>1
      <4> QED BY <1>1, <1>2, <3>2, <4>1, <4>2
    <3> QED BY <1>1, <3>1, <3>2
  <2>4. ASSUME NEW b \in 1 .. a, NEW link \in Links
        PROVE  Relationship(b, Section(b), link, EvidenceUpTo(b - 1))'
                 = Relationship(b, Section(b), link, EvidenceUpTo(b - 1))
    BY <1>3 DEF Relationship, IsFirst, ItemsOf, Emitted
  <2> QED BY <1>1, <1>8, <2>2, <2>3, <2>4 DEF RelationshipsIngested
<1> QED BY <1>7, <1>9

\* Ingestion keeps the second layer.
LEMMA IngestStep == PoolInv /\ IngestInv /\ Ingest => IngestInv'
<1> SUFFICES ASSUME PoolInv, IngestInv, Ingest PROVE IngestInv'
  OBVIOUS
<1> DEFINE a == Len(sections) + 1
<1>1. /\ GraphType' /\ IngestProgress' /\ Len(sections') = a
      /\ Len(evidence') = EvidenceUpTo(a)
      /\ \A b \in 1 .. a : RunIngested(b)'
  BY EvidenceIngested
<1>2. EvidenceUpTo(Len(sections))' = EvidenceUpTo(a)
  <2>1. UNCHANGED <<plan, results>>
    BY DEF Ingest, setting
  <2> QED BY <1>1, <2>1 DEF EvidenceUpTo, Section, Skipped, EvidenceCount, Emitted
<1> QED BY <1>1, <1>2, RelationshipsAdded DEF IngestInv, Ingested

\* Every other step leaves what was ingested alone.
LEMMA IngestKept ==
  ASSUME PoolInv, PoolInv', IngestInv, [Next]_vars, ~Ingest, ~Plan
  PROVE  IngestInv'
<1>1. UNCHANGED <<plan, sections, evidence, runs, relationships>>
  BY DEF Next, MainStep, RunLocal, StartInline, InlineReturns, AllDone, Submit, TakeJob,
     JobReturns, Collect, InterruptAlone, InterruptPool, Drained, BuildReport, Finished,
     vars, setting, graph
<1>2. /\ results' = results \/ pc \in {"local", "inline", "collect"}
      /\ \/ pc' = pc
         \/ pc \in {"local", "inline", "collect"} /\ pc' = "ingest"
         \/ pc = "submit" /\ pc' \in {"collect", "drain"}
         \/ pc = "collect" /\ pc' = "drain"
         \/ pc' = "raised"
         \/ pc = "report" /\ pc' = "done"
  BY DEF Next, MainStep, RunLocal, StartInline, InlineReturns, AllDone, Submit, TakeJob,
     JobReturns, Collect, InterruptAlone, InterruptPool, Drained, BuildReport, Finished,
     vars, setting, graph
<1>3. GraphType'
  BY <1>1, <1>2 DEF IngestInv, GraphType
<1>4. IngestProgress'
  BY <1>1, <1>2, CountAssumption DEF IngestInv, IngestProgress
<1>5. RelationshipsType'
  BY <1>1 DEF IngestInv, RelationshipsType
<1>6. CASE Len(sections) = 0
  BY <1>1, <1>3, <1>4, <1>5, <1>6, NothingIngested DEF IngestInv, RelationshipsIngested, Ingested
<1>7. CASE Len(sections) # 0
  <2>1. UNCHANGED <<plan, results>>
    BY <1>1, <1>2, <1>7 DEF IngestInv, IngestProgress
  <2>2. /\ Len(evidence) = EvidenceUpTo(Len(sections))
        /\ \A b \in Ingested : RunIngested(b)
        /\ RelationshipsIngested
    BY DEF IngestInv
  <2>3. Len(evidence') = EvidenceUpTo(Len(sections))'
    BY <1>1, <2>1, <2>2 DEF EvidenceUpTo, Section, Skipped, EvidenceCount, Emitted
  <2>4. ASSUME NEW b \in Ingested' PROVE RunIngested(b)'
    <3>1. b \in Ingested
      BY <1>1 DEF Ingested
    <3> QED BY <1>1, <2>1, <2>2, <3>1, UpToKept DEF RunIngested, EvidenceIds
  <2>5. RelationshipsIngested'
    <3>1. \A b : LinksOf(Section(b))' = LinksOf(Section(b))
      BY <2>1 DEF Section, Skipped, LinksOf, ItemsOf
    <3>2. \A b, link : Relationship(b, Section(b), link, EvidenceUpTo(b - 1))'
                         = Relationship(b, Section(b), link, EvidenceUpTo(b - 1))
      BY <2>1 DEF Section, Skipped, EvidenceUpTo, EvidenceCount, Relationship, IsFirst, ItemsOf,
         Emitted
    <3>3. Ingested' = Ingested /\ \A b, link : FirstWith(b, link)' <=> FirstWith(b, link)
      BY <1>1, <3>1 DEF Ingested, FirstWith
    <3> QED BY <1>1, <2>2, <3>1, <3>2, <3>3 DEF RelationshipsIngested
  <2> QED BY <1>3, <1>4, <1>5, <2>3, <2>4, <2>5 DEF IngestInv
<1> QED BY <1>6, <1>7

\* Planning makes the runs; nothing is ingested yet.
LEMMA IngestPlanned == PoolInv /\ PoolInv' /\ IngestInv /\ Plan => IngestInv'
<1> SUFFICES ASSUME PoolInv, PoolInv', IngestInv, Plan PROVE IngestInv'
  OBVIOUS
<1>1. /\ pc = "plan" /\ UNCHANGED <<sections, evidence, relationships>>
      /\ runs' = [a \in Analyzers |-> BegunRun]
      /\ pc' \in {"ingest", "local", "inline", "submit", "raised"}
  BY DEF Plan
<1>2. BegunRun \in RunType
  BY DEF BegunRun, RunType, AnalyzerStatus
<1>3. Len(sections) = 0
  BY <1>1 DEF IngestInv, IngestProgress
<1>4. GraphType'
  BY <1>1, <1>2 DEF IngestInv, GraphType
<1>5. IngestProgress'
  BY <1>1, <1>3, CountAssumption DEF IngestProgress
<1>6. RelationshipsType'
  BY <1>1 DEF IngestInv, RelationshipsType
<1> QED BY <1>1, <1>3, <1>4, <1>5, <1>6, NothingIngested DEF IngestInv

-----------------------------------------------------------------------------
(* Why the analysis stopped *)

\* All that is ingested is well shaped, but for the answer that raised.
CauseInv ==
  /\ pc = "raised" => interrupted \/ LastIsIllShaped
  /\ pc # "raised" => \A b \in Ingested : sections[b].shaped

\* Every step into "raised" has its cause, and no other takes in an ill-shaped answer.
LEMMA CauseNext == PoolInv /\ IngestInv /\ CauseInv /\ [Next]_vars => CauseInv'
<1> SUFFICES ASSUME PoolInv, IngestInv, CauseInv, [Next]_vars PROVE CauseInv'
  OBVIOUS
<1>1. CASE Ingest
  <2> DEFINE k == Len(sections)
             a == k + 1
             r == Section(a)
  <2>1. /\ k \in Nat /\ sections \in Seq(ResultType) /\ r \in ResultType
        /\ sections' = Append(sections, r) /\ Len(sections') = a
    BY <1>1, EvidenceIngested DEF IngestInv, GraphType
  <2>2. sections'[a] = r /\ \A b \in 1 .. k : sections'[b] = sections[b]
    BY <2>1, AppendProperties
  <2>3. pc = "ingest" /\ (pc' = "raised" <=> ~r.shaped)
    BY <1>1 DEF Ingest
  <2> HIDE DEF r
  <2>4. CASE r.shaped
    <3>1. \A b \in 1 .. a : b = a \/ b \in 1 .. k
      BY <2>1
    <3>2. \A b \in 1 .. k : sections[b].shaped
      BY <2>3 DEF CauseInv, Ingested
    <3>3. \A b \in 1 .. a : sections'[b].shaped
      BY <2>2, <2>4, <3>1, <3>2
    <3> QED BY <2>1, <2>3, <2>4, <3>3 DEF CauseInv, Ingested
  <2>5. CASE ~r.shaped
    <3>1. sections' # << >>
      BY <2>1
    <3> QED BY <2>1, <2>2, <2>3, <2>5, <3>1 DEF CauseInv, LastIsIllShaped
  <2> QED BY <2>4, <2>5
<1>2. CASE ~Ingest
  <2>1. UNCHANGED sections
    BY <1>2 DEF Next, MainStep, Plan, RunLocal, StartInline, InlineReturns, AllDone, Submit,
       TakeJob, JobReturns, Collect, InterruptAlone, InterruptPool, Drained, BuildReport,
       Finished, vars, graph
  <2>2. pc' # pc /\ pc' = "raised" => interrupted'
    <3>1. Plan => pc' # "raised"
      BY WorkersBound DEF Plan, PoolInv, PoolType
    <3>2. Drained => interrupted'
      BY DEF Drained, PoolInv, PhaseOK
    <3> QED BY <1>2, <3>1, <3>2 DEF Next, MainStep, RunLocal, StartInline, InlineReturns,
          AllDone, Submit, TakeJob, JobReturns, Collect, InterruptAlone, InterruptPool,
          BuildReport, Finished, vars
  <2>3. (pc = "raised" => pc' = "raised") /\ (interrupted => interrupted')
    BY <1>2 DEF Next, MainStep, Plan, RunLocal, StartInline, InlineReturns, AllDone, Submit,
       TakeJob, JobReturns, Collect, InterruptAlone, InterruptPool, Drained, BuildReport,
       Finished, vars
  <2> QED BY <2>1, <2>2, <2>3 DEF CauseInv, Ingested, LastIsIllShaped
<1> QED BY <1>1, <1>2

-----------------------------------------------------------------------------
(* The report and the inductive invariant *)

ReportInv ==
  IF pc = "done"
  THEN report = [workers |-> WorkerInventory,
                 summary |-> AggregateWorkerIsolation(WorkerInventory)]
  ELSE report = NoReport

IInv == PoolInv /\ IngestInv /\ CauseInv /\ ReportInv

\* The report is made once, from runs and records that change no more.
LEMMA ReportNext == ReportInv /\ [Next]_vars => ReportInv'
<1> SUFFICES ASSUME ReportInv, [Next]_vars PROVE ReportInv'
  OBVIOUS
<1>1. CASE BuildReport
  <2>1. UNCHANGED <<brokers, runs>> /\ pc' = "done"
    BY <1>1 DEF BuildReport, setting, graph
  <2>2. WorkerInventory' = WorkerInventory
    BY <2>1 DEF WorkerInventory, BrokerKeys, RunKeys, Attempted
  <2>3. report' = [workers |-> WorkerInventory,
                   summary |-> AggregateWorkerIsolation(WorkerInventory)]
    BY <1>1 DEF BuildReport
  <2> QED BY <2>1, <2>2, <2>3 DEF ReportInv
<1>2. CASE ~BuildReport
  <2>1. /\ pc' = "done" <=> pc = "done"
        /\ pc = "done" => UNCHANGED <<brokers, runs>>
        /\ UNCHANGED report
    <3>1. CASE Plan
      <4>1. pc = "plan" /\ UNCHANGED report
        BY <3>1 DEF Plan
      <4>2. pc' \in {"ingest", "local", "inline", "submit", "raised"}
        BY <3>1 DEF Plan
      <4> QED BY <4>1, <4>2
    <3>2. CASE Ingest
      BY <3>2 DEF Ingest
    <3>3. ASSUME NEW a \in Analyzers, Submit(a) \/ Collect(a) PROVE <2>1!1 /\ <2>1!2 /\ <2>1!3
      BY <3>3 DEF Submit, Collect
    <3>4. ASSUME NEW a \in Analyzers,
                 \/ RunLocal(a) \/ StartInline(a) \/ InlineReturns(a)
                 \/ TakeJob(a) \/ JobReturns(a)
          PROVE  UNCHANGED <<pc, brokers, runs, report>>
      BY <3>4 DEF RunLocal, StartInline, InlineReturns, TakeJob, JobReturns, setting, graph
    <3>5. CASE AllDone \/ InterruptAlone \/ InterruptPool \/ Drained
      BY <3>5 DEF AllDone, InterruptAlone, InterruptPool, Drained
    <3>6. CASE UNCHANGED vars
      BY <3>6 DEF vars, setting, graph
    <3> QED BY <1>2, <3>1, <3>2, <3>3, <3>4, <3>5, <3>6 DEF Next, MainStep, Finished
  <2>2. pc = "done" => WorkerInventory' = WorkerInventory
    BY <2>1 DEF WorkerInventory, BrokerKeys, RunKeys, Attempted
  <2> QED BY <2>1, <2>2 DEF ReportInv
<1> QED BY <1>1, <1>2

\* The four layers hold in every reachable state.
THEOREM Invariant == Spec => []IInv
<1>1. Init => IInv
  <2>1. Init => ReportInv /\ CauseInv
    BY DEF Init, ReportInv, CauseInv, Ingested
  <2> QED BY <2>1, PoolInit, IngestInit DEF IInv
<1>2. IInv /\ [Next]_vars => IInv'
  BY PoolNext, IngestStep, IngestKept, IngestPlanned, CauseNext, ReportNext DEF IInv
<1> QED BY <1>1, <1>2, PTL DEF Spec

-----------------------------------------------------------------------------
(* What follows: the order of answers, the end, the size of the pool *)

\* The report does not depend on the order in which workers answered
\* (as_completed in _run_analyzers, ids given by Investigation).
THEOREM DeterministicReport == Spec => []ReportIsDeterministic
<1>1. IInv => ReportIsDeterministic
  <2> SUFFICES ASSUME IInv, pc = "done" PROVE ReportIsDeterministic
    BY DEF ReportIsDeterministic
  <2>1. sections \in Seq(ResultType) /\ Len(sections) = N /\ Ingested = Analyzers
    BY DEF IInv, IngestInv, GraphType, IngestProgress, Ingested, Analyzers
  <2>2. ASSUME NEW a \in Analyzers
        PROVE  sections[a] = IF plan[a] = "eligible" THEN answer[a] ELSE Skipped(a)
    BY <2>1 DEF IInv, PoolInv, Progress, IngestInv, RunIngested, Section
  <2>3. sections = [a \in Analyzers |-> sections[a]]
    BY <2>1 DEF Analyzers
  <2>4. sections = [a \in Analyzers |-> IF plan[a] = "eligible" THEN answer[a] ELSE Skipped(a)]
    BY <2>2, <2>3
  <2>5. \A a \in Analyzers : RunIngested(a)
    BY <2>1 DEF IInv, IngestInv
  <2>6. \A a \in Analyzers : sections[a] = Section(a)
    BY <2>5 DEF RunIngested
  <2>7. ASSUME NEW a \in Analyzers, NEW link \in LinksOf(sections[a]),
               \A b \in 1 .. a - 1 : link \notin LinksOf(sections[b])
        PROVE  /\ link \in DOMAIN relationships
               /\ relationships[link] = Relationship(a, sections[a], link, EvidenceUpTo(a - 1))
    <3>1. link \in Links /\ link \in LinksOf(Section(a))
      BY <2>6 DEF LinksOf
    <3>2. \A b \in 1 .. a - 1 : b \in Analyzers
      BY CountAssumption DEF Analyzers
    <3>3. FirstWith(a, link)
      BY <2>6, <2>7, <3>1, <3>2 DEF FirstWith
    <3> QED BY <2>1, <2>6, <3>1, <3>3 DEF IInv, IngestInv, RelationshipsIngested
  <2>8. DOMAIN relationships = UNION {LinksOf(sections[a]) : a \in Analyzers}
    BY <2>1, <2>6 DEF IInv, IngestInv, RelationshipsIngested
  <2>9. Len(evidence) = EvidenceUpTo(N)
    BY <2>1 DEF IInv, IngestInv
  <2> QED BY <2>4, <2>5, <2>7, <2>8, <2>9 DEF ReportIsDeterministic, RunIngested
<1> QED BY <1>1, Invariant, PTL

\* No job and no worker outlives the analysis: shutdown(wait=True), and the
\* finally clause of a run that is interrupted.
THEOREM NothingLeftRunning == Spec => []NothingOutlivesAnalysis
<1>1. IInv => NothingOutlivesAnalysis
  BY DEF IInv, PoolInv, Progress, NothingOutlivesAnalysis, In, Jobs
<1> QED BY <1>1, Invariant, PTL

\* For any limit, zero and negative ones too, and any answers: the analysis stops without
\* a report only by an interrupt, or because details that the worker's validation let pass
\* raised in _emit_from_details; with a report all that was ingested is well shaped.
THEOREM StopsWithCause == Spec => []StoppedWithCause
<1>1. IInv => StoppedWithCause
  <2> SUFFICES ASSUME IInv, pc = "done"
               PROVE  ~interrupted /\ \A a \in Analyzers : Section(a).shaped
    BY DEF IInv, CauseInv, StoppedWithCause
  <2>1. Ingested = Analyzers
    BY DEF IInv, IngestInv, IngestProgress, Ingested, Analyzers
  <2> QED BY <2>1 DEF IInv, PoolInv, PhaseOK, CauseInv, IngestInv, RunIngested
<1> QED BY <1>1, Invariant, PTL

PoolBound == Cardinality(In("running")) <= Workers

\* Sets of jobs are finite.
LEMMA JobsFinite == IsFiniteSet(Jobs) /\ \A s \in JobStates : IsFiniteSet(In(s))
<1>1. IsFiniteSet(Analyzers)
  BY CountAssumption, FS_Interval DEF Analyzers
<1>2. Jobs \subseteq Analyzers /\ \A s \in JobStates : In(s) \subseteq Analyzers
  BY DEF Jobs, In
<1> QED BY <1>1, <1>2, FS_Subset

\* A worker starts only where one fits.
LEMMA PoolBoundNext == PoolInv /\ PoolInv' /\ PoolBound /\ [Next]_vars => PoolBound'
<1> SUFFICES ASSUME PoolInv, PoolInv', PoolBound, [Next]_vars PROVE PoolBound'
  OBVIOUS
<1> DEFINE R == In("running")
<1>1. Workers' = Workers /\ Workers \in Int /\ Workers >= 1 /\ Jobs' = Jobs
  <2>1. UNCHANGED <<plan, limit>>
    BY DEF Next, MainStep, Plan, RunLocal, StartInline, InlineReturns, AllDone, Submit, TakeJob,
       JobReturns, Collect, InterruptAlone, InterruptPool, Drained, Ingest, BuildReport,
       Finished, vars, setting
  <2> QED BY <2>1, WorkersBound DEF PoolInv, Workers, Jobs
<1>2. IsFiniteSet(R) /\ Cardinality(R) \in Nat
  BY JobsFinite, FS_CardinalityType DEF JobStates
<1>3. ASSUME NEW a \in Analyzers, StartInline(a) \/ TakeJob(a) PROVE PoolBound'
  <2>1. R' = R \cup {a} /\ a \notin R
    <3>1. job' = [job EXCEPT ![a] = "running"] /\ job \in [Analyzers -> JobStates]
      BY <1>3 DEF StartInline, TakeJob, PoolInv, PoolType
    <3>2. a \in Jobs /\ job[a] # "running"
      BY <1>3 DEF StartInline, TakeJob, IsFirst, In
    <3>3. \A b \in Jobs : job'[b] = IF b = a THEN "running" ELSE job[b]
      BY <3>1 DEF Jobs
    <3> QED BY <1>1, <3>2, <3>3 DEF In
  <2>2. Cardinality(R) < Workers
    <3>1. CASE StartInline(a)
      BY <1>1, <3>1, FS_EmptySet DEF StartInline
    <3>2. CASE TakeJob(a)
      BY <3>2 DEF TakeJob
    <3> QED BY <1>3, <3>1, <3>2
  <2>3. Cardinality(R') = Cardinality(R) + 1
    BY <1>2, <2>1, FS_AddElement
  <2> QED BY <1>1, <1>2, <2>2, <2>3 DEF PoolBound
<1>4. ASSUME R' \subseteq R PROVE PoolBound'
  <2>1. Cardinality(R') <= Cardinality(R) /\ Cardinality(R') \in Nat
    BY <1>2, <1>4, FS_Subset, FS_CardinalityType
  <2> QED BY <1>1, <1>2, <2>1 DEF PoolBound
<1>5. ASSUME NEW a \in Analyzers,
             RunLocal(a) \/ InlineReturns(a) \/ Submit(a) \/ JobReturns(a) \/ Collect(a)
      PROVE  R' \subseteq R
  <2>1. /\ \/ job' = job
           \/ job' = [job EXCEPT ![a] = "finished"]
           \/ job' = [job EXCEPT ![a] = "queued"]
        /\ job \in [Analyzers -> JobStates]
    BY <1>5 DEF RunLocal, InlineReturns, Submit, JobReturns, Collect, pool, PoolInv, PoolType
  <2>2. \A b \in Jobs : job'[b] = "running" => job[b] = "running"
    BY <2>1 DEF Jobs
  <2> QED BY <1>1, <2>2 DEF In
<1>6. ASSUME Plan \/ AllDone \/ InterruptAlone \/ InterruptPool \/ Drained \/ Ingest \/ BuildReport
               \/ UNCHANGED vars
      PROVE  R' \subseteq R
  <2>1. CASE InterruptAlone
    BY <1>1, <2>1 DEF InterruptAlone, In, PoolInv, PoolType, Jobs
  <2>2. CASE ~InterruptAlone
    <3>1. job' = job
      BY <1>6, <2>2 DEF Plan, AllDone, InterruptPool, Drained, Ingest, BuildReport, vars, pool
    <3> QED BY <1>1, <3>1 DEF In
  <2> QED BY <2>1, <2>2
<1> QED BY <1>3, <1>4, <1>5, <1>6 DEF Next, MainStep, Finished

\* Never more workers than max_analyzer_workers, but one may always run.
THEOREM PoolIsBounded == Spec => []PoolWithinLimit
<1>1. Init => PoolBound
  <2> SUFFICES ASSUME Init PROVE PoolBound
    OBVIOUS
  <2>1. In("running") = {}
    BY DEF Init, In, Jobs
  <2> QED BY <2>1, PoolInit, WorkersBound, FS_EmptySet DEF PoolBound, PoolInv
<1>2. IInv /\ IInv' /\ PoolBound /\ [Next]_vars => PoolBound'
  BY PoolBoundNext DEF IInv
<1>3. IInv /\ PoolBound => PoolWithinLimit
  <2> SUFFICES ASSUME IInv, PoolBound PROVE PoolWithinLimit
    OBVIOUS
  <2>1. Workers \in Int /\ Workers <= Most(1, limit) /\ limit \in Int
    BY WorkersBound DEF IInv, PoolInv, PoolType
  <2>2. Cardinality(In("running")) \in Nat
    BY JobsFinite, FS_CardinalityType DEF JobStates
  <2> QED BY <2>1, <2>2 DEF PoolBound, PoolWithinLimit, Most
<1> QED BY <1>1, <1>2, <1>3, Invariant, PTL DEF Spec

-----------------------------------------------------------------------------
(* What follows: the inventory *)

\* min() finds a state of the set, and none in it is weaker.
LEMMA WeakestIsMinimal ==
  ASSUME NEW S \in SUBSET States, S # {}
  PROVE  /\ Weakest(S) \in S
         /\ \A t \in S : CAPABILITY_STRENGTH[Weakest(S)] <= CAPABILITY_STRENGTH[t]
<1> DEFINE Low(s) == \A t \in S : CAPABILITY_STRENGTH[s] <= CAPABILITY_STRENGTH[t]
<1>1. /\ CAPABILITY_STRENGTH["failed"] = 0 /\ CAPABILITY_STRENGTH["unsupported"] = 1
      /\ CAPABILITY_STRENGTH["degraded"] = 2 /\ CAPABILITY_STRENGTH["enforced"] = 3
  BY DEF CAPABILITY_STRENGTH
<1>2. \E s \in S : Low(s)
  <2>1. CASE "failed" \in S
    BY <1>1, <2>1 DEF States
  <2>2. CASE "failed" \notin S /\ "unsupported" \in S
    BY <1>1, <2>2 DEF States
  <2>3. CASE "failed" \notin S /\ "unsupported" \notin S /\ "degraded" \in S
    BY <1>1, <2>3 DEF States
  <2>4. CASE "failed" \notin S /\ "unsupported" \notin S /\ "degraded" \notin S
    <3>1. S = {"enforced"}
      BY <2>4 DEF States
    <3> QED BY <1>1, <3>1
  <2> QED BY <2>1, <2>2, <2>3, <2>4
<1> QED BY <1>2 DEF Weakest

\* The workers of a report: the brokers', and the isolated jobs'.
LEMMA InventoryKeys ==
  ASSUME IInv, pc = "done"
  PROVE  /\ Attempted = IF isolate THEN Jobs ELSE {}
         /\ \A a \in Attempted : runs[a].status = answer[a].status
                                   /\ runs[a].isolation = answer[a].isolation
                                   /\ answer[a] \in ResultType
                                   /\ answer[a].isolation \in IsolationType
<1>1. ASSUME NEW a \in Analyzers
      PROVE  /\ runs[a].status = Section(a).status
             /\ runs[a].isolation = Section(a).isolation
  <2>1. sections[a] = Section(a)
          /\ runs[a] = [status |-> sections[a].status, isolation |-> sections[a].isolation,
                        evidence |-> EvidenceIds(sections[a], EvidenceUpTo(a - 1))]
    BY <1>1 DEF IInv, IngestInv, IngestProgress, Ingested, RunIngested, Analyzers
  <2> QED BY <2>1
<1>2. ASSUME NEW a \in Analyzers, plan[a] = "eligible"
      PROVE  /\ Section(a) = answer[a] /\ answer[a] \in ResultType
             /\ (answer[a].isolation.mode = "subprocess") <=> isolate
  BY <1>2 DEF IInv, PoolInv, Progress, AnswerKept, Section
<1>3. ASSUME NEW a \in Analyzers, plan[a] # "eligible"
      PROVE  Section(a).isolation.mode # "subprocess"
  BY <1>3 DEF Section, Skipped, NoResult, NotIsolated
<1>4. Attempted = IF isolate THEN Jobs ELSE {}
  BY <1>1, <1>2, <1>3 DEF Attempted, Jobs
<1>5. ASSUME NEW a \in Attempted
      PROVE  /\ runs[a].status = answer[a].status
             /\ runs[a].isolation = answer[a].isolation
             /\ answer[a] \in ResultType
             /\ answer[a].isolation \in IsolationType
  <2>1. a \in Analyzers /\ plan[a] = "eligible" /\ isolate
    BY <1>4 DEF Jobs, Attempted
  <2>2. answer[a].isolation.mode = "subprocess" /\ NotIsolated.mode # "subprocess"
    BY <1>2, <2>1 DEF NotIsolated
  <2> QED BY <1>1, <1>2, <2>1, <2>2 DEF ResultType, ResultOf
<1> QED BY <1>4, <1>5

\* Record by record, the inventory of a finished report.
LEMMA InventoryRecords ==
  ASSUME IInv, pc = "done"
  PROVE  /\ DOMAIN WorkerInventory = BrokerKeys \cup RunKeys(Attempted)
         /\ \A i \in DOMAIN brokers : WorkerInventory[<<"broker", i>>] = brokers[i]
         /\ \A a \in Attempted : WorkerInventory[<<"analyzer", a>>] =
              WorkerRecord(answer[a].status, answer[a].isolation)
         /\ \A w \in DOMAIN WorkerInventory : WorkerInventory[w] \in RecordType
<1>1. DOMAIN WorkerInventory = BrokerKeys \cup RunKeys(Attempted)
  BY DEF WorkerInventory
<1>2. ASSUME NEW i \in DOMAIN brokers PROVE WorkerInventory[<<"broker", i>>] = brokers[i]
  <2>1. <<"broker", i>> \in BrokerKeys /\ <<"broker", i>>[2] = i
    BY DEF BrokerKeys
  <2> QED BY <2>1 DEF WorkerInventory
<1>3. ASSUME NEW a \in Attempted
      PROVE  WorkerInventory[<<"analyzer", a>>] = WorkerRecord(answer[a].status, answer[a].isolation)
  <2>1. /\ <<"analyzer", a>> \in RunKeys(Attempted) /\ <<"analyzer", a>>[2] = a
        /\ <<"analyzer", a>> \notin BrokerKeys
    BY DEF RunKeys, BrokerKeys
  <2> QED BY <2>1, InventoryKeys DEF WorkerInventory
<1>4. ASSUME NEW w \in DOMAIN WorkerInventory PROVE WorkerInventory[w] \in RecordType
  <2>1. CASE w \in BrokerKeys
    <3>1. PICK i \in DOMAIN brokers : w = <<"broker", i>>
      BY <2>1 DEF BrokerKeys
    <3>2. brokers[i] \in RecordType
      BY <3>1 DEF IInv, PoolInv, PoolType
    <3> QED BY <1>2, <3>1, <3>2
  <2>2. CASE w \in RunKeys(Attempted)
    <3>1. PICK a \in Attempted : w = <<"analyzer", a>>
      BY <2>2 DEF RunKeys
    <3>2. answer[a].status \in AnalyzerStatus /\ answer[a].isolation \in IsolationType
      BY InventoryKeys DEF ResultType, ResultOf
    <3>3. WorkerRecord(answer[a].status, answer[a].isolation) \in RecordType
      BY <3>2 DEF WorkerRecord, RecordType, IsolationType
    <3> QED BY <1>3, <3>1, <3>3
  <2> QED BY <1>1, <2>1, <2>2
<1> QED BY <1>1, <1>2, <1>3, <1>4

\* Every attempt is in the inventory with what its runner said, and nothing else
\* (_build_report, analyzer_worker_isolation_record).
THEOREM CompleteInventory == Spec => []InventoryIsComplete
<1>1. IInv => InventoryIsComplete
  <2> SUFFICES ASSUME IInv, pc = "done" PROVE InventoryIsComplete
    BY DEF InventoryIsComplete
  <2>1. report.workers = WorkerInventory
    BY DEF IInv, ReportInv
  <2>2. Attempted = IF isolate THEN Jobs ELSE {}
    BY InventoryKeys
  <2> QED BY <2>1, <2>2, InventoryRecords DEF InventoryIsComplete
<1> QED BY <1>1, Invariant, PTL

\* A finished report names workers if and only if some were attempted.
LEMMA SummaryOfWorkers ==
  ASSUME IInv, pc = "done"
  PROVE  /\ DOMAIN WorkerInventory # {} => report.summary = Summary(WorkerInventory)
         /\ DOMAIN WorkerInventory = {} => report.summary = EmptySummary
BY DEF IInv, ReportInv, AggregateWorkerIsolation

\* For every capability the weakest of all attempted workers decides, for any
\* number of brokers and analyzers (aggregate_worker_isolation).
THEOREM WeakestDecides == Spec => []WeakestWorkerDecides
<1>1. IInv => WeakestWorkerDecides
  <2> SUFFICES ASSUME IInv, pc = "done", NEW c \in Capabilities, Claims(c) # {}
               PROVE  /\ report.summary.capabilities[c] \in Claims(c)
                      /\ \A s \in Claims(c) :
                           CAPABILITY_STRENGTH[report.summary.capabilities[c]]
                             <= CAPABILITY_STRENGTH[s]
    BY DEF WeakestWorkerDecides
  <2> DEFINE W == WorkerInventory
             S == {W[w].capabilities[c] : w \in DOMAIN W}
  <2>1. S = Claims(c)
    <3>1. ASSUME NEW w \in DOMAIN W PROVE W[w].capabilities[c] \in Claims(c)
      <4>1. CASE w \in BrokerKeys
        <5>1. PICK i \in DOMAIN brokers : w = <<"broker", i>>
          BY <4>1 DEF BrokerKeys
        <5> QED BY <5>1, InventoryRecords DEF Claims
      <4>2. CASE w \in RunKeys(Attempted)
        <5>1. PICK a \in Attempted : w = <<"analyzer", a>>
          BY <4>2 DEF RunKeys
        <5>2. W[w] = WorkerRecord(answer[a].status, answer[a].isolation)
          BY <5>1, InventoryRecords
        <5>3. W[w].capabilities = answer[a].isolation.capabilities
          BY <5>2 DEF WorkerRecord
        <5>4. a \in (IF isolate THEN Jobs ELSE {})
          BY InventoryKeys
        <5> QED BY <5>3, <5>4 DEF Claims
      <4> QED BY <4>1, <4>2, InventoryRecords
    <3>2. ASSUME NEW s \in Claims(c) PROVE s \in S
      <4>1. CASE \E i \in DOMAIN brokers : s = brokers[i].capabilities[c]
        <5>1. PICK i \in DOMAIN brokers : s = brokers[i].capabilities[c]
          BY <4>1
        <5>2. <<"broker", i>> \in DOMAIN W /\ W[<<"broker", i>>] = brokers[i]
          BY InventoryRecords DEF BrokerKeys
        <5> QED BY <5>1, <5>2
      <4>2. CASE \E a \in Attempted : s = answer[a].isolation.capabilities[c]
        <5>1. PICK a \in Attempted : s = answer[a].isolation.capabilities[c]
          BY <4>2
        <5>2. /\ <<"analyzer", a>> \in DOMAIN W
              /\ W[<<"analyzer", a>>] = WorkerRecord(answer[a].status, answer[a].isolation)
          BY InventoryRecords DEF RunKeys
        <5>3. W[<<"analyzer", a>>].capabilities = answer[a].isolation.capabilities
          BY <5>2 DEF WorkerRecord
        <5> QED BY <5>1, <5>2, <5>3
      <4> QED BY <4>1, <4>2, InventoryKeys DEF Claims
    <3> QED BY <3>1, <3>2
  <2>2. S \in SUBSET States /\ DOMAIN W # {}
    <3>1. \A w \in DOMAIN W : W[w].capabilities[c] \in States
      BY InventoryRecords DEF RecordType
    <3> QED BY <2>1, <3>1
  <2>3. report.summary.capabilities[c] = Weakest(S)
    BY <2>2, SummaryOfWorkers DEF Summary
  <2> HIDE DEF S
  <2> QED BY <2>1, <2>2, <2>3, WeakestIsMinimal
<1> QED BY <1>1, Invariant, PTL

\* A mechanism is named only if all attempted workers ran under it.
THEOREM NamedMechanismIsUniform == Spec => []MechanismIsUniform
<1>1. IInv => MechanismIsUniform
  <2> SUFFICES ASSUME IInv, pc = "done", report.summary.mechanism \in Mechanisms \ {"none"}
               PROVE  /\ \A i \in DOMAIN brokers :
                           /\ brokers[i].launched
                           /\ brokers[i].mechanism = report.summary.mechanism
                      /\ \A a \in Jobs : isolate =>
                           /\ answer[a].isolation.pid
                           /\ answer[a].isolation.mechanism = report.summary.mechanism
    BY DEF MechanismIsUniform
  <2> DEFINE W == WorkerInventory
             m == report.summary.mechanism
  <2>1. "null" \notin Mechanisms /\ "mixed" \notin Mechanisms
    BY MechanismAssumption
  <2>2. report.summary = Summary(W)
    BY <2>1, SummaryOfWorkers DEF EmptySummary
  <2>3. Uniform(W) /\ m = CHOOSE x \in Mechanisms : Used(W) = {x}
    BY <2>1, <2>2 DEF Summary
  <2>4. Used(W) = {m} /\ Launched(W) = DOMAIN W
    BY <2>3 DEF Uniform
  <2>5. ASSUME NEW w \in DOMAIN W PROVE W[w].launched /\ W[w].mechanism = m
    BY <2>4 DEF Used, Launched
  <2>6. ASSUME NEW i \in DOMAIN brokers PROVE brokers[i].launched /\ brokers[i].mechanism = m
    <3>1. <<"broker", i>> \in DOMAIN W /\ W[<<"broker", i>>] = brokers[i]
      BY InventoryRecords DEF BrokerKeys
    <3> QED BY <2>5, <3>1
  <2>7. ASSUME NEW a \in Jobs, isolate
        PROVE  answer[a].isolation.pid /\ answer[a].isolation.mechanism = m
    <3>1. a \in Attempted
      BY <2>7, InventoryKeys
    <3>2. /\ <<"analyzer", a>> \in DOMAIN W
          /\ W[<<"analyzer", a>>] = WorkerRecord(answer[a].status, answer[a].isolation)
      BY <3>1, InventoryRecords DEF RunKeys
    <3> QED BY <2>5, <3>2 DEF WorkerRecord
  <2> QED BY <2>6, <2>7
<1> QED BY <1>1, Invariant, PTL

\* Type correctness; the summary of a report has the type of one.
THEOREM TypeCorrect == Spec => []TypeOK
<1>1. ASSUME IInv, pc = "done" PROVE report.summary \in SummaryType
  <2> DEFINE W == WorkerInventory
  <2>1. CASE DOMAIN W = {}
    <3>1. EmptySummary \in SummaryType
      <4> DEFINE none == << >>
      <4>1. none \in [Capabilities -> States] \cup {none}
        OBVIOUS
      <4> HIDE DEF none
      <4>2. [mechanism |-> "null", allLaunched |-> TRUE, failedCount |-> 0,
             fallbackUsed |-> FALSE, capabilities |-> none]
              \in [mechanism : Mechanisms \cup {"mixed", "none", "null"}, allLaunched : BOOLEAN,
                  failedCount : Nat, fallbackUsed : BOOLEAN,
                  capabilities : [Capabilities -> States] \cup {none}]
        BY <4>1
      <4> QED BY <4>2 DEF SummaryType, EmptySummary, none
    <3> QED BY <1>1, <2>1, <3>1, SummaryOfWorkers
  <2>2. CASE DOMAIN W # {}
    <3>1. \A w \in DOMAIN W : W[w] \in RecordType
      BY <1>1, InventoryRecords
    <3>2. ASSUME NEW c \in Capabilities
          PROVE  Weakest({W[w].capabilities[c] : w \in DOMAIN W}) \in States
      <4> DEFINE S == {W[w].capabilities[c] : w \in DOMAIN W}
      <4>1. \A w \in DOMAIN W : W[w].capabilities[c] \in States
        BY <3>1 DEF RecordType
      <4>2. S \in SUBSET States /\ S # {}
        BY <2>2, <4>1
      <4> HIDE DEF S
      <4>3. Weakest(S) \in S
        BY <4>2, WeakestIsMinimal
      <4>4. Weakest(S) \in States
        BY <4>2, <4>3
      <4> QED BY <4>4 DEF S
    <3>3. IsFiniteSet(DOMAIN W)
      <4>1. IsFiniteSet(BrokerKeys)
        <5>1. IsFiniteSet(DOMAIN brokers)
          <6>1. DOMAIN brokers = 1 .. Len(brokers) /\ Len(brokers) \in Nat
            BY <1>1 DEF IInv, PoolInv, PoolType
          <6> QED BY <6>1, FS_Interval
        <5>2. IsFiniteSet({"broker"})
          BY FS_Singleton
        <5> QED BY <5>1, <5>2, FS_Product DEF BrokerKeys
      <4>2. IsFiniteSet(RunKeys(Attempted))
        <5>1. IsFiniteSet(Attempted)
          <6>1. IsFiniteSet(Analyzers) /\ Attempted \subseteq Analyzers
            BY CountAssumption, FS_Interval DEF Analyzers, Attempted
          <6> QED BY <6>1, FS_Subset
        <5>2. IsFiniteSet({"analyzer"})
          BY FS_Singleton
        <5> QED BY <5>1, <5>2, FS_Product DEF RunKeys
      <4>3. DOMAIN W = BrokerKeys \cup RunKeys(Attempted)
        BY <1>1, InventoryRecords
      <4> QED BY <4>1, <4>2, <4>3, FS_Union
    <3> DEFINE F == {w \in DOMAIN W : W[w].status \in FAILURES}
    <3>4. Cardinality(F) \in Nat
      BY <3>3, FS_Subset, FS_CardinalityType
    <3>5. Uniform(W) => (CHOOSE m \in Mechanisms : Used(W) = {m}) \in Mechanisms
      BY DEF Uniform
    <3>6. report.summary = Summary(W)
      BY <1>1, <2>2, SummaryOfWorkers
    <3>7. /\ Summary(W).mechanism \in Mechanisms \cup {"mixed", "none", "null"}
          /\ Summary(W).allLaunched \in BOOLEAN
          /\ Summary(W).failedCount \in Nat
          /\ Summary(W).fallbackUsed \in BOOLEAN
      BY <3>1, <3>4, <3>5 DEF Summary
    <3>8. Summary(W).capabilities \in [Capabilities -> States]
      BY <3>2 DEF Summary
    <3>9. Summary(W) = [mechanism |-> Summary(W).mechanism, allLaunched |-> Summary(W).allLaunched,
                        failedCount |-> Summary(W).failedCount,
                        fallbackUsed |-> Summary(W).fallbackUsed,
                        capabilities |-> Summary(W).capabilities]
      BY DEF Summary
    <3> QED BY <3>6, <3>7, <3>8, <3>9 DEF SummaryType
  <2> QED BY <2>1, <2>2
<1>2. IInv => TypeOK
  BY <1>1 DEF IInv, PoolInv, PoolType, Phases, JobStates, IngestInv, GraphType, IngestProgress,
     RelationshipsType, ReportInv, TypeOK
<1> QED BY <1>2, Invariant, PTL

\* A summary never gains by another worker: whatever is added to the records of an
\* inventory, by a further container or analyzer, no capability becomes stronger, a
\* fallback stays told, failures stay counted, and a mechanism that is still named was
\* named before.  So a report on a part of the workers is never the weaker claim.
THEOREM MoreWorkersClaimLess ==
  ASSUME NEW few, NEW more, DOMAIN few # {}, DOMAIN few \subseteq DOMAIN more,
         IsFiniteSet(DOMAIN more),
         \A w \in DOMAIN few : more[w] = few[w],
         \A w \in DOMAIN more : more[w] \in RecordType
  PROVE  LET was == AggregateWorkerIsolation(few)
             is == AggregateWorkerIsolation(more)
         IN /\ \A c \in Capabilities :
                 CAPABILITY_STRENGTH[is.capabilities[c]] <= CAPABILITY_STRENGTH[was.capabilities[c]]
            /\ is.allLaunched => was.allLaunched
            /\ was.fallbackUsed => is.fallbackUsed
            /\ was.failedCount <= is.failedCount
            /\ is.mechanism \in Mechanisms \ {"none"} => was.mechanism = is.mechanism
<1>1. /\ AggregateWorkerIsolation(few) = Summary(few)
      /\ AggregateWorkerIsolation(more) = Summary(more)
  <2>1. DOMAIN more # {}
    OBVIOUS
  <2> QED BY <2>1 DEF AggregateWorkerIsolation
<1>2. ASSUME NEW c \in Capabilities
      PROVE  CAPABILITY_STRENGTH[Summary(more).capabilities[c]]
               <= CAPABILITY_STRENGTH[Summary(few).capabilities[c]]
  <2> DEFINE S == {few[w].capabilities[c] : w \in DOMAIN few}
             T == {more[w].capabilities[c] : w \in DOMAIN more}
  <2>1. \A w \in DOMAIN more : more[w].capabilities[c] \in States
    BY DEF RecordType
  <2>2. S # {} /\ S \subseteq T /\ T \in SUBSET States
    BY <2>1
  <2>3. Summary(few).capabilities[c] = Weakest(S) /\ Summary(more).capabilities[c] = Weakest(T)
    BY DEF Summary
  <2> HIDE DEF S, T
  <2>4. Weakest(S) \in S
    BY <2>2, WeakestIsMinimal
  <2>5. \A t \in T : CAPABILITY_STRENGTH[Weakest(T)] <= CAPABILITY_STRENGTH[t]
    BY <2>2, WeakestIsMinimal
  <2> QED BY <2>2, <2>3, <2>4, <2>5
<1>3. Summary(more).allLaunched => Summary(few).allLaunched
  BY DEF Summary, Launched
<1>4. Summary(few).fallbackUsed => Summary(more).fallbackUsed
  BY DEF Summary
<1>5. Summary(few).failedCount <= Summary(more).failedCount
  <2> DEFINE S == {w \in DOMAIN few : few[w].status \in FAILURES}
             T == {w \in DOMAIN more : more[w].status \in FAILURES}
  <2>1. S \subseteq T /\ IsFiniteSet(T)
    BY FS_Subset
  <2>2. Summary(few).failedCount = Cardinality(S) /\ Summary(more).failedCount = Cardinality(T)
    BY DEF Summary
  <2> HIDE DEF S, T
  <2> QED BY <2>1, <2>2, FS_Subset
<1>6. ASSUME Summary(more).mechanism \in Mechanisms \ {"none"}
      PROVE  Summary(few).mechanism = Summary(more).mechanism
  <2> DEFINE m == Summary(more).mechanism
  <2>1. "mixed" \notin Mechanisms
    BY MechanismAssumption
  <2>2. Uniform(more) /\ m = CHOOSE x \in Mechanisms : Used(more) = {x}
    BY <1>6, <2>1 DEF Summary
  <2>3. Launched(more) = DOMAIN more /\ Used(more) = {m} /\ m \in Mechanisms
    BY <2>2 DEF Uniform
  <2> HIDE DEF m
  <2>4. \A w \in DOMAIN few : few[w].launched /\ few[w].mechanism = m
    BY <2>3 DEF Launched, Used
  <2>5. Launched(few) = DOMAIN few /\ Used(few) = {m}
    BY <2>4 DEF Launched, Used
  <2>6. Uniform(few) /\ (CHOOSE x \in Mechanisms : Used(few) = {x}) = m
    BY <2>3, <2>5 DEF Uniform
  <2>7. Summary(few).mechanism = m
    BY <2>6 DEF Summary
  <2> QED BY <2>7 DEF m
<1> QED BY <1>1, <1>2, <1>3, <1>4, <1>5, <1>6
=============================================================================
