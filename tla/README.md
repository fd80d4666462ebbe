# exsoftware: specifications

TLA+ modules of *exsoftware*, the configurations TLC checks them with, and proofs
checked by TLAPS. Paths below are relative to `src/src/exsoftware/`.

exsoftware explains a file without executing it. It opens containers and runs its
parsers in short-lived child processes, because the bytes are hostile and the parsers
are not trusted. The parent trusts nothing a child says without checking it, and
assembles one report: artifacts, relationships, runs, findings, and a statement of how
well each run was contained. What is hard about it is not the parsing but everything
around it: two processes that know of each other only through files, pipes and exit
codes; timers that race answers; limits enforced twice; archives that contain themselves.

## 1. Inventory

| Part | Source | State it keeps | Operations | What makes it correct |
| --- | --- | --- | --- | --- |
| Worker run (Unix) | `isolate/runner.py`, `process.py`, `output.py`, `workspace.py`, `policy.py`, `unixcontain.py`, `bootstrap.py`; child: `worker.py` | workspace, pipes and drainers, process group, policy, published snapshot, `bootstrap.ack`, `response.json` | create, spawn, wait, terminate_tree, finish streams, ingest ACK, read response, tear down | claims of containment are backed; late answers are refused; nothing is left behind; the run ends |
| Container broker | `isolate/container_runner.py`, `container_extract.py`, `container_protocol.py`, `limits.py` | rows, blob slots, byte and member counters on both sides | list, extract, validate, re-count, attach | both accounts agree; limits hold against any worker; no member vanishes |
| OLE broker | `isolate/ole_runner.py`, `ole_refine.py`, `ole_protocol.py` | one answer | refine | as worker run |
| Recursion | `pipeline.py`, `recursion.py` | call stack, depth, `extra["container_inspected"]`, list of broker workers | open, refine, analyze, walk, record a limit | every content once; bounded nesting; what was left out is said |
| Investigation | `investigation.py`, `models.py` | artifacts, relationships, evidence, observations, findings, runs, abandoned runs, one lock | add, begin run, ingest result, abandon | ids unique; no result into the wrong run |
| Analyzer pool | `pipeline.py` (`_run_analyzers`, `_build_report`) | planned runs, futures, results by run id | plan, submit, collect, ingest, build the report | the report does not depend on who answers first; nothing outlives it; what stops it has a cause, and no order or limit is one |
| Isolation inventory | `isolate/inventory.py` | none | one record per worker, aggregate per capability | the weakest worker decides |
| Windows containment | `isolate/wincontain.py`, `winjob.py`, `winacl.py`, `process.py` | job object, suspended process, launch meta data, policy | choose the interpreter, launch in an AppContainer, fall back, assign, claim, terminate, close | a claim rests on what the launch gave; no process of the job outlives the run |
| Runtime staging, ACLs | `isolate/winruntime.py`, `acl_prep.py` | directories `<key>` and `<key>.staging` on disk, markers in them, a lock and a remembered failure per process | fingerprint, check, clear, grant, copy, mark, publish | what is published is what was built; a contained worker can read it |
| Probe evidence, status | `isolate/probe_evidence.py`, `network_capability.py`, `status.py`, `test_analyzers.py` | listeners, datagram receivers, the ready file, the probes' answers | bind, launch five probes, connect, drain, evaluate | "enforced" only of an operation that was attempted under containment and failed |
| Analyzer registry | `analyzers/registry.py`, `eligibility.py`, `loader.py` | a table | is_eligible | the same decision in parent and child |
| Format analyzers, rules, identification | `analyzers/*`, `rules/*`, `identify.py` | none | pure functions of bytes | parsers stay inside their input |
| Composition | `composition/*` | none | pure function of the report | what is unknown is not reported as absent |
| Front ends | `cli.py`, `api.py`, `ui/`, `summary.py` | upload buffer | argument parsing, rendering | limits reach the pipeline |

How they interact: a front end calls `pipeline.analyze_*`. The pipeline opens a
ZIP-family file with the container broker, an OLE file with the OLE broker, then runs all
eligible analyzers in a thread pool, each by one worker run; results are ingested into
the investigation in the pool's caller, one at a time; then the members the broker handed
back are walked and the same is done to each. Brokers and analyzers share the run
machinery (`process`, `output`, `workspace`, `bootstrap`). Parent and child share only
the workspace directory, two pipes, signals and the exit code.

The behaviours that are hard to test are listed, each at its line, under `hazards` in
`PROJECT.json`; the properties below are aimed at them.

## 2. Modules

### WorkerRun: one isolated worker run

The parent is a program counter `pc` that follows `IsolatedAnalyzerRunner.run` statement
by statement, through its `except` and `finally` branches and through `terminate_tree`
(`poll`, `sigterm`, `grace`, `killwait`, with `returnTo` as the return address). The
worker is a second process with a life of its own: it applies restrictions, writes the ACK
(partial, then whole: `tmp.replace`), opens the sample, may leave a descendant
(`helper`), writes its answer, and may crash, exit or stop anywhere. It may also answer
without opening the sample: when the analyzer's version is not the one asked for, `_run`
returns a well-formed failed result before it reads `input.bin` (`WriteAnswer` from
`"bootstrapped"`). The kernel delivers SIGKILL and end-of-file.

| Variable | Code |
| --- | --- |
| `policy`, `report` | `IsolationPolicy`, `isolation["capabilities"]` |
| `workspace`, `drain`, `writeEnd` | the temporary directory; `BoundedStream`'s thread, read end and write end (two pipes, one variable) |
| `timedOut`, `raised`, `outcome`, `evidence` | `rc is None`; past `except Exception`; `details["reason"]`; `bootstrap_ack["status"]` |
| `applied`, `ack`, `claims` | what the bootstrap did, `bootstrap.ack`, what it says |
| `sampleRead`, `response` | `input.bin` opened; `response.json` |
| `signals` | signals sent to worker and descendant and not yet acted on |

Everything a test hook or a broken test analyzer can do is an input (`Hooks`,
`AnswerRubbish`); what the host supports is one (`Hosts`).

`WorkerContract` is what a caller may rely on, in four actions: restrictions are put in
force, before the sample is opened and before an answer appears; an answer may appear with or
without the sample opened; then one verdict is published, the worker's own only if it gave an
answer, together with claims that are a subset of what is in force. `WorkerRun`
implements it (`ImplementsContract`) with the mapping at the end of the module.

### ContainerBroker: listing and extracting one container

The worker's loop over rows is one action per branch (`PassOver`, `StartMember`,
`MemberBreaks`, `CopyChunk`, `FinishMember`), chunk by chunk, because the byte limits
are checked per chunk. `blobs` is the directory `blobs/`. `names[j]` is whether row `j` names its
member in a way the parent takes (neither empty nor longer than `MAX_NAME_CHARS`, no NUL): the honest
worker sends the archive's names as they are, so one bad name makes `Validate` refuse the
whole answer. The parent's `Validate`, `IngestRow` and `Complete` follow `_ingest`. `AnswerRogue` answers anything at all. The
candidates handed to recursion (`SkipFor`, `CandidateFor`) are functions of the rows.

### Recursion: one report

The recursive calls are an explicit stack of frames. A content is an element of
`Contents`, because artifacts are keyed by SHA-256. A universe says what each content
is, so a content may contain itself. Runs of the archive analyzer are kept in order with
their status: `_ingest_limit` writes into the last of them, which must never be one whose
worker was started (`StartedRunKept`): its isolation record is what the inventory reads.

### AnalyzerPool and IsolationInventory: the analyzers of one file, and what is said of their workers

`AnalyzerPool` is `_run_analyzers` followed by the isolation part of `_build_report`. `pc`
follows the main thread; `job` and `answer` are the jobs and their futures. There are three ways the
jobs are done, as in the code: in this process (`RunLocal`), one worker after the other
(`StartInline`, `InlineReturns`), or by a thread pool (`Submit`, `TakeJob`, `JobReturns`,
`Collect`). The pool's threads already work while later jobs are submitted, and
`as_completed` yields in any order. One worker run is one step here, and its answer any
of `WorkerAnswers`: that it ends is what `WorkerRun` shows. `Ingest` is `ingest_result`
of the next run in registry order: the evidence of its findings, then what
`_emit_from_details` makes of its details (`AddToGraph`). A result whose details have another
shape than that function expects, which the validation of an answer lets through, makes it
raise, and the analysis ends there (`shaped`). An item of the details is either evidence of an
observation, or a relationship with or without evidence. `add_relationship` returns the
relationship that is there already when type, ends and extra are the same (`Links`): then
the evidence a later item brought is in the graph and nothing cites it. An interrupt of the
main thread takes effect at once outside the pool (`InterruptAlone`, the runner's `finally`
ends its worker) and inside it only after `shutdown(wait=True)` (`InterruptPool`, then
`Drained`), which does not cancel queued jobs.

| Variable | Code |
| --- | --- |
| `plan`, `isolate`, `limit` | eligibility of each spec; `limits.isolate_analyzers`, `limits.max_analyzer_workers` |
| `brokers` | `stats["broker_workers"]` |
| `results`, `runs`, `evidence`, `sections` | `results`, `Investigation.runs`, `Investigation.evidence`, the returned list |
| `relationships` | `Investigation.relationships` of this file's analyzers, by `Links`: the run that found each, and its evidence |
| `report` | `limits["isolation"]` of the report: `workers` and the summary |

`IsolationInventory` has the operators of `inventory.py`: `WorkerRecord`, and
`AggregateWorkerIsolation` over any set of them.

### RuntimeStaging and WinLaunch: a worker on Windows

A Windows worker runs from a copy of the interpreter that an AppContainer may read.
`RuntimeStaging` is `ensure_staged_cpython`: `call[t]` is where a thread is in it, one
action per step that another thread, another process or a crash can fall between. The key of a
tree is the fingerprint of the package, here a version; `Edit` makes a new one. A tree
is `exe` (the root files), `lib` (DLLs, Lib and the required site packages), the version of
the package in `app`, its two markers and its ACE. The function takes the fingerprint and checks the tree up to three times each, and the
model does so too, since an edit or another caller may come between any two of these.

| Variable | Code |
| --- | --- |
| `dest`, `staging` | `<key>` and `<key>.staging` under the runtime root, shared by all processes |
| `aclDone` | `acl-cache/<key>.done` |
| `lock`, `failed`, `hasSid` | `_LOCK`, `PROCESS_ACL_CACHE._failure`, whether `appcontainer_sid()` returns one; per process |
| `call` | the local state of `ensure_staged_cpython` and `stage_cpython_tree` |

`WinLaunch` makes the three calls of a run and takes their results: `child_env`, the
command, `prepare_appcontainer_paths`. Then come the launches in their order, each with its failure
(`CreateContained`, `CreateRestricted`, `CreateFallback`), `Assign` (which may fail and
leaves the worker running), `ApplyPolicy`, the wait, `TerminateTree` and `CloseJob`. `Crash`
ends a process at any point: memory and job handles go, the files stay. What the
worker does is not repeated from WorkerRun: it runs and ends.

Details that decide what may happen: `rmtree` is called with `ignore_errors`, promises no
order and skips what cannot be removed (a running worker has it open), so any entries may be left when it is
over, is interrupted, or is halfway (`Remains`: the sets of entries are the constant
`Leftovers`, and `Remove` takes any number of steps). The new copy is made over what is left in `staging`. Parts that are not there, or cannot
be listed, are passed over in silence and the tree is marked all the same (`PassOver`); `call[t].copied` is what the call
really copied. `os.replace` needs the target to be gone.

### ProbeEvidence and SecurityStatus: what the report says the system denies

`ProbeEvidence` has the evaluation functions of `probe_evidence.py` and
`network_capability.py` as operators under their own names. `SecurityStatus` is
`inspect_isolation`: the parent binds its sockets (`Bind`), runs four probing analyzers one
after the other (`ProbeRead`, `ProbeWrite`, `ProbeNetwork`, `ProbeSpawn`), then the listen
probe, in which parent and helper take turns in any order (`HelperBinds`, `HelperCloses`,
`HelperAnswers`, `HelperDies` against `ReadReady`, `NotReady`, `Connect`,
`WaitForHelper`), drains its datagrams and finalizes. Each worker has a launch of its own
(`LaunchesOf`): on Windows any mechanism in or out of a job, on Linux a policy before or
after its ACK.

`done` is what the workers really did, which the program cannot see: a probe that succeeds and
crashes before it answers leaves a mark there and nothing in its answer. `report` is
what the program concludes, and the properties relate the two.

## 3. What TLC checks

| Run | Instance | Question |
| --- | --- | --- |
| `worker_run` | two hosts (with and without network namespaces, each combined with the opposite of the other features), all nine hooks | type invariant, six safety invariants, `NoSignalAfterReap` over every interleaving (4.8 million states) |
| `worker_run_live` | one host, hooks none, crash, hang, fail_memory, skip_ack, truncated | the run ends; it implements the contract |
| `worker_run_descendants` | one host, no hook | *violated*: descendants are killed on timeout |
| `container_broker` | up to three members out of a set chosen for the limits, one with a name the parent refuses; several limit vectors on both sides of each boundary, two with limits of zero; chunk of 2 bytes; rogue rows over three slots (4.9 million states) | an honest answer is refused for a name or a listing limit of zero and for nothing else, and what is kept of it is what was extracted; the parent's own count holds against any worker |
| `recursion` | three contents, all archives of up to two members for two of them, depth caps 0 to 2 | each content once, bounded nesting, nothing left out, no started run overwritten (`StartedRunKept`); deadlock is checked |
| `analyzer_pool` | four analyzers, one to four of them jobs; limits 0, 1, 2, 8; four worker answers (contained, timed out and weaker, never launched, ill-shaped), two local ones, four lists of broker records | the report is a function of the answers; nothing outlives it; only an interrupt or the ill-shaped details ingested last prevent it; the inventory is complete and its summary honest; with isolated analyzers the analysis ends (233 thousand states); deadlock is checked |
| `win_worker` | two threads of one process, one edit or one crash, SID there or not, process limit 1; `rmtree` may leave the markers and `python.exe` behind; threads are symmetric (5.1 million states) | what is published is what its call built (`PublishedIsWhole`), a contained worker can read its tree, claims are backed, a job's processes end with the run; deadlock is checked |
| `win_two_processes` | one thread in each of two processes | *violated*: what is published is what its call built |
| `security_status` | both platforms, every combination of detected features, up to three deviations from full denial (1.9 million states) | "enforced" means attempted, contained and failed; an enforced network restriction rests on every channel, under one mechanism |
| `security_status_incomplete` | Windows, at most one deviation (an AppContainer token that is not confirmed for one worker suffices); on Linux none is needed | *violated*: incomplete evidence stays "degraded" |
| `recursion_completed`, `recursion_skipped` | one universe each | *violated*: "completed" means ran; "skipped" means already listed |

Why the bounds are enough. A run has one worker, and one descendant stands for any
number: they differ from each other in nothing the parent sees. Two hosts cover each
feature present and absent; hooks do not interact. The limits of the broker are compared
with sums, so sizes of a few chunks that fall below, on and above each limit cover the
comparisons; three members are needed for "fits, does not fit, fits again". Recursion
needs one content more than the depth cap to reach it, two members to have a duplicate
next to each other, and a content that is its own descendant; three contents give all of
these, with cycles of length one, two and three. For the pool the limit has to be below
one, one, below the number of jobs and above it; three or four jobs on two threads have one
running, one queued and one not yet submitted at the same time; the answers differ in each
field the summary reads, so that no worker's record can stand for another's. For staging, two
threads have one holder of the lock and one that checks or waits; a third would wait as
well. One edit makes two keys, so that the key a run names and the key it stages can
differ; edits are never undone, so a version is not met twice. `Leftovers` has the one set that
matters most, markers and `python.exe` without libraries and package, next to a complete removal; the theorems
hold for every choice of sets. The `VIEW` of `win_worker` drops the libraries and the package of
*published* trees: no action and no property but the step that publishes, which takes them from `staging`, reads them. One crash suffices to leave any intermediate state of the
directories to a fresh process. In SecurityStatus
`MaxTroubles` counts everything that is not as in a full denial: a weaker launch, a lost answer, a
connection that gets through, a helper that dies. A wrong "enforced" needs a success and something
that hides it, or two workers that differ; three leave one more.

`CHECK_DEADLOCK FALSE` is said of WorkerRun and ContainerBroker because a run ends. In
Recursion, AnalyzerPool, WinLaunch and SecurityStatus the end is the action `Finished`, so a stuck walk, or a main thread waiting for nobody, would be found.

### Fairness

In WorkerRun, `FairSpec` is weak fairness of the parent's next step, of
end-of-file reaching the drainers once nobody holds a write end, and of SIGKILL taking
effect. The parent is an ordinary thread; the kernel keeps the other two promises. The
worker and its descendant are never fair: `RunEnds` must hold for a worker that hangs.
In particular waiting ends because the timer fires, not because the worker answers.

In AnalyzerPool, `FairSpec` is weak fairness of the main thread, of each job being taken
by a thread of the pool, and of the end of each worker run, which is `RunEnds`. Not fair
are the interrupt and `RunLocal`: an analyzer in this process has no timer, so
`AnalysisEnds` is claimed for isolated analyzers only.

### Disagreements found

* `terminate_tree` sends SIGKILL to the group only if the *worker* outlives SIGTERM, and
  nothing if the worker had ended by the time it polls; a descendant may survive a
  timeout, which the reasons in `unixcontain.py` and `ISOLATE_PROTOCOL.md` deny.
* Two processes that stage into the same `<key>.staging`: one can publish a tree with success
  markers from which the other has removed the libraries; the docstring of `stage_cpython_tree` excludes it.
* `docs/SECURITY_MODEL.md` says that incomplete evidence stays `degraded`; in the report of
  `security-status` it becomes `unsupported`. The run shows it on Windows. On Linux the network restriction
  always does, because the listen probe never reads its worker's ACK; that is in the model but in no run.
* `_ingest_limit` records "completed" for archive runs that were skipped or never begun.
* After a container worker that failed or timed out, the archive analyzer is still
  skipped as "already listed".

## 4. What is proved

TLAPS checks the following for every value of the constants, from the named assumptions
on constants only (`HostsAssumption`, `HooksAssumption`; `EntriesAssumption`,
`BoundAssumption`, `LimitsAssumption`, `DefaultsAssumption`, `RogueAssumption`; the others are
named with their module). Every invariant that a passing run checks is a theorem, and so are the
action property of each run and the refinement.

`WorkerRunProofs`. `IInv` is inductive. It adds to type correctness what the properties
need and none of them says: an ACK that is whole is frozen and says what the hook let the
worker attest (`AckFrozen`); an enforced capability rests on a readable, consistent claim
(`ClaimBacked`, of the policy *and* of the snapshot, since the snapshot is copied); where
the parent stands tells what it knows of the worker (`ParentKnows`); from the end of
`terminate_tree` on a live worker has SIGKILL coming (`KillComing`); an answer, with or
without the sample opened, comes after the restrictions were tried (`AnswerOrder`). One step per action, grouped by the conjunct it can
disturb. From it follow all seven invariants, `NoSignalAfterReap`, and `Refinement`:
`Spec => ImplementsContract`, by mapping each step to a contract step or a stutter
(for `pc = "done"` the verdict step needs `VerdictReady` and `ClaimBacked(report)`).

`ContainerBrokerProofs`. `IInv` says that the parent's rows follow an answer that passed
validation and no longer changes (`ListedFollowsRows`) and that what is kept was
counted (`KeptWasCounted`). `KeptWithinLimits` is immediate; `SlotUsedOnce` needs a
lemma about `ValidMember`: the number of extracted rows before a row grows strictly, so
two rows with the same slot are the same row.

`HonestWorkerProofs` covers what is promised of `container_extract` itself. These properties
speak of sums and of sets of files, and of two counts made by two processes at different
times; none is inductive. `HInv` adds to `IInv` what ties them together. `HonestFiles`:
slots are filled one after the other, so the files are `1..extractedCount`, plus the member
being copied, and the bytes on disk are a running total over slot numbers (a worker that
dies may leave that member behind; one that rejects it may not). `HonestRows`: the rows
carry the archive's names as they are and their slots are in the parent's order (`SlotInOrder`), the
extracted rows name each slot once, and the rows not yet reached still say "skipped". `HonestCount`: the parent's `budget` is the
total of the slots it has taken up, which is never more than what the worker had on disk;
so the parent's own count rejects nothing, where the parent's byte limits are above zero (the worker
takes a zero for its default). The answer as a whole fails exactly if it is `Refused`: for a name the
parent does not take, or for more rows than a listing limit of zero allows.
`ListedToTheEnd` and `OpenIsUntouched` tie the ends together. From it follow
`DiskWithinBudget`, `HonestAnswerKept`, `SlotsMatchFiles` and `NothingLostSilently`. TLC
checked `HInv` on the instance of `container_broker` before it was proved.

`SumLemmas` has what these proofs need of `SumFunctionOnSet`, the fold of the community
module `Functions`: it may be taken apart at any element (`SumPart`: the order of the fold
does not matter), depends on the summed values only, grows with the set, and is a running
total over `1..k` (`SumUpTo`). The library's induction theorems take an operator as a parameter,
which the provers cannot instantiate. `SubsetInduction` states induction over
the subsets of a finite set with a *set* of subsets in the place of the predicate, which is
first-order. It rests on the library's well-foundedness of the strict subset order.

`RecursionProofs` (from `ContentsAssumption`, `RootAssumption`, `UniverseAssumption`, `DepthAssumption`). The
run checks three contents and caps up to 2; the theorems hold for any contents, cyclic
ones too, and any cap, and cover every property the run checks. `IInv` is proved in layers.
`CallInv` ties the stack to the report: the frame at depth d is the d-th call; all calls
but the innermost are walking, each another file; a frame with members left was listed,
below the cap, by a container worker that completed (`WalkedWasOpened`), which is why
nesting is bounded; the artifacts are those analyzed plus the one under way
(`KnownOrAnalyzed`), which is why a content cannot be met again while it is in progress.
On it stand three more: a started run belongs to an analyzed file whose frames are not
covered by the container worker, so no finding is ever noted in it (`StartedUncovered`);
a ZIP is explained unless its own call is just about to open it (`ExplainedOnceOpened`,
with `FirstOpening`); and the relationships are exactly the edges of the members the walk
has passed (`LinkedSoFar`), which at the end are all members. `LinkedChange` says how that
set grows, step by step.
Two theorems go beyond the run. `EachOpenedOnce`: no content is given to a broker's worker
twice. `AnalysesRunDown`: every step lowers `WorkLeft`, a natural number, so that no analysis
goes on for ever, of archives that contain themselves neither; that none is stuck before its
end is the deadlock check of `recursion`.
`WorkLeft` is one sum over the contents not met yet and one over the calls in progress;
entering a member takes its content out of the first and puts a little less into the second.

`AnalyzerPoolProofs` (from `CountAssumption`, `PlanAssumption`, `LimitAssumption`,
`AnswerAssumption`, `LinkAssumption`, `BrokerAssumption`, `MechanismAssumption`) covers every safety
property of `analyzer_pool`, for any number of analyzers, any integer limit, any answers
and any brokers. `IInv` has four layers. `PoolInv` says what each state of a job implies
for its future and its result, and where the main thread can be then: once it ingests,
every job has the result of its own future. `IngestInv` says that what has been
ingested is the prefix of the registry of length `Len(sections)`; that the evidence of a
run has the numbers that follow the total of all runs before it (`EvidenceUpTo`, a sum
over the registry that does not mention the order of the answers); and that each
relationship belongs to the first run that gives it, with the evidence of that run's first
item for it (`RelationshipsIngested`). `CauseInv` says what was ill-shaped up to now: nothing, or
the result ingested last, and then the analysis has raised; `StopsWithCause` follows. `ReportInv` says that the
report is the inventory of these runs. `PoolIsBounded` needs cardinalities as well (a
thread starts a job only below `Workers`); `WeakestDecides` needs that a non-empty set of
states has a weakest one (`WeakestIsMinimal`), and `InventoryRecords` that the
records are what brokers and runners said. `MoreWorkersClaimLess` is about the aggregate
alone: adding workers to an inventory strengthens no capability, names no mechanism that
was not named before, and hides no fallback and no failure.

`WinLaunchProofs` (from `OwnerAssumption`, `EditsAssumption`, `ThreadAssumption`,
`CrashAssumption`, `ProcessLimitAssumption`) covers every property of `win_worker`, for any number of
threads, edits, crashes and any process limit. `TypeCorrect` and `JobBounds` hold for any number
of processes. The other three are proved where all threads belong to one process
(`OneProcess`, an assumption of the theorem and not of the model): with two they are
not all true, which `win_two_processes` shows. They hold whatever `rmtree` leaves (`Leftovers` is any
set of sets of entries). `IInv` has three parts. `LockHeld`: who is in a locked step holds the
lock of its process. `StagingInv`: what the thread in the lock has copied so far is in its tree
(`Built`: nobody else touches it), a call that has returned is about a tree that can be
read (`ReadsOK`), and only a tree with the ACE has the ACL marker (`Granted`). `RunInv`: what a run knows of its worker
(`Knows`) is so until it is over. No theorem says that a marked tree is complete: it need not be (section 5).

`SecurityStatusProofs` (from `PlatformAssumption`, `TroubleAssumption`) covers every property of
`security_status`, for any bound on the troubles. `ProbesTell` and `ListenTells` say which
answers of a probe leave it open that the operation took place; the evaluation operators are then
expanded once, in `Finalize`, where all must be answers that do not.

Only model-checked: liveness under fairness (`RunEnds`, `AnalysisEnds`) and with it
everything that needs ENABLED, so also that no module deadlocks. The disagreements
of section 3 are shown by TLC's counterexamples.

## 5. What is left out, and assumptions

* Composition, rules, parsers, front ends, the OLE broker: `PROJECT.json` gives a reason for each.
* In WinLaunch how a token is restricted or its integrity lowered is not modelled (a launch succeeds or
  fails), nor are `PYTHONHOME` and a job's memory and CPU limits. Whether a job object can be had is decided when it is
  first used (`JobsOf`). A worker outside the job is not followed after its run. Whether
  there is a SID is fixed for the life of a process. The base interpreter counts as
  readable. `success_keys` and `_GRANTED_PREFIXES` never hold more than the `.done` markers and
  are left out; *what* failed is not remembered in `failed`.
* In RuntimeStaging a tree with its markers may be incomplete, in one process too, and the model has both ways: a part that
  is not there or cannot be listed is passed over in silence and the tree is marked; and after `rmtree` of
  `<key>` was interrupted, or skipped a file in use and `os.replace` failed, markers and `python.exe` may be left without
  the libraries, and the next call takes the tree, since only these are looked at. The docstring of
  `stage_cpython_tree` speaks of grants that fail and promises no more than that, so no property calls this
  a violation; `PublishedIsWhole` is about the step that publishes. A worker that finds no libraries
  ends early, which is one of its ends.
* In SecurityStatus connecting and sending is one step, `Connected` or `Refused`: a connection that was
  accepted and broke before the datum was sent is refused, as in the code, which has both in one `try`. Nothing came of
  such a connection, so `done.channels` does not have it. Like a listener that is alive and slow, it is promoted to a denial by a
  helper that ends well, and `NetworkEnforcedIsProbed` does not notice; it notices a listener that died.
* In SecurityStatus an operation that was denied and one that failed of itself are not told apart,
  as in the code. A spawned child that does not end in time counts as denied there; it is left
  out of `EnforcedMeansFailed`. IPv4 and IPv6 are two members of `Families`.
* `bootstrap.ack` is written by the worker's own code only. A parser that overwrites it
  later is what `docs/SECURITY_MODEL.md` excludes; the hook `contradict` stands for a
  worker that lies during its bootstrap.
* Applying the restrictions is one step; a crash in the middle counts as a crash before.
* The five-second join of a drainer expires only while another process holds the pipe;
  end-of-file is delivered in time otherwise.
* The container and OLE runners are `run` with another answer; their tear-down is not
  modelled a second time.
* A rogue container worker is explored from the empty archive: its answer does not
  depend on the archive.
* In Recursion the analyzers other than `archive` are one step, the root is not
  truncated, and analyzers are isolated (the in-process mode is in AnalyzerPool).
* In AnalyzerPool there is at most one interrupt: a second one, during the shutdown of the
  pool, is not modelled. The main thread is interrupted before or after a step of
  `_run_analyzers`, not inside the investigation's own calls. Each finding has one item of evidence.
  The items of an ill-shaped answer are those before the one that raises; where that is does not matter to what is
  stated. Observations are not numbered, named
  artifacts are there only as the ends of relationships, and the names and metadata that
  are merged into an artifact are left out. The graph is empty when the analyzers of a file begin:
  a relationship between named artifacts that an earlier file gave already is not
  followed. Analyzers may share any link, although the keys of today's analyzers never coincide. `Investigation`'s lock is not needed in this model: only the
  main thread writes, after the pool is gone. `abandon` has no caller in `src/`.
* Inventory records are keyed by worker; their order decides nothing in the summary.

## 6. Plan

Done: WorkerRun, WorkerContract, WorkerRunProofs; ContainerBroker, ContainerBrokerProofs,
HonestWorkerProofs, SumLemmas; Recursion, RecursionProofs; IsolationInventory, AnalyzerPool
(with emission from details), AnalyzerPoolProofs; RuntimeStaging, WinLaunch,
WinLaunchProofs; ProbeEvidence, SecurityStatus, SecurityStatusProofs. To do, in this order:

1. BoundedStream: drainer, `finish` and file-descriptor numbers, two streams at a time;
   the descriptor that is reused under an abandoned drainer.
2. A composition of Recursion and ContainerBroker: the bytes of a whole report, from
   `EachOpenedOnce` and `KeptWithinLimits`.
3. WinLaunch against WorkerContract, as WorkerRun; it needs what the worker does.
4. Composition and completeness as operators over small reports, checked against a
   reference; identification; the OLE broker.

To prove next: that the graph of one file does not change when its analyzers run
alone instead of in a pool, as a refinement of a sequential specification; and which of the
theorems of WinLaunchProofs survive several processes with keys of their own.

Runs are few on purpose, one per question.
