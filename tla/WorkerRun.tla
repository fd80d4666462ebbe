------------------------------ MODULE WorkerRun ------------------------------
(***************************************************************************)
(* One run of an isolated worker on Unix: the parent's side of             *)
(* IsolatedAnalyzerRunner.run (isolate/runner.py; the container and OLE    *)
(* runners have the same shape), the worker process it spawns              *)
(* (isolate/worker.py), a descendant the worker may have forked, and the   *)
(* kernel that delivers signals and end-of-file between them.              *)
(*                                                                         *)
(* The parent never trusts the worker.  It reports a restriction as        *)
(* "enforced" only from a validated bootstrap ACK, believes an answer only *)
(* when the worker ended by itself, and tears the run down whatever        *)
(* happened.                                                               *)
(***************************************************************************)
CONSTANTS
  Hosts,   \* what parent-side feature detection may find (describe_unix_support)
  Hooks    \* the bootstrap test hooks the worker may be started with

Flags == {"landlock", "unshare_net", "rlimit"}

AllHooks == {"none", "crash", "hang", "unsupported_filesystem", "fail_memory",
             "skip_ack", "malformed", "truncated", "contradict"}

ASSUME HostsAssumption == Hosts \subseteq [Flags -> BOOLEAN]
ASSUME HooksAssumption == Hooks \subseteq AllHooks

CAPABILITIES ==
  {"process_boundary", "process_tree_limit", "filesystem_restriction",
   "network_restriction", "memory_limit", "cpu_limit", "wall_clock",
   "output_limit", "temporary_storage", "process_creation"}

CapabilityState == {"enforced", "degraded", "unsupported", "failed"}

(***************************************************************************)
(* The four capabilities an ACK speaks about (CAPABILITY_BY_ACK_KEY; ACK   *)
(* results are indexed by the capability here) and the host feature each   *)
(* of them needs.                                                          *)
(***************************************************************************)
PROMOTABLE == {"filesystem_restriction", "network_restriction", "memory_limit", "cpu_limit"}
AckState == {"applied", "unsupported", "failed"}

SupportFlag ==
  [filesystem_restriction |-> "landlock", network_restriction |-> "unshare_net",
   memory_limit |-> "rlimit", cpu_limit |-> "rlimit"]

VARIABLES
  pc,         \* where the parent is in run()
  returnTo,   \* where terminate_tree returns to
  raised,     \* the parent is past its "except Exception" branch
  timedOut,   \* wait_or_timeout returned None
  workspace,  \* the run's temporary directory
  policy,     \* IsolationPolicy: capability -> state
  report,     \* isolation["capabilities"], the snapshot that is published
  evidence,   \* isolation["bootstrap_ack"]["status"]
  outcome,    \* the reason of the result, "child_result" when it is the child's
  writeEnd,   \* the parent still holds the write ends of the two pipes
  drain,      \* the two drainer threads and their read ends
  host, hook, \* this run's host features and test hook
  worker,     \* the worker process
  exitcode,   \* how it ended
  applied,    \* what the bootstrap really did, restriction by restriction
  ack,        \* bootstrap.ack in the workspace ...
  claims,     \* ... and what it claims
  sampleRead, \* the worker has opened input.bin
  response,   \* response.json in the workspace
  helper,     \* a descendant of the worker, in the same process group
  signals     \* signals sent to each of the two and not yet acted on

termVars == <<returnTo, timedOut>>
reportVars == <<policy, report>>
verdictVars == <<raised, evidence, outcome>>
pipeVars == <<writeEnd, drain>>
setting == <<host, hook>>
files == <<applied, ack, claims, sampleRead, response>>
childVars == <<worker, exitcode, files, helper>>
parentVars == <<pc, termVars, reportVars, verdictVars, workspace, writeEnd>>
vars == <<parentVars, drain, setting, childVars, signals>>

-----------------------------------------------------------------------------
(* Types *)

ParentPC == {"create", "request", "pipes", "start", "spawn", "wait", "poll",
             "sigterm", "grace", "killwait", "finish", "join", "ack", "read",
             "except", "finally", "remove", "done"}

WorkerState == {"none", "boot", "applied", "acking", "bootstrapped", "parsing",
                "answering", "answered", "exited", "reaped"}

ResponseState == {"none", "partial", "whole", "empty", "oversized", "garbled",
                  "rejected", "reparse"}

Outcome == {"pending", "interrupted", "child_result", "timeout", "spawn_failed",
            "child_crashed", "child_exited", "empty_response",
            "oversized_response", "invalid_response"}

TypeOK ==
  /\ pc \in ParentPC
  /\ returnTo \in {"finish", "remove"}
  /\ raised \in BOOLEAN /\ timedOut \in BOOLEAN /\ writeEnd \in BOOLEAN
  /\ workspace \in {"absent", "present", "removed", "left"}
  /\ policy \in [CAPABILITIES -> CapabilityState]
  /\ report \in [CAPABILITIES -> CapabilityState \cup {"unset"}]
  /\ evidence \in {"unread", "missing", "timeout", "crash_before_ack",
                   "malformed", "truncated", "contradictory", "ok"}
  /\ outcome \in Outcome
  /\ drain \in {"off", "pipes", "draining", "eof", "closed", "abandoned"}
  /\ host \in [Flags -> BOOLEAN] /\ hook \in Hooks
  /\ worker \in WorkerState
  /\ exitcode \in {"none", "exit", "crash"}
  /\ applied \in [PROMOTABLE -> AckState \cup {"untried"}]
  /\ ack \in {"none", "partial", "malformed", "truncated", "whole"}
  /\ claims \in [PROMOTABLE -> AckState \cup {"untried"}]
  /\ sampleRead \in BOOLEAN
  /\ response \in ResponseState
  /\ helper \in {"none", "alive", "dead"}
  /\ signals \in [{"worker", "helper"} -> SUBSET {"TERM", "KILL"}]

-----------------------------------------------------------------------------
(* Helpers *)

WorkerAlive == worker \notin {"none", "exited", "reaped"}

\* Somebody other than the parent holds a write end of the output pipes.
HeldByProcess == WorkerAlive \/ helper = "alive"

Untried == [c \in PROMOTABLE |-> "untried"]

\* policy.establish / policy.fail on a set of capabilities.
Establish(p, caps) == [c \in CAPABILITIES |-> IF c \in caps THEN "enforced" ELSE p[c]]
Fail(p, caps) == [c \in CAPABILITIES |-> IF c \in caps THEN "failed" ELSE p[c]]

\* Mutant: what the kernel supports is taken as what the worker will apply.
MutantOptimisticPolicy(p, h) ==
  [c \in CAPABILITIES |->
     IF c \in PROMOTABLE /\ h[SupportFlag[c]] THEN "enforced" ELSE p[c]]

(***************************************************************************)
(* What the parent may claim once Popen has returned: the session exists,  *)
(* everything the worker still has to apply is at best "degraded".         *)
(***************************************************************************)
ApplyUnixPolicy(p, h) ==
  [c \in CAPABILITIES |->
     IF c = "process_tree_limit" THEN "enforced"
     ELSE IF c = "process_creation" THEN "degraded"
     ELSE IF c \in PROMOTABLE THEN IF h[SupportFlag[c]] THEN "degraded" ELSE "unsupported"
     ELSE p[c]]

AckContradictions(results, h) ==
  {c \in PROMOTABLE : results[c] = "applied" /\ ~h[SupportFlag[c]]}

\* Mutant: the ACK's own words are copied into the policy.
MutantVerbatimAck(p, results) ==
  [c \in CAPABILITIES |-> IF c \in PROMOTABLE THEN results[c] ELSE p[c]]

ApplyValidatedAck(p, results) ==
  [c \in CAPABILITIES |->
     IF c \notin PROMOTABLE THEN p[c]
     ELSE IF results[c] = "applied" THEN "enforced"
     ELSE IF results[c] = "unsupported" THEN "unsupported" ELSE "failed"]

\* Mutant: a complete ACK is believed against the host's features.
MutantTrustingStatus == IF ack = "whole" THEN "ok" ELSE "missing"

AckStatus ==
  IF ack \in {"none", "partial"}
  THEN IF timedOut THEN "timeout"
       ELSE IF exitcode = "crash" THEN "crash_before_ack" ELSE "missing"
  ELSE IF ack \in {"malformed", "truncated"} THEN ack
  ELSE IF AckContradictions(claims, host) # {} THEN "contradictory" ELSE "ok"

\* The reason each kind of response.json leads to.
ReasonFor ==
  [whole |-> "child_result", oversized |-> "oversized_response",
   empty |-> "empty_response", garbled |-> "invalid_response",
   rejected |-> "invalid_response", reparse |-> "invalid_response"]

ResponseOutcome ==
  IF response \notin {"none", "partial"} THEN ReasonFor[response]
  ELSE IF exitcode = "crash" THEN "child_crashed" ELSE "child_exited"

-----------------------------------------------------------------------------
(* The parent: setting the run up *)

Init ==
  /\ pc = "create" /\ returnTo = "finish"
  /\ raised = FALSE /\ timedOut = FALSE /\ writeEnd = FALSE
  /\ workspace = "absent"
  /\ policy = [c \in CAPABILITIES |-> "unsupported"]
  /\ report = [c \in CAPABILITIES |-> "unset"]
  /\ evidence = "unread" /\ outcome = "pending" /\ drain = "off"
  /\ host \in Hosts /\ hook \in Hooks
  /\ worker = "none" /\ exitcode = "none"
  /\ applied = Untried /\ ack = "none" /\ claims = Untried
  /\ sampleRead = FALSE /\ response = "none" /\ helper = "none"
  /\ signals = [p \in {"worker", "helper"} |-> {}]

CreateWorkspace ==
  /\ pc = "create"
  /\ \/ /\ workspace' = "present"
        /\ policy' = Establish(policy, {"temporary_storage"})
        /\ pc' = "request"
     \/ /\ policy' = Fail(policy, {"temporary_storage"})
        /\ pc' = "except"
        /\ UNCHANGED workspace
  /\ UNCHANGED <<termVars, report, verdictVars, pipeVars, setting, childVars, signals>>

\* input.bin and request.json; any write may raise.
WriteRequest ==
  /\ pc = "request"
  /\ pc' \in {"pipes", "except"}
  /\ UNCHANGED <<termVars, reportVars, verdictVars, workspace, pipeVars, setting,
                 childVars, signals>>

CreateOutputStreams ==
  /\ pc = "pipes"
  /\ \/ /\ drain' = "pipes" /\ writeEnd' = TRUE /\ pc' = "start"
        /\ UNCHANGED policy
     \/ /\ policy' = Fail(policy, {"output_limit"}) /\ pc' = "except"
        /\ UNCHANGED pipeVars
  /\ UNCHANGED <<termVars, report, verdictVars, workspace, setting, childVars, signals>>

StartDrainers ==
  /\ pc = "start"
  /\ \/ /\ drain' = "draining" /\ pc' = "spawn"
        /\ policy' = Establish(policy, {"output_limit"})
     \/ /\ drain' \in {"pipes", "draining"} /\ pc' = "except"
        /\ policy' = Fail(policy, {"output_limit"})
  /\ UNCHANGED <<termVars, report, verdictVars, workspace, writeEnd, setting,
                 childVars, signals>>

SpawnWorker ==
  /\ pc = "spawn"
  /\ \/ /\ worker' = "boot" /\ writeEnd' = FALSE /\ pc' = "wait"
        /\ policy' = Establish(ApplyUnixPolicy(policy, host),
                               {"process_boundary", "wall_clock"})
        /\ report' = policy'
     \/ /\ policy' = Fail(policy, {"process_boundary", "wall_clock"})
        /\ pc' = "except"
        /\ UNCHANGED <<worker, writeEnd, report>>
  /\ UNCHANGED <<termVars, verdictVars, workspace, drain, setting, exitcode, files,
                 helper, signals>>

-----------------------------------------------------------------------------
(* The parent: waiting, and terminate_tree *)

\* waitpid succeeds: the zombie is reaped and its pid is free from here on.
Reap(next) ==
  /\ worker = "exited"
  /\ worker' = "reaped"
  /\ pc' = next

WaitReturns ==
  /\ pc = "wait"
  /\ Reap("finish")
  /\ UNCHANGED <<termVars, reportVars, verdictVars, workspace, pipeVars, setting,
                 exitcode, files, helper, signals>>

\* TimeoutExpired; the worker may have ended since the last waitpid.
WaitTimesOut ==
  /\ pc = "wait"
  /\ timedOut' = TRUE /\ returnTo' = "finish" /\ pc' = "poll"
  /\ UNCHANGED <<reportVars, verdictVars, workspace, pipeVars, setting, childVars, signals>>

\* KeyboardInterrupt while waiting: no except branch catches it, "finally" runs.
WaitInterrupted ==
  /\ pc = "wait"
  /\ outcome' = "interrupted" /\ pc' = "finally"
  /\ UNCHANGED <<termVars, reportVars, raised, evidence, workspace, pipeVars, setting,
                 childVars, signals>>

\* Mutant: the outcome of poll() is not looked at.
MutantPollIgnored ==
  /\ pc = "poll" /\ pc' = "sigterm"
  /\ worker' = IF worker = "exited" THEN "reaped" ELSE worker
  /\ UNCHANGED <<termVars, reportVars, verdictVars, workspace, pipeVars, setting,
                 exitcode, files, helper, signals>>

\* terminate_tree polls first and does nothing for a worker that has exited.
PollBeforeSignal ==
  /\ pc = "poll"
  /\ \/ Reap(returnTo)
     \/ WorkerAlive /\ pc' = "sigterm" /\ UNCHANGED worker
  /\ UNCHANGED <<termVars, reportVars, verdictVars, workspace, pipeVars, setting,
                 exitcode, files, helper, signals>>

\* os.killpg(proc.pid, s): every live member of the group gets the signal.
SignalGroup(s) ==
  signals' = [p \in {"worker", "helper"} |->
                IF (p = "worker" /\ WorkerAlive) \/ (p = "helper" /\ helper = "alive")
                THEN signals[p] \cup {s} ELSE signals[p]]

SendSigterm ==
  /\ pc = "sigterm"
  /\ SignalGroup("TERM")
  /\ pc' = "grace"
  /\ UNCHANGED <<termVars, reportVars, verdictVars, workspace, pipeVars, setting, childVars>>

\* wait_or_timeout(proc, escalate_after), and SIGKILL only when it times out.
GraceEnds ==
  /\ pc = "grace"
  /\ \/ Reap(returnTo) /\ UNCHANGED signals
     \/ SignalGroup("KILL") /\ pc' = "killwait" /\ UNCHANGED worker
  /\ UNCHANGED <<termVars, reportVars, verdictVars, workspace, pipeVars, setting,
                 exitcode, files, helper>>

KillWaitEnds ==
  /\ pc = "killwait"
  /\ \/ Reap(returnTo)
     \/ pc' = returnTo /\ UNCHANGED worker
  /\ UNCHANGED <<termVars, reportVars, verdictVars, workspace, pipeVars, setting,
                 exitcode, files, helper, signals>>

-----------------------------------------------------------------------------
(* The parent: collecting the run's evidence *)

\* BoundedStream.finish, first half: the parent drops its own write ends.
CloseWriteEnds ==
  /\ pc = "finish"
  /\ writeEnd' = FALSE /\ pc' = "join"
  /\ UNCHANGED <<termVars, reportVars, verdictVars, workspace, drain, setting,
                 childVars, signals>>

\* Mutant: the write ends stay open when spawning failed.
MutantPipesForgotten ==
  /\ pc = "except"
  /\ raised' = TRUE /\ report' = policy /\ outcome' = "spawn_failed" /\ pc' = "join"
  /\ UNCHANGED <<termVars, policy, evidence, workspace, pipeVars, setting, childVars,
                 signals>>

(***************************************************************************)
(* "except Exception": the snapshot is taken again from the policy, then   *)
(* the streams are finished; the worker is only dealt with in "finally".   *)
(***************************************************************************)
HandleException ==
  /\ pc = "except"
  /\ raised' = TRUE /\ report' = policy /\ outcome' = "spawn_failed"
  /\ writeEnd' = FALSE /\ pc' = "join"
  /\ UNCHANGED <<termVars, policy, evidence, workspace, drain, setting, childVars, signals>>

\* Mutant: thread.join() without a timeout.
MutantJoinForever ==
  /\ pc = "join" /\ drain # "draining"
  /\ drain' = IF drain \in {"pipes", "eof"} THEN "closed" ELSE drain
  /\ pc' = IF raised THEN "finally" ELSE "ack"
  /\ UNCHANGED <<termVars, reportVars, verdictVars, workspace, writeEnd, setting,
                 childVars, signals>>

\* Second half: join the drainer, for at most five seconds, and close.
JoinDrainers ==
  /\ pc = "join"
  /\ \/ /\ drain \in {"off", "closed", "abandoned"}
        /\ UNCHANGED drain
     \/ /\ drain \in {"pipes", "eof"}
        /\ drain' = "closed"
     \/ /\ drain = "draining"
        /\ writeEnd \/ HeldByProcess
        /\ drain' = "abandoned"
  /\ pc' = IF raised THEN "finally" ELSE "ack"
  /\ UNCHANGED <<termVars, reportVars, verdictVars, workspace, writeEnd, setting,
                 childVars, signals>>

\* Mutant: the response is read even when the timer has fired.
MutantTimeoutIgnored ==
  /\ pc = "ack"
  /\ evidence' = AckStatus
  /\ policy' = IF AckStatus = "ok" THEN ApplyValidatedAck(policy, claims) ELSE policy
  /\ report' = policy' /\ pc' = "read"
  /\ UNCHANGED <<termVars, raised, outcome, workspace, pipeVars, setting, childVars, signals>>

\* Mutant: the snapshot is not taken again after the promotion.
MutantStaleSnapshot ==
  /\ pc = "ack"
  /\ evidence' = AckStatus
  /\ policy' = IF AckStatus = "ok" THEN ApplyValidatedAck(policy, claims) ELSE policy
  /\ IF timedOut THEN outcome' = "timeout" /\ pc' = "finally"
                 ELSE pc' = "read" /\ UNCHANGED outcome
  /\ UNCHANGED <<termVars, report, raised, workspace, pipeVars, setting, childVars, signals>>

IngestBootstrapAck ==
  /\ pc = "ack"
  /\ evidence' = AckStatus
  /\ policy' = IF AckStatus = "ok" THEN ApplyValidatedAck(policy, claims) ELSE policy
  /\ report' = policy'
  /\ IF timedOut THEN outcome' = "timeout" /\ pc' = "finally"
                 ELSE pc' = "read" /\ UNCHANGED outcome
  /\ UNCHANGED <<termVars, raised, workspace, pipeVars, setting, childVars, signals>>

ReadResponse ==
  /\ pc = "read"
  /\ outcome' = ResponseOutcome
  /\ pc' = "finally"
  /\ UNCHANGED <<termVars, reportVars, raised, evidence, workspace, pipeVars, setting,
                 childVars, signals>>

\* Reading what the worker left behind raised something unforeseen.
ReadRaises ==
  /\ pc \in {"ack", "read"}
  /\ pc' = "except"
  /\ UNCHANGED <<termVars, reportVars, verdictVars, workspace, pipeVars, setting,
                 childVars, signals>>

\* Mutant: only workers that have exited are dealt with.
MutantNoTerminate ==
  /\ pc = "finally" /\ pc' = "remove" /\ returnTo' = "remove"
  /\ worker' = IF worker = "exited" THEN "reaped" ELSE worker
  /\ UNCHANGED <<timedOut, reportVars, verdictVars, workspace, pipeVars, setting,
                 exitcode, files, helper, signals>>

FinallyTerminate ==
  /\ pc = "finally"
  /\ \/ worker \in {"none", "reaped"} /\ pc' = "remove" /\ UNCHANGED worker
     \/ Reap("remove")
     \/ WorkerAlive /\ pc' = "poll" /\ UNCHANGED worker
  /\ returnTo' = "remove"
  /\ UNCHANGED <<timedOut, reportVars, verdictVars, workspace, pipeVars, setting,
                 exitcode, files, helper, signals>>

\* rmtree_retry gives up after twenty attempts.
RemoveWorkspace ==
  /\ pc = "remove"
  /\ workspace' \in IF workspace = "absent" THEN {"absent"} ELSE {"removed", "left"}
  /\ pc' = "done"
  /\ UNCHANGED <<termVars, reportVars, verdictVars, pipeVars, setting, childVars, signals>>

Parent ==
  \/ CreateWorkspace \/ WriteRequest \/ CreateOutputStreams \/ StartDrainers
  \/ SpawnWorker \/ WaitReturns \/ WaitTimesOut \/ WaitInterrupted
  \/ PollBeforeSignal \/ SendSigterm \/ GraceEnds \/ KillWaitEnds
  \/ CloseWriteEnds \/ HandleException \/ JoinDrainers \/ IngestBootstrapAck
  \/ ReadResponse \/ ReadRaises \/ FinallyTerminate \/ RemoveWorkspace

-----------------------------------------------------------------------------
(* The worker process *)

\* What each restriction can turn out to be on this host (apply_unix_restrictions).
BootstrapResults ==
  {r \in [PROMOTABLE -> AckState] :
     /\ \A c \in PROMOTABLE : ~host[SupportFlag[c]] => r[c] = "unsupported"
     /\ host["unshare_net"] => r["network_restriction"] # "unsupported"}

ApplyRestrictions ==
  /\ worker = "boot" /\ hook \notin {"crash", "hang"}
  /\ applied' \in BootstrapResults
  /\ worker' = "applied"
  /\ UNCHANGED <<parentVars, drain, setting, exitcode, ack, claims, sampleRead, response,
                 helper, signals>>

\* The results as the hooks let the worker attest them.
AttestedResults ==
  IF hook = "contradict" THEN [c \in PROMOTABLE |-> "applied"]
  ELSE IF hook = "unsupported_filesystem"
       THEN [applied EXCEPT !["filesystem_restriction"] = "unsupported"]
  ELSE IF hook = "fail_memory" THEN [applied EXCEPT !["memory_limit"] = "failed"]
  ELSE applied

WriteAck ==
  /\ worker = "applied"
  /\ \/ /\ hook = "skip_ack"
        /\ worker' = "bootstrapped" /\ UNCHANGED ack
     \/ /\ hook \in {"malformed", "truncated"}
        /\ worker' = "bootstrapped" /\ ack' = hook
     \/ /\ hook \notin {"skip_ack", "malformed", "truncated"}
        /\ worker' = "acking" /\ ack' = "partial"
  /\ UNCHANGED <<parentVars, drain, setting, exitcode, applied, claims, sampleRead,
                 response, helper, signals>>

\* tmp.replace(bootstrap.ack)
PublishAck ==
  /\ worker = "acking"
  /\ worker' = "bootstrapped" /\ ack' = "whole" /\ claims' = AttestedResults
  /\ UNCHANGED <<parentVars, drain, setting, exitcode, applied, sampleRead, response,
                 helper, signals>>

\* Mutant: the worker opens the sample before its bootstrap.
MutantSampleFirst ==
  /\ worker = "boot" /\ ~sampleRead
  /\ sampleRead' = TRUE
  /\ UNCHANGED <<parentVars, drain, setting, worker, exitcode, applied, ack, claims,
                 response, helper, signals>>

ReadSample ==
  /\ worker = "bootstrapped"
  /\ worker' = "parsing" /\ sampleRead' = TRUE
  /\ UNCHANGED <<parentVars, drain, setting, exitcode, applied, ack, claims, response,
                 helper, signals>>

\* Process creation is only "degraded": a parser may leave a descendant behind.
StartHelper ==
  /\ worker = "parsing" /\ helper = "none"
  /\ helper' = "alive"
  /\ UNCHANGED <<parentVars, drain, setting, worker, exitcode, files, signals>>

(***************************************************************************)
(* _atomic_write: response.json.tmp, then replace; the payload may be too  *)
(* large.  A worker whose analyzer has another version than the request    *)
(* names answers "failed" under the right id without opening the sample.   *)
(***************************************************************************)
WriteAnswer ==
  /\ worker \in {"bootstrapped", "parsing"}
  /\ worker' = "answering" /\ response' = "partial"
  /\ UNCHANGED <<parentVars, drain, setting, exitcode, applied, ack, claims, sampleRead,
                 helper, signals>>

PublishAnswer ==
  /\ worker = "answering"
  /\ worker' = "answered"
  /\ response' \in IF sampleRead THEN {"whole", "oversized"} ELSE {"whole"}
  /\ UNCHANGED <<parentVars, drain, setting, exitcode, applied, ack, claims, sampleRead,
                 helper, signals>>

(***************************************************************************)
(* main()'s except branches, which also catch a failed write of the        *)
(* answer, answer under the id "unknown", which the parent rejects.        *)
(***************************************************************************)
AnswerFailure ==
  /\ worker \in {"boot", "applied", "acking", "bootstrapped", "parsing", "answering"}
  /\ hook \notin {"crash", "hang"}
  /\ worker' = "answered" /\ response' = "rejected"
  /\ UNCHANGED <<parentVars, drain, setting, exitcode, applied, ack, claims, sampleRead,
                 helper, signals>>

\* A broken analyzer (isolate/test_analyzers.py) leaves anything behind.
AnswerRubbish ==
  /\ worker = "parsing"
  /\ worker' = "answered"
  /\ response' \in {"empty", "oversized", "garbled", "rejected", "reparse"}
  /\ UNCHANGED <<parentVars, drain, setting, exitcode, applied, ack, claims, sampleRead,
                 helper, signals>>

WorkerExits ==
  /\ worker \in {"parsing", "answered"}
  /\ worker' = "exited" /\ exitcode' = "exit"
  /\ UNCHANGED <<parentVars, drain, setting, files, helper, signals>>

\* A crash at any point, SIGTERM taking effect, a resource limit.
WorkerCrashes ==
  /\ WorkerAlive
  /\ worker' = "exited" /\ exitcode' = "crash"
  /\ UNCHANGED <<parentVars, drain, setting, files, helper, signals>>

HelperEnds ==
  /\ helper = "alive"
  /\ helper' = "dead"
  /\ UNCHANGED <<parentVars, drain, setting, worker, exitcode, files, signals>>

Child ==
  \/ ApplyRestrictions \/ WriteAck \/ PublishAck \/ ReadSample \/ StartHelper
  \/ WriteAnswer \/ PublishAnswer \/ AnswerFailure \/ AnswerRubbish \/ WorkerExits
  \/ WorkerCrashes \/ HelperEnds

-----------------------------------------------------------------------------
(* The kernel *)

\* SIGKILL cannot be ignored; it takes effect, though not at once.
KillTakesEffect ==
  \/ "KILL" \in signals["worker"] /\ WorkerCrashes
  \/ "KILL" \in signals["helper"] /\ HelperEnds

\* The drainer's read returns end-of-file: nobody holds a write end any more.
DrainersReachEof ==
  /\ drain = "draining" /\ ~writeEnd /\ ~HeldByProcess
  /\ drain' = "eof"
  /\ UNCHANGED <<parentVars, setting, childVars, signals>>

Next == Parent \/ Child \/ DrainersReachEof

(***************************************************************************)
(* Only the parent and the kernel are fair.  The worker may stop anywhere, *)
(* ignore SIGTERM, and never answer.                                       *)
(***************************************************************************)
Fairness ==
  /\ WF_vars(Parent)
  /\ WF_vars(DrainersReachEof)
  /\ WF_vars(KillTakesEffect)

Spec == Init /\ [][Next]_vars
FairSpec == Spec /\ Fairness

-----------------------------------------------------------------------------
(* Properties *)

Enforced(snapshot) == {c \in PROMOTABLE : snapshot[c] = "enforced"}

(***************************************************************************)
(* A published capability is "enforced" only if the worker really applied  *)
(* the restriction before it opened the sample, on a host the parent knows *)
(* to support it.  (The "contradict" hook makes the worker lie, and no     *)
(* parent can see through a lie that the host's features do not refute.)   *)
(***************************************************************************)
EnforcedMeansApplied ==
  hook # "contradict" =>
    \A c \in Enforced(report) : applied[c] = "applied" /\ host[SupportFlag[c]]

(***************************************************************************)
(* One bad claim spoils the whole ACK: unless the ACK was read complete,   *)
(* well formed and free of contradictions, not one of the four             *)
(* restrictions is published as "enforced", whatever the hook, and however *)
(* well the worker's answer looks (bootstrap.py: "never promotes on        *)
(* invalid evidence").                                                     *)
(***************************************************************************)
NoPromotionWithoutAck ==
  Enforced(report) # {} =>
    /\ evidence = "ok" /\ ack = "whole"
    /\ AckContradictions(claims, host) = {}

(***************************************************************************)
(* The child's own result is passed on only if the worker published it     *)
(* whole, after it had tried the restrictions, and was reaped before the   *)
(* timer fired: an answer that races the timeout is never believed.  (That *)
(* the sample was opened is not promised: see WriteAnswer.)                *)
(***************************************************************************)
AnswerBelievedOnlyInTime ==
  outcome = "child_result" =>
    /\ ~timedOut /\ worker = "reaped"
    /\ response = "whole" /\ applied # Untried

(***************************************************************************)
(* When the run removes its workspace, its worker has ended, or SIGKILL    *)
(* has been sent to it - on the timeout path, when the parent is           *)
(* interrupted, and when reading what the worker left behind raised.       *)
(***************************************************************************)
WorkspaceFreedAfterWorker ==
  pc \in {"remove", "done"} => ~WorkerAlive \/ "KILL" \in signals["worker"]

(***************************************************************************)
(* A drainer thread is abandoned with its read end closed under it only if *)
(* another process still holds the pipe: a descendant, a worker that would *)
(* not die, or one that was still running when reading raised.  The parent *)
(* never blocks itself, even when spawning failed.                         *)
(***************************************************************************)
NoSelfInflictedDrainLeak ==
  drain = "abandoned" => helper # "none" \/ "KILL" \in signals["worker"]

\* What is published at the end is what the policy holds: no stale snapshot.
PublishedReportIsFresh == pc = "done" => report = policy

(***************************************************************************)
(* killpg never hits a process group whose leader the parent has reaped:   *)
(* the pid might belong to somebody else by then.                          *)
(***************************************************************************)
NoSignalAfterReap ==
  [][signals' # signals => worker \notin {"none", "reaped"}]_vars

(***************************************************************************)
(* Every run ends, and its worker with it, even if the worker hangs,       *)
(* ignores SIGTERM, or leaves a descendant that keeps the pipes open.      *)
(***************************************************************************)
RunEnds == <>(pc = "done" /\ ~WorkerAlive)

-----------------------------------------------------------------------------
(* The inductive invariant behind the safety properties *)

\* Bootstrap is over once an ACK is whole: truth and claim are then frozen.
AckFrozen ==
  /\ \A c \in PROMOTABLE : applied[c] = "applied" => host[SupportFlag[c]]
  /\ ack = "whole" =>
       /\ worker \notin {"none", "boot", "applied", "acking"}
       /\ claims = AttestedResults

\* A capability of the four is enforced only by a readable, consistent claim.
ClaimBacked(snapshot) ==
  \A c \in Enforced(snapshot) :
    /\ evidence = "ok" /\ ack = "whole"
    /\ claims[c] = "applied" /\ AckContradictions(claims, host) = {}

\* Where the parent stands tells what it knows of the worker.
ParentKnows ==
  /\ pc \in {"create", "request", "pipes", "start", "spawn"} => worker = "none"
  /\ pc \in {"sigterm", "grace", "killwait"} => worker \notin {"none", "reaped"}
  /\ pc = "join" => ~writeEnd
  /\ raised => pc \in {"join", "finally", "poll", "sigterm", "grace", "killwait",
                       "remove", "done"}
  /\ pc \in {"finish", "ack"} \/ (pc = "join" /\ ~raised) => timedOut \/ worker = "reaped"
  /\ pc = "read" => ~timedOut /\ worker = "reaped"
  /\ pc \in {"poll", "sigterm", "grace", "killwait"} /\ returnTo = "finish" =>
       timedOut /\ ~raised

\* From the end of terminate_tree on, a live worker has SIGKILL coming.
KillComing ==
  pc \in {"killwait", "finish", "join", "ack", "read", "except", "remove", "done"} =>
    ~WorkerAlive \/ "KILL" \in signals["worker"]

\* The bootstrap comes before sample and answer; answers are read from a reaped worker.
AnswerOrder ==
  /\ worker \in {"applied", "acking", "bootstrapped", "parsing", "answering"} =>
       applied # Untried
  /\ response = "whole" => applied # Untried
  /\ outcome = "child_result" => pc \in {"finally", "remove", "done"}
  /\ worker \in {"none", "boot", "applied", "acking", "bootstrapped"} => ~sampleRead
  /\ worker \in {"none", "boot", "applied", "acking", "bootstrapped", "parsing"} =>
       response = "none"
  /\ worker = "answering" => response = "partial"
  /\ worker \in {"none", "boot"} => applied = Untried

\* The last steps of a run know its verdict, on the way through terminate_tree too.
VerdictReady ==
  /\ pc \in {"finally", "remove", "done"} => outcome # "pending"
  /\ pc \in {"poll", "sigterm", "grace", "killwait"} /\ returnTo = "remove" =>
       outcome # "pending"
  /\ pc = "join" /\ raised => outcome # "pending"

ReportCurrent ==
  pc \notin {"create", "request", "pipes", "start", "spawn", "except"} => report = policy

IInv ==
  /\ TypeOK
  /\ AckFrozen
  /\ ClaimBacked(policy) /\ ClaimBacked(report)
  /\ ParentKnows /\ KillComing /\ AnswerOrder /\ VerdictReady /\ ReportCurrent
  /\ AnswerBelievedOnlyInTime
  /\ NoSelfInflictedDrainLeak

-----------------------------------------------------------------------------
(***************************************************************************)
(* The abstract run a caller may rely on.  Until the parent is done there  *)
(* is nothing to see; then verdict and claims appear in one step.          *)
(***************************************************************************)
Contract == INSTANCE WorkerContract WITH
  Restrictions <- PROMOTABLE,
  Verdicts <- Outcome \ {"pending"},
  verdict <- IF pc = "done" THEN outcome ELSE "pending",
  claimed <- IF pc = "done" THEN Enforced(report) ELSE {},
  inForce <- {c \in PROMOTABLE : applied[c] = "applied"},
  sampleOpened <- sampleRead,
  answered <- response = "whole"

\* WorkerRun implements WorkerContract (for workers that do not lie).
ImplementsContract == Contract!Spec

(***************************************************************************)
(* unixcontain.py and ISOLATE_PROTOCOL.md say that descendants are killed  *)
(* on timeout: once such a run is over, the descendant has ended or has    *)
(* at least been sent SIGKILL.                                             *)
(***************************************************************************)
DescendantsKilledOnTimeout ==
  pc = "done" /\ timedOut => helper # "alive" \/ "KILL" \in signals["helper"]

=============================================================================
