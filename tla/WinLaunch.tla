----------------------------- MODULE WinLaunch -----------------------------
(***************************************************************************)
(* A worker run on Windows (isolate/process.py, wincontain.py, winjob.py,  *)
(* winacl.py), over the staged interpreter of RuntimeStaging.              *)
(*                                                                         *)
(* The parent stages the interpreter three times in a run (for the         *)
(* environment, for the command, before an AppContainer launch), creates a *)
(* job object, and tries an AppContainer, then a restricted token, then    *)
(* the job alone.  The child is created suspended, put into the job and    *)
(* resumed; the policy says what was established; the parent waits,        *)
(* terminates the tree and closes the job, whose last handle kills what is *)
(* still in it.  Any number of threads of a process run workers at a time; *)
(* a process may be killed at any point and its files stay.                *)
(*                                                                         *)
(* What the worker answers, and the workspace, are WorkerRun's.            *)
(***************************************************************************)
EXTENDS RuntimeStaging

CONSTANTS
  MaxCrashes,       \* bound: how often a process is killed
  MaxEvents,        \* bound: how many edits and crashes there are together
  ProcessLimit      \* policy.max_processes

ASSUME CrashAssumption == MaxCrashes \in Nat /\ MaxEvents \in Nat
ASSUME ProcessLimitAssumption == ProcessLimit \in Nat \ {0}

VARIABLES
  run,       \* the run each thread is in
  worker,    \* the process the run got back, or is launching
  orphan,    \* is there a process in its job that the run did not get back?
  crashes

launchVars == <<run, worker, orphan, crashes>>
vars == <<stagingVars, launchVars>>

Mechanisms == {"none", "appcontainer", "restricted_token", "job-only"}

\* What IsolationPolicy says of a capability.
Claim == {"enforced", "degraded", "unsupported"}
ClaimsType == [tree : Claim, creation : Claim, fs : Claim, net : Claim]
NoClaims == [tree |-> "unsupported", creation |-> "unsupported", fs |-> "unsupported",
             net |-> "unsupported"]

RunType ==
  [at : {"idle", "env", "command", "appcontainer", "prepare", "grant", "create",
         "restricted", "fallback", "assign", "policy", "wait", "close", "over", "failed"},
   path : Versions \cup {None},      \* PYTHONPATH: staged_python_root() when the run begins
   exe : Versions \cup {None},       \* command[0]; None: the base interpreter
   job : {"open", "none", "made"},   \* "open": not decided yet
   assigned : BOOLEAN,               \* WinJob.assigned
   mech : Mechanisms,                \* launch_meta["mechanism"]
   token : BOOLEAN,                  \* launch_meta["token_is_appcontainer"]
   claims : ClaimsType]

NoRun == [at |-> "idle", path |-> None, exe |-> None,
          job |-> "open", assigned |-> FALSE, mech |-> "none", token |-> FALSE,
          claims |-> NoClaims]

\* A process: its state, how it was created, whether it is in the run's job, and
\* whether an AppContainer may read the interpreter it was started from.
WorkerType ==
  [is : {"none", "suspended", "running", "ended"}, mech : Mechanisms, inJob : BOOLEAN,
   readable : BOOLEAN]
NoWorker == [is |-> "none", mech |-> "none", inJob |-> FALSE, readable |-> FALSE]

Alive(w) == w.is \in {"suspended", "running"}
InJobAlive(w) == w.inJob /\ Alive(w)

Init ==
  /\ StagingInit
  /\ run = [t \in Threads |-> NoRun]
  /\ worker = [t \in Threads |-> NoWorker]
  /\ orphan = [t \in Threads |-> FALSE]
  /\ crashes = 0

Step(t, at) == run' = [run EXCEPT ![t].at = at]

\* What is left of a run that is over: a process in its job, if there is one.
\* One outside the job is not followed any further.
Over(t) == run' = [run EXCEPT ![t] = [NoRun EXCEPT !.at = "over"]]
Left(w) == IF InJobAlive(w) THEN w ELSE NoWorker

\* ensure_staged_cpython is called.
Call(t) == call' = [call EXCEPT ![t] = [NoCall EXCEPT !.at = "root"]]
CallOver(t) == call[t].at \in {"returned", "raised"}

-----------------------------------------------------------------------------
(* The environment and the command *)

\* child_env: PYTHONPATH is named, whether it exists or not, then the
\* interpreter is asked for.
Begin(t) ==
  /\ run[t].at = "idle"
  /\ run' = [run EXCEPT ![t] = [NoRun EXCEPT !.at = "env", !.path = source]]
  /\ Call(t)
  /\ UNCHANGED <<source, files, aclDone, memory, worker, orphan, crashes>>

\* worker_executable: the staged python.exe; the base interpreter after an
\* OSError, or when the file is not there (any more).
Executable(t) ==
  IF call[t].at = "returned" /\ "exe" \in dest[call[t].key].parts THEN call[t].key ELSE None

EnvReady(t) ==
  /\ run[t].at = "env" /\ CallOver(t)
  /\ run' = [run EXCEPT ![t].at = "command"]
  /\ Call(t)
  /\ UNCHANGED <<source, files, aclDone, memory, worker, orphan, crashes>>

\* spawn_worker asks again.
CommandReady(t) ==
  /\ run[t].at = "command" /\ CallOver(t)
  /\ run' = [run EXCEPT ![t].at = "appcontainer", ![t].exe = Executable(t)]
  /\ call' = [call EXCEPT ![t] = NoCall]
  /\ UNCHANGED <<source, files, aclDone, memory, worker, orphan, crashes>>

-----------------------------------------------------------------------------
(* launch_appcontainer *)

\* prepare_appcontainer_paths: any OSError is remembered for the process.
PreparationFails(t) ==
  /\ Step(t, "restricted")
  /\ failed' = [failed EXCEPT ![Owner[t]] = TRUE]
  /\ UNCHANGED <<hasSid, lock>>

\* Is there a SID, and no failure remembered?  Then the workspace is granted.
StartContained(t) ==
  /\ run[t].at = "appcontainer"
  /\ IF hasSid[Owner[t]] /\ ~failed[Owner[t]]
     THEN \/ Step(t, "prepare") /\ Call(t) /\ UNCHANGED memory
          \/ PreparationFails(t) /\ UNCHANGED call
     ELSE Step(t, "restricted") /\ UNCHANGED <<memory, call>>
  /\ UNCHANGED <<source, files, aclDone, worker, orphan, crashes>>

Staged(t) ==
  /\ run[t].at = "prepare" /\ CallOver(t)
  /\ IF call[t].at = "returned"
     THEN Step(t, "grant") /\ UNCHANGED <<memory, call>>
     ELSE PreparationFails(t) /\ call' = [call EXCEPT ![t] = NoCall]
  /\ UNCHANGED <<source, files, aclDone, worker, orphan, crashes>>

\* apply_cached_grant: the marker on disk is enough.  do_grant: so is the ACL
\* marker in the tree; or a grant on its directory only.
GrantTree(t) ==
  /\ run[t].at = "grant"
  /\ call' = [call EXCEPT ![t] = NoCall]
  /\ LET p == Owner[t]
         v == call[t].key
     IN \/ /\ ~dest[v].exists                    \* nothing to grant
           /\ Step(t, "create") /\ UNCHANGED <<dest, aclDone, memory>>
        \/ /\ dest[v].exists /\ failed[p]
           /\ PreparationFails(t) /\ UNCHANGED <<dest, aclDone>>
        \/ /\ dest[v].exists /\ ~failed[p] /\ v \in aclDone
           /\ Step(t, "create") /\ UNCHANGED <<dest, aclDone, memory>>
        \/ /\ dest[v].exists /\ ~failed[p] /\ v \notin aclDone
           /\ dest' = IF dest[v].acl THEN dest ELSE [dest EXCEPT ![v].ace = TRUE]
           /\ \/ Step(t, "create") /\ aclDone' = aclDone \cup {v} /\ UNCHANGED memory
              \/ PreparationFails(t) /\ UNCHANGED aclDone      \* writing the marker
        \/ /\ dest[v].exists /\ ~failed[p] /\ v \notin aclDone /\ ~dest[v].acl
           /\ PreparationFails(t) /\ UNCHANGED <<dest, aclDone>>
  /\ UNCHANGED <<source, staging, worker, orphan, crashes>>

-----------------------------------------------------------------------------
(* The process *)

HasImage(v) == IF v = None THEN TRUE ELSE "exe" \in dest[v].parts

\* Created suspended.  Setting up handles, tokens or attributes, or the
\* creation itself, may fail; it does if the image is gone.
Created(t, mech) ==
  /\ HasImage(run[t].exe)
  /\ worker' = [worker EXCEPT ![t] =
       [NoWorker EXCEPT !.is = "suspended", !.mech = mech,
          !.readable = IF run[t].exe = None THEN TRUE ELSE dest[run[t].exe].ace]]
  /\ run' = [run EXCEPT ![t].at = "assign", ![t].mech = mech]

CreateContained(t) ==
  /\ run[t].at = "create"
  /\ Created(t, "appcontainer") \/ (Step(t, "restricted") /\ UNCHANGED worker)
  /\ UNCHANGED <<stagingVars, orphan, crashes>>

\* launch_restricted_token.
CreateRestricted(t) ==
  /\ run[t].at = "restricted"
  /\ Created(t, "restricted_token") \/ (Step(t, "fallback") /\ UNCHANGED worker)
  /\ UNCHANGED <<stagingVars, orphan, crashes>>

\* _spawn_windows_fallback.  If Popen fails the run ends here: nobody closes
\* the job.
CreateFallback(t) ==
  /\ run[t].at = "fallback"
  /\ Created(t, "job-only") \/ (UNCHANGED worker /\ run' = [run EXCEPT ![t] = [NoRun EXCEPT !.at = "failed"]])
  /\ UNCHANGED <<stagingVars, orphan, crashes>>

\* WinJob may fail, and there is no job.  (Its optional memory and CPU limits are
\* left out.)  It is created before the first launch, but nothing depends on it
\* before a process is assigned to it.
JobsOf(r) ==
  IF r.job # "open" THEN {r} ELSE {[r EXCEPT !.job = kind] : kind \in {"none", "made"}}

\* The job holds ActiveProcessLimit processes, the orphan among them.
JobHasRoom(t, r) ==
  /\ r.job # "none"
  /\ orphan[t] => ProcessLimit > 1

\* A job that exists is taken for one the worker is in.
MutantAssign(t) ==
  /\ run[t].at = "assign"
  /\ \E r \in JobsOf(run[t]) : \E ok \in IF JobHasRoom(t, r) THEN BOOLEAN ELSE {FALSE} :
       /\ run' = [run EXCEPT ![t] = [r EXCEPT !.assigned = r.job # "none", !.at = "policy"]]
       /\ worker' = [worker EXCEPT ![t].is = "running", ![t].inJob = ok]
  /\ UNCHANGED <<stagingVars, orphan, crashes>>

\* AssignProcessToJobObject, which may fail, and ResumeThread.
Assign(t) ==
  /\ run[t].at = "assign"
  /\ \E r \in JobsOf(run[t]) : \E ok \in IF JobHasRoom(t, r) THEN BOOLEAN ELSE {FALSE} :
       /\ run' = [run EXCEPT ![t] = [r EXCEPT !.assigned = ok, !.at = "policy"]]
       /\ worker' = [worker EXCEPT ![t].is = "running", ![t].inJob = ok]
  /\ UNCHANGED <<stagingVars, orphan, crashes>>

\* The meta data of a restricted worker name the user: if the lookup fails, the
\* worker that already runs is lost to the run, which launches another.
UserUnknown(t) ==
  /\ run[t].at = "policy" /\ run[t].mech = "restricted_token"
  /\ orphan' = [orphan EXCEPT ![t] = InJobAlive(worker[t])]
  /\ worker' = [worker EXCEPT ![t] = NoWorker]
  /\ Step(t, "fallback")
  /\ UNCHANGED <<stagingVars, crashes>>

-----------------------------------------------------------------------------
(* apply_policy_from_launch *)

JobClaims(r) ==
  IF ~r.assigned
  THEN [NoClaims EXCEPT !.tree = "degraded", !.creation = "degraded"]
  ELSE [NoClaims EXCEPT !.tree = "enforced",
          !.creation = IF ProcessLimit = 1 THEN "enforced" ELSE "degraded"]

\* The mechanism is recorded where its effect belongs.
MutantClaims(r) ==
  [JobClaims(r) EXCEPT !.fs = r.mech, !.net = IF r.mech = "appcontainer" THEN "degraded" ELSE "unsupported"]

Claims(r) ==
  LET fs == IF r.mech = "appcontainer" /\ r.token THEN "enforced"
            ELSE IF r.mech \in {"appcontainer", "restricted_token"} THEN "degraded"
            ELSE "unsupported"
      net == IF r.mech = "appcontainer" THEN "degraded" ELSE "unsupported"
  IN [JobClaims(r) EXCEPT !.fs = fs, !.net = net]

\* query_child_token may fail to confirm an AppContainer; then the policy.
ApplyPolicy(t) ==
  /\ run[t].at = "policy"
  /\ \E confirmed \in IF run[t].mech = "appcontainer" THEN BOOLEAN ELSE {FALSE} :
       LET r == [run[t] EXCEPT !.at = "wait", !.token = confirmed]
       IN run' = [run EXCEPT ![t] = [r EXCEPT !.claims = Claims(r)]]
  /\ UNCHANGED <<stagingVars, worker, orphan, crashes>>

-----------------------------------------------------------------------------
(* The end *)

Killed(w) == [w EXCEPT !.is = IF Alive(w) THEN "ended" ELSE @]
KilledWithJob(w) == IF w.inJob THEN Killed(w) ELSE w

WorkerEnds(t) ==
  /\ \/ worker[t].is = "running" /\ worker' = [worker EXCEPT ![t] = Killed(@)] /\ UNCHANGED orphan
     \/ orphan[t] /\ orphan' = [orphan EXCEPT ![t] = FALSE] /\ UNCHANGED worker
  /\ UNCHANGED <<stagingVars, run, crashes>>

\* wait_or_timeout: the worker has ended ...
WaitReturns(t) ==
  /\ run[t].at = "wait" /\ worker[t].is = "ended"
  /\ Step(t, "close")
  /\ UNCHANGED <<stagingVars, worker, orphan, crashes>>

\* ... or its time is over.  terminate_tree: TerminateJobObject, taskkill /T,
\* TerminateProcess.  What is not in the job may survive all three.
TerminateTree(t) ==
  /\ run[t].at = "wait" /\ Alive(worker[t])
  /\ orphan' = [orphan EXCEPT ![t] = FALSE]
  /\ \/ worker' = [worker EXCEPT ![t] = Killed(@)]
     \/ worker' = [worker EXCEPT ![t] = KilledWithJob(@)]
  /\ Step(t, "close")
  /\ UNCHANGED <<stagingVars, crashes>>

\* The job is left open after a worker that ended by itself.
MutantCloseJob(t) ==
  /\ run[t].at = "close"
  /\ worker' = [worker EXCEPT ![t] = Left(@)]
  /\ UNCHANGED orphan
  /\ Over(t)
  /\ UNCHANGED <<stagingVars, crashes>>

\* close_job: the last handle of a job with KILL_ON_JOB_CLOSE.
CloseJob(t) ==
  /\ run[t].at = "close"
  /\ worker' = [worker EXCEPT ![t] = Left(KilledWithJob(@))]
  /\ orphan' = [orphan EXCEPT ![t] = FALSE]
  /\ Over(t)
  /\ UNCHANGED <<stagingVars, crashes>>

\* A process is killed and started again: its files and the workers outside
\* its jobs stay (those are not followed any further), its memory goes.
Crash(p) ==
  /\ crashes < MaxCrashes /\ crashes + source <= MaxEvents
  /\ crashes' = crashes + 1
  /\ LET mine == {t \in Threads : Owner[t] = p}
         Fresh(f, none) == [t \in Threads |-> IF t \in mine THEN none ELSE f[t]]
     IN /\ call' = Fresh(call, NoCall)
        /\ run' = Fresh(run, NoRun)
        /\ worker' = Fresh(worker, NoWorker)
        /\ orphan' = Fresh(orphan, FALSE)
  /\ \E sid \in BOOLEAN : hasSid' = [hasSid EXCEPT ![p] = sid]
  /\ lock' = [lock EXCEPT ![p] = NoThread]
  /\ failed' = [failed EXCEPT ![p] = FALSE]
  /\ UNCHANGED <<source, files, aclDone>>

Staging(t) == EnsureStep(t) /\ UNCHANGED launchVars

Launch(t) ==
  \/ Begin(t) \/ EnvReady(t) \/ CommandReady(t) \/ StartContained(t) \/ Staged(t) \/ GrantTree(t)
  \/ CreateContained(t) \/ CreateRestricted(t) \/ CreateFallback(t) \/ Assign(t)
  \/ UserUnknown(t) \/ ApplyPolicy(t)

Ending(t) == WorkerEnds(t) \/ WaitReturns(t) \/ TerminateTree(t) \/ CloseJob(t)

Finished == (\A t \in Threads : run[t].at \in {"over", "failed"}) /\ UNCHANGED vars

Next ==
  \/ \E t \in Threads : Staging(t) \/ Launch(t) \/ Ending(t)
  \/ \E p \in Procs : Crash(p)
  \/ crashes + source <= MaxEvents /\ Edit /\ UNCHANGED launchVars
  \/ Finished

Spec == Init /\ [][Next]_vars

-----------------------------------------------------------------------------
(* Properties *)

\* Every variable has its type.
TypeOK ==
  /\ source \in Versions
  /\ dest \in [Versions -> TreeType] /\ staging \in [Versions -> TreeType]
  /\ aclDone \subseteq Versions
  /\ hasSid \in [Procs -> BOOLEAN]
  /\ lock \in [Procs -> Threads \cup {NoThread}]
  /\ failed \in [Procs -> BOOLEAN]
  /\ call \in [Threads -> CallType]
  /\ run \in [Threads -> RunType]
  /\ worker \in [Threads -> WorkerType]
  /\ orphan \in [Threads -> BOOLEAN]
  /\ crashes \in 0 .. MaxCrashes

\* A tree that is published with a marker is the one its call built: the marker is
\* of this call, all it copied is there, python.exe among it, and a package no
\* older than the marker; whatever failed, crashed, was left over or was edited.
PublishedIsWhole ==
  [][\A t \in Threads :
       LET tree == dest'[call[t].key]
       IN call[t].at = "publish" /\ call'[t].at = "returned" /\ tree.mark # None =>
            /\ tree.mark = call[t].fp
            /\ call[t].copied \ {"app"} \subseteq tree.parts /\ "exe" \in tree.parts
            /\ "app" \in call[t].copied => tree.app >= tree.mark]_vars

\* A worker put into an AppContainer from a staged tree may read the tree.
ContainedCanRead ==
  \A t \in Threads :
    worker[t].mech = "appcontainer" /\ Alive(worker[t]) => worker[t].readable

\* What the policy calls enforced is so for the process the run holds: a job
\* with that limit contains it, its AppContainer token was seen.
ClaimsAreBacked ==
  \A t \in Threads :
    LET claims == run[t].claims
        w == worker[t]
    IN /\ "enforced" \in {claims.tree, claims.creation} => w.inJob
       /\ claims.creation = "enforced" => ProcessLimit = 1
       /\ claims.fs = "enforced" => w.mech = "appcontainer" /\ w.readable

\* When a run that got its worker back is over, no process that was put into its
\* job is left: not the worker, nor one that was launched before it and lost.
JobBoundsWorkers ==
  \A t \in Threads : run[t].at = "over" => ~InJobAlive(worker[t]) /\ ~orphan[t]
=============================================================================
