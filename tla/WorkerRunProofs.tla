-------------------------- MODULE WorkerRunProofs --------------------------
(***************************************************************************)
(* Proofs about WorkerRun, for every set of hosts and of test hooks.       *)
(*                                                                         *)
(* TypeStep and StrengtheningStep show that IInv is inductive, one step    *)
(* per action; the safety properties are its consequences.  Refinement     *)
(* maps a run to WorkerContract: everything but the bootstrap, opening the *)
(* sample, answering, and the end of the run stutters there.               *)
(***************************************************************************)
EXTENDS WorkerRun, TLAPS

USE DEF termVars, reportVars, verdictVars, pipeVars, setting, files, childVars, parentVars

Snapshot == [CAPABILITIES -> CapabilityState]

(***************************************************************************)
(* establish and fail only ever write "enforced" and "failed" (policy.py). *)
(***************************************************************************)
LEMMA PolicyType ==
  ASSUME NEW p \in Snapshot, NEW caps
  PROVE  Establish(p, caps) \in Snapshot /\ Fail(p, caps) \in Snapshot
BY DEF Snapshot, Establish, Fail, CapabilityState

(***************************************************************************)
(* Feature detection yields a snapshot (apply_unix_policy,                 *)
(* unixcontain.py).                                                        *)
(***************************************************************************)
LEMMA UnixPolicyType ==
  ASSUME NEW p \in Snapshot, NEW h
  PROVE  ApplyUnixPolicy(p, h) \in Snapshot
BY DEF Snapshot, ApplyUnixPolicy, CapabilityState

(***************************************************************************)
(* Promoting a validated ACK yields a snapshot, whatever the ACK says      *)
(* (apply_validated_ack, bootstrap.py).                                    *)
(***************************************************************************)
LEMMA ValidatedAckType ==
  ASSUME NEW p \in Snapshot, NEW results
  PROVE  ApplyValidatedAck(p, results) \in Snapshot
BY DEF Snapshot, ApplyValidatedAck, CapabilityState

(***************************************************************************)
(* What the parent makes of bootstrap.ack and response.json is one of the  *)
(* documented statuses and reasons (ingest, _read_response).               *)
(***************************************************************************)
LEMMA ReadingTypes ==
  ASSUME TypeOK
  PROVE  /\ AckStatus \in {"missing", "timeout", "crash_before_ack", "malformed",
                           "truncated", "contradictory", "ok"}
         /\ ResponseOutcome \in Outcome
BY DEF TypeOK, AckStatus, ResponseOutcome, ReasonFor, ResponseState, Outcome

(***************************************************************************)
(* The results a worker attests are results, also under a test hook        *)
(* (write_bootstrap_ack, bootstrap.py).                                    *)
(***************************************************************************)
LEMMA AttestedType ==
  ASSUME TypeOK
  PROVE  AttestedResults \in [PROMOTABLE -> AckState \cup {"untried"}]
BY DEF TypeOK, AttestedResults, AckState, PROMOTABLE

(***************************************************************************)
(* Every step of parent, worker and kernel keeps the types. One case per   *)
(* action of runner.run, terminate_tree, worker.main and the kernel.       *)
(***************************************************************************)
LEMMA TypeStep == TypeOK /\ [Next]_vars => TypeOK'
<1> SUFFICES ASSUME TypeOK, [Next]_vars PROVE TypeOK'
  OBVIOUS
<1> USE DEF TypeOK, Snapshot, ParentPC, WorkerState, ResponseState, Outcome
<1>1. CASE CreateWorkspace
  BY <1>1, PolicyType DEF CreateWorkspace
<1>2. CASE WriteRequest
  BY <1>2 DEF WriteRequest
<1>3. CASE CreateOutputStreams
  <2>1. writeEnd' \in BOOLEAN
    BY <1>3, Zenon DEF CreateOutputStreams
  <2> QED
    BY <1>3, PolicyType, <2>1 DEF CreateOutputStreams
<1>4. CASE StartDrainers
  BY <1>4, PolicyType DEF StartDrainers
<1>5. CASE SpawnWorker
  <2>1. writeEnd' \in BOOLEAN
    BY <1>5, Zenon DEF SpawnWorker
  <2> QED
    BY <1>5, PolicyType, UnixPolicyType, <2>1 DEF SpawnWorker, CapabilityState
<1>6. CASE WaitReturns
  BY <1>6 DEF WaitReturns, Reap
<1>7. CASE WaitTimesOut
  BY <1>7 DEF WaitTimesOut
<1>8. CASE WaitInterrupted
  BY <1>8 DEF WaitInterrupted
<1>9. CASE PollBeforeSignal
  BY <1>9 DEF PollBeforeSignal, Reap
<1>10. CASE SendSigterm
  BY <1>10 DEF SendSigterm, SignalGroup
<1>11. CASE GraceEnds
  BY <1>11 DEF GraceEnds, Reap, SignalGroup
<1>12. CASE KillWaitEnds
  BY <1>12 DEF KillWaitEnds, Reap
<1>13. CASE CloseWriteEnds
  <2>1. writeEnd' \in BOOLEAN
    BY <1>13, Zenon DEF CloseWriteEnds
  <2> QED
    BY <1>13, <2>1 DEF CloseWriteEnds
<1>14. CASE HandleException
  <2>1. writeEnd' \in BOOLEAN
    BY <1>14, Zenon DEF HandleException
  <2> QED
    BY <1>14, <2>1 DEF HandleException
<1>15. CASE JoinDrainers
  BY <1>15 DEF JoinDrainers
<1>16. CASE IngestBootstrapAck
  BY <1>16, ReadingTypes, ValidatedAckType DEF IngestBootstrapAck
<1>17. CASE ReadResponse
  BY <1>17, ReadingTypes DEF ReadResponse
<1>18. CASE ReadRaises
  BY <1>18 DEF ReadRaises
<1>19. CASE FinallyTerminate
  BY <1>19 DEF FinallyTerminate, Reap
<1>20. CASE RemoveWorkspace
  BY <1>20 DEF RemoveWorkspace
<1>21. CASE ApplyRestrictions
  BY <1>21 DEF ApplyRestrictions, BootstrapResults
<1>22. CASE WriteAck
  BY <1>22 DEF WriteAck, AllHooks
<1>23. CASE PublishAck
  BY <1>23, AttestedType DEF PublishAck
<1>24. CASE ReadSample
  BY <1>24 DEF ReadSample
<1>25. CASE StartHelper
  BY <1>25 DEF StartHelper
<1>26. CASE WriteAnswer
  BY <1>26 DEF WriteAnswer
<1>27. CASE PublishAnswer
  BY <1>27 DEF PublishAnswer
<1>28. CASE AnswerFailure
  BY <1>28 DEF AnswerFailure
<1>29. CASE AnswerRubbish
  BY <1>29 DEF AnswerRubbish
<1>30. CASE WorkerExits
  BY <1>30 DEF WorkerExits
<1>31. CASE WorkerCrashes
  BY <1>31 DEF WorkerCrashes, WorkerAlive
<1>32. CASE HelperEnds
  BY <1>32 DEF HelperEnds
<1>33. CASE DrainersReachEof
  BY <1>33 DEF DrainersReachEof
<1>34. CASE UNCHANGED vars
  BY <1>34 DEF vars
<1> QED
  BY <1>1, <1>2, <1>3, <1>4, <1>5, <1>6, <1>7, <1>8, <1>9, <1>10, <1>11, <1>12,
     <1>13, <1>14, <1>15, <1>16, <1>17, <1>18, <1>19, <1>20, <1>21, <1>22, <1>23,
     <1>24, <1>25, <1>26, <1>27, <1>28, <1>29, <1>30, <1>31, <1>32, <1>33, <1>34
  DEF Next, Parent, Child

\* The conjuncts of IInv besides TypeOK.
Strengthening ==
  /\ AckFrozen
  /\ ClaimBacked(policy) /\ ClaimBacked(report)
  /\ ParentKnows /\ KillComing /\ AnswerOrder /\ VerdictReady /\ ReportCurrent
  /\ AnswerBelievedOnlyInTime
  /\ NoSelfInflictedDrainLeak

(***************************************************************************)
(* Marking other capabilities leaves the four restrictions alone           *)
(* (IsolationPolicy.establish and fail are used on spawn and output        *)
(* capabilities before any ACK is read).                                   *)
(***************************************************************************)
LEMMA FrameLemma ==
  ASSUME NEW p, NEW caps \in SUBSET (CAPABILITIES \ PROMOTABLE)
  PROVE  Enforced(Establish(p, caps)) = Enforced(p) /\ Enforced(Fail(p, caps)) = Enforced(p)
BY DEF Enforced, Establish, Fail, CAPABILITIES, PROMOTABLE

(***************************************************************************)
(* Feature detection enforces none of the four restrictions; a validated   *)
(* ACK enforces exactly what it calls applied (apply_unix_policy,          *)
(* apply_validated_ack).                                                   *)
(***************************************************************************)
LEMMA PromotionLemma ==
  ASSUME NEW p, NEW h, NEW results
  PROVE  /\ Enforced(ApplyUnixPolicy(p, h)) = {}
         /\ Enforced(ApplyValidatedAck(p, results)) = {c \in PROMOTABLE : results[c] = "applied"}
BY DEF Enforced, ApplyUnixPolicy, ApplyValidatedAck, CAPABILITIES, PROMOTABLE

(***************************************************************************)
(* Every step keeps the other parts of the invariant. The two steps that   *)
(* matter are SpawnWorker, which must not enforce anything, and            *)
(* IngestBootstrapAck, which may only enforce what a consistent ACK        *)
(* claims.                                                                 *)
(***************************************************************************)
LEMMA StrengtheningStep == IInv /\ [Next]_vars => Strengthening'
<1> SUFFICES ASSUME IInv, [Next]_vars PROVE Strengthening'
  OBVIOUS
<1> USE DEF IInv, Strengthening, AckFrozen, ClaimBacked, Enforced, ParentKnows, KillComing,
            AnswerOrder, VerdictReady, ReportCurrent, AnswerBelievedOnlyInTime,
            NoSelfInflictedDrainLeak, WorkerAlive, AttestedResults, AckContradictions
<1> TypeOK /\ TypeOK'
  BY TypeStep
<1>1. CASE CreateWorkspace
  <2> USE DEF CreateWorkspace, PROMOTABLE, CAPABILITIES
  <2>1. ClaimBacked(policy)'
    BY <1>1, FrameLemma
  <2>2. ClaimBacked(report)'
    BY <1>1, FrameLemma
  <2>3. AckFrozen' /\ ParentKnows'
    BY <1>1, FrameLemma
  <2>4. KillComing' /\ AnswerOrder' /\ VerdictReady' /\ ReportCurrent'
    BY <1>1, FrameLemma
  <2>5. AnswerBelievedOnlyInTime' /\ NoSelfInflictedDrainLeak'
    BY <1>1, FrameLemma
  <2> QED
    BY <2>1, <2>2, <2>3, <2>4, <2>5
<1>2. CASE WriteRequest
  BY <1>2 DEF WriteRequest
<1>3. CASE CreateOutputStreams
  <2> USE DEF CreateOutputStreams
  <2>1. Enforced(policy') = Enforced(policy)
    BY <1>3, FrameLemma DEF CAPABILITIES, PROMOTABLE
  <2>2. ClaimBacked(policy)' /\ ClaimBacked(report)'
    BY <1>3, <2>1
  <2>3. AckFrozen' /\ ParentKnows' /\ KillComing' /\ AnswerOrder' /\ VerdictReady' /\ ReportCurrent'
    BY <1>3
  <2>4. AnswerBelievedOnlyInTime' /\ NoSelfInflictedDrainLeak'
    BY <1>3
  <2> QED
    BY <2>2, <2>3, <2>4
<1>4. CASE StartDrainers
  <2> USE DEF StartDrainers, PROMOTABLE, CAPABILITIES
  <2>1. ClaimBacked(policy)'
    BY <1>4, FrameLemma
  <2>2. ClaimBacked(report)'
    BY <1>4, FrameLemma
  <2>3. AckFrozen' /\ ParentKnows'
    BY <1>4, FrameLemma
  <2>4. KillComing' /\ AnswerOrder' /\ VerdictReady' /\ ReportCurrent'
    BY <1>4, FrameLemma
  <2>5. AnswerBelievedOnlyInTime' /\ NoSelfInflictedDrainLeak'
    BY <1>4, FrameLemma
  <2> QED
    BY <2>1, <2>2, <2>3, <2>4, <2>5
<1>5. CASE SpawnWorker
  <2> USE DEF SpawnWorker
  <2>c. {"process_boundary", "wall_clock"} \in SUBSET (CAPABILITIES \ PROMOTABLE)
    BY DEF CAPABILITIES, PROMOTABLE
  <2>1. Enforced(policy') \subseteq Enforced(policy)
    <3> HIDE DEF Enforced
    <3>1. Enforced(Fail(policy, {"process_boundary", "wall_clock"})) = Enforced(policy)
      BY <2>c, FrameLemma
    <3>a. Enforced(ApplyUnixPolicy(policy, host)) = {}
      BY PromotionLemma
    <3>2. Enforced(Establish(ApplyUnixPolicy(policy, host), {"process_boundary", "wall_clock"})) = {}
      BY <2>c, <3>a, FrameLemma
    <3> QED
      BY <1>5, <3>1, <3>2
  <2>2. report' = report \/ report' = policy'
    BY <1>5
  <2>3. ClaimBacked(policy)' /\ ClaimBacked(report)'
    BY <1>5, <2>1, <2>2
  <2>4. AckFrozen' /\ ParentKnows' /\ KillComing' /\ AnswerOrder' /\ VerdictReady' /\ ReportCurrent'
    BY <1>5
  <2>5. AnswerBelievedOnlyInTime' /\ NoSelfInflictedDrainLeak'
    BY <1>5
  <2> QED
    BY <2>3, <2>4, <2>5
<1>6. CASE WaitReturns
  BY <1>6 DEF WaitReturns, Reap
<1>7. CASE WaitTimesOut
  BY <1>7 DEF WaitTimesOut
<1>8. CASE WaitInterrupted
  BY <1>8 DEF WaitInterrupted
<1>9. CASE PollBeforeSignal
  BY <1>9 DEF PollBeforeSignal, Reap, TypeOK
<1>10. CASE SendSigterm
  BY <1>10 DEF SendSigterm, SignalGroup
<1>11. CASE GraceEnds
  BY <1>11 DEF GraceEnds, Reap, SignalGroup, TypeOK
<1>12. CASE KillWaitEnds
  BY <1>12 DEF KillWaitEnds, Reap, TypeOK
<1>13. CASE CloseWriteEnds
  BY <1>13 DEF CloseWriteEnds
<1>14. CASE HandleException
  BY <1>14 DEF HandleException
<1>15. CASE JoinDrainers
  BY <1>15 DEF JoinDrainers, HeldByProcess
<1>16. CASE IngestBootstrapAck
  <2> USE DEF IngestBootstrapAck
  <2>1. CASE AckStatus = "ok"
    <3>1. /\ ack = "whole" /\ AckContradictions(claims, host) = {}
          /\ evidence' = "ok" /\ report' = policy'
      BY <1>16, <2>1 DEF AckStatus, TypeOK
    <3> HIDE DEF Enforced
    <3>2. Enforced(policy') = {c \in PROMOTABLE : claims[c] = "applied"}
      BY <1>16, <2>1, PromotionLemma
    <3>3. ClaimBacked(policy)' /\ ClaimBacked(report)'
      BY <1>16, <3>1, <3>2
    <3> QED
      BY <1>16, <3>3
  <2>2. CASE AckStatus # "ok"
    <3>1. policy' = policy /\ report' = report
      BY <1>16, <2>2
    <3>2. Enforced(policy) = {}
      BY <2>2 DEF AckStatus
    <3>3. ClaimBacked(policy)' /\ ClaimBacked(report)'
      BY <1>16, <3>1, <3>2
    <3> QED
      BY <1>16, <3>1, <3>3
  <2> QED
    BY <2>1, <2>2
<1>17. CASE ReadResponse
  BY <1>17 DEF ReadResponse, ResponseOutcome, ReasonFor, TypeOK, ResponseState
<1>18. CASE ReadRaises
  BY <1>18 DEF ReadRaises
<1>19. CASE FinallyTerminate
  BY <1>19 DEF FinallyTerminate, Reap
<1>20. CASE RemoveWorkspace
  BY <1>20 DEF RemoveWorkspace
<1>21. CASE ApplyRestrictions
  <2>1. applied' # Untried
    BY <1>21 DEF ApplyRestrictions, BootstrapResults, Untried, PROMOTABLE, AckState
  <2> QED
    BY <1>21, <2>1 DEF ApplyRestrictions, BootstrapResults
<1>22. CASE WriteAck
  BY <1>22 DEF WriteAck
<1>23. CASE PublishAck
  BY <1>23 DEF PublishAck
<1>24. CASE ReadSample
  BY <1>24 DEF ReadSample
<1>25. CASE StartHelper
  BY <1>25 DEF StartHelper
<1>26. CASE WriteAnswer
  BY <1>26 DEF WriteAnswer
<1>27. CASE PublishAnswer
  BY <1>27 DEF PublishAnswer
<1>28. CASE AnswerFailure
  BY <1>28 DEF AnswerFailure
<1>29. CASE AnswerRubbish
  BY <1>29 DEF AnswerRubbish
<1>30. CASE WorkerExits
  BY <1>30 DEF WorkerExits
<1>31. CASE WorkerCrashes
  BY <1>31 DEF WorkerCrashes
<1>32. CASE HelperEnds
  BY <1>32 DEF HelperEnds
<1>33. CASE DrainersReachEof
  BY <1>33 DEF DrainersReachEof, HeldByProcess
<1>34. CASE UNCHANGED vars
  BY <1>34 DEF vars
<1> QED
  BY <1>1, <1>2, <1>3, <1>4, <1>5, <1>6, <1>7, <1>8, <1>9, <1>10, <1>11, <1>12,
     <1>13, <1>14, <1>15, <1>16, <1>17, <1>18, <1>19, <1>20, <1>21, <1>22, <1>23,
     <1>24, <1>25, <1>26, <1>27, <1>28, <1>29, <1>30, <1>31, <1>32, <1>33, <1>34
  DEF Next, Parent, Child

-----------------------------------------------------------------------------
(* The invariant, and the properties of WorkerRun it implies *)

(***************************************************************************)
(* The invariant holds when run() is entered.                              *)
(***************************************************************************)
LEMMA InitInvariant == Init => IInv
<1> SUFFICES ASSUME Init PROVE IInv
  OBVIOUS
<1> USE HostsAssumption DEF Init
<1>1. TypeOK
  <2>1. policy \in [CAPABILITIES -> CapabilityState]
    BY DEF CapabilityState
  <2>2. applied \in [PROMOTABLE -> AckState \cup {"untried"}]
        /\ claims \in [PROMOTABLE -> AckState \cup {"untried"}]
    BY DEF Untried
  <2>3. signals \in [{"worker", "helper"} -> SUBSET {"TERM", "KILL"}]
    OBVIOUS
  <2> QED
    BY <2>1, <2>2, <2>3 DEF TypeOK, ParentPC, Outcome, WorkerState, ResponseState
<1>2. Strengthening
  BY DEF Strengthening, AckFrozen, Untried, ClaimBacked, Enforced, ParentKnows,
         KillComing, AnswerOrder, VerdictReady, ReportCurrent, WorkerAlive,
         AnswerBelievedOnlyInTime, NoSelfInflictedDrainLeak, PROMOTABLE, CAPABILITIES
<1> QED
  BY <1>1, <1>2 DEF IInv, Strengthening

(***************************************************************************)
(* IInv holds throughout every run of runner.run, on any host and with any *)
(* test hook of the worker.                                                *)
(***************************************************************************)
THEOREM Invariant == Spec => []IInv
<1>1. Init => IInv
  BY InitInvariant
<1>2. IInv /\ [Next]_vars => IInv'
  BY TypeStep, StrengtheningStep DEF IInv, Strengthening
<1> QED
  BY <1>1, <1>2, PTL DEF Spec

(***************************************************************************)
(* The state of parent, worker, descendant and files always has its type.  *)
(***************************************************************************)
THEOREM TypeCorrect == Spec => []TypeOK
BY Invariant, PTL DEF IInv

(***************************************************************************)
(* Unless the worker lies, a restriction is published as "enforced" only   *)
(* if the worker really applied it (bootstrap.ingest, runner._finish).     *)
(***************************************************************************)
THEOREM EnforcedIsApplied == Spec => []EnforcedMeansApplied
<1>1. IInv => EnforcedMeansApplied
  BY DEF IInv, TypeOK, AckFrozen, ClaimBacked, AttestedResults, Enforced,
         EnforcedMeansApplied, PROMOTABLE
<1> QED
  BY <1>1, Invariant, PTL

(***************************************************************************)
(* No restriction is promoted unless the whole ACK is valid and consistent *)
(* with the host (bootstrap.py: never promotes on invalid evidence).       *)
(***************************************************************************)
THEOREM PromotionNeedsAck == Spec => []NoPromotionWithoutAck
<1>1. IInv => NoPromotionWithoutAck
  BY DEF IInv, ClaimBacked, NoPromotionWithoutAck
<1> QED
  BY <1>1, Invariant, PTL

(***************************************************************************)
(* An answer that races the timeout is never believed (the early return on *)
(* timeout in runner.run).                                                 *)
(***************************************************************************)
THEOREM NoLateAnswer == Spec => []AnswerBelievedOnlyInTime
BY Invariant, PTL DEF IInv

(***************************************************************************)
(* The workspace is removed only after the worker has ended or SIGKILL was *)
(* sent to it (the finally block of runner.run, terminate_tree).           *)
(***************************************************************************)
THEOREM WorkerGoesFirst == Spec => []WorkspaceFreedAfterWorker
<1>1. IInv => WorkspaceFreedAfterWorker
  BY DEF IInv, KillComing, WorkspaceFreedAfterWorker
<1> QED
  BY <1>1, Invariant, PTL

(***************************************************************************)
(* The parent never abandons a drainer thread on a pipe that only it holds *)
(* open (BoundedStream.close_write and finish, output.py).                 *)
(***************************************************************************)
THEOREM DrainLeakHasCause == Spec => []NoSelfInflictedDrainLeak
BY Invariant, PTL DEF IInv

(***************************************************************************)
(* What is published when the run is over is what the policy says          *)
(* (runner._finish takes the snapshot again).                              *)
(***************************************************************************)
THEOREM ReportFresh == Spec => []PublishedReportIsFresh
<1>1. IInv => PublishedReportIsFresh
  BY DEF IInv, ReportCurrent, PublishedReportIsFresh
<1> QED
  BY <1>1, Invariant, PTL

(***************************************************************************)
(* The only steps that signal are the two killpg calls of terminate_tree   *)
(* (process.py).                                                           *)
(***************************************************************************)
LEMMA SignalStep ==
  ASSUME IInv, Next, signals' # signals
  PROVE  SendSigterm \/ GraceEnds
BY DEF Next, Parent, Child, CreateWorkspace, WriteRequest, CreateOutputStreams,
       StartDrainers, SpawnWorker, WaitReturns, WaitTimesOut, WaitInterrupted,
       PollBeforeSignal, KillWaitEnds, CloseWriteEnds, HandleException, JoinDrainers,
       IngestBootstrapAck, ReadResponse, ReadRaises, FinallyTerminate, RemoveWorkspace,
       ApplyRestrictions, WriteAck, PublishAck, ReadSample, StartHelper, WriteAnswer,
       PublishAnswer, AnswerFailure, AnswerRubbish, WorkerExits, WorkerCrashes,
       HelperEnds, DrainersReachEof

(***************************************************************************)
(* killpg is never called for a worker that was reaped or never started    *)
(* (terminate_tree polls before each signal).                              *)
(***************************************************************************)
THEOREM NoStraySignal == Spec => NoSignalAfterReap
<1>1. IInv /\ [Next]_vars => [signals' # signals => worker \notin {"none", "reaped"}]_vars
  BY SignalStep DEF SendSigterm, GraceEnds, IInv, ParentKnows, vars
<1> QED
  BY <1>1, Invariant, PTL DEF Spec, NoSignalAfterReap

-----------------------------------------------------------------------------
(* WorkerRun implements WorkerContract *)

(***************************************************************************)
(* A step of a run that is not over, and that changes neither the          *)
(* restrictions nor the answer, is invisible to the caller of run().       *)
(***************************************************************************)
LEMMA InvisibleStep ==
  ASSUME pc # "done", pc' # "done",
         UNCHANGED <<applied, sampleRead>>,
         (response' = "whole") <=> (response = "whole")
  PROVE  UNCHANGED Contract!vars
BY DEF Contract!vars

(***************************************************************************)
(* A step of the worker that only moves it along is invisible at any time. *)
(***************************************************************************)
LEMMA WorkerOnlyStep ==
  ASSUME UNCHANGED <<pc, outcome, report, applied, sampleRead>>,
         (response' = "whole") <=> (response = "whole")
  PROVE  UNCHANGED Contract!vars
BY DEF Contract!vars, Enforced

(***************************************************************************)
(* Every step of WorkerRun by an honest worker is a step of the contract   *)
(* or invisible to it: the last step of run() publishes, the bootstrap     *)
(* restricts, and the worker opens the sample and answers.                 *)
(***************************************************************************)
LEMMA ContractStep ==
  ASSUME "contradict" \notin Hooks
  PROVE  IInv /\ IInv' /\ [Next]_vars => [Contract!Next]_(Contract!vars)
<1> SUFFICES ASSUME IInv, IInv', [Next]_vars PROVE [Contract!Next]_(Contract!vars)
  OBVIOUS
<1>1. CASE CreateWorkspace \/ WriteRequest \/ CreateOutputStreams \/ StartDrainers
           \/ SpawnWorker \/ WaitReturns \/ WaitTimesOut \/ WaitInterrupted
  <2>1. /\ pc # "done" /\ pc' # "done"
        /\ UNCHANGED <<applied, sampleRead, response>>
    BY <1>1 DEF CreateWorkspace, WriteRequest, CreateOutputStreams, StartDrainers,
                SpawnWorker, WaitReturns, WaitTimesOut, WaitInterrupted, Reap
  <2> QED
    BY <2>1, InvisibleStep
<1>2. CASE PollBeforeSignal \/ SendSigterm \/ GraceEnds \/ KillWaitEnds
           \/ FinallyTerminate
  <2>1. /\ pc # "done" /\ pc' # "done"
        /\ UNCHANGED <<applied, sampleRead, response>>
    BY <1>2 DEF PollBeforeSignal, SendSigterm, GraceEnds, KillWaitEnds,
                FinallyTerminate, Reap, IInv, TypeOK
  <2> QED
    BY <2>1, InvisibleStep
<1>3. CASE CloseWriteEnds \/ HandleException \/ JoinDrainers \/ IngestBootstrapAck
           \/ ReadResponse \/ ReadRaises
  <2>1. /\ pc # "done" /\ pc' # "done"
        /\ UNCHANGED <<applied, sampleRead, response>>
    BY <1>3 DEF CloseWriteEnds, HandleException, JoinDrainers, IngestBootstrapAck,
                ReadResponse, ReadRaises
  <2> QED
    BY <2>1, InvisibleStep
<1>4. CASE RemoveWorkspace
  <2>1. /\ pc = "remove" /\ pc' = "done"
        /\ UNCHANGED <<outcome, report, applied, sampleRead, response, hook>>
    BY <1>4 DEF RemoveWorkspace
  <2>2. outcome' \in Outcome \ {"pending"}
    BY <2>1 DEF IInv, TypeOK, VerdictReady
  <2>3. outcome' = "child_result" => response = "whole"
    BY <2>1 DEF IInv, AnswerBelievedOnlyInTime
  <2>4. Enforced(report)' \subseteq {c \in PROMOTABLE : applied[c] = "applied"}
    BY <2>1 DEF IInv, TypeOK, ClaimBacked, Enforced, AckFrozen, AttestedResults, PROMOTABLE
  <2>5. Contract!Publish
    BY <2>1, <2>2, <2>3, <2>4 DEF Contract!Publish
  <2> QED
    BY <2>5 DEF Contract!Next
<1>5. CASE ApplyRestrictions
  <2> DEFINE force == {c \in PROMOTABLE : applied[c] = "applied"}
  <2>1. /\ UNCHANGED <<pc, outcome, report, sampleRead, response>>
        /\ ~sampleRead /\ response # "whole"
    BY <1>5 DEF ApplyRestrictions, IInv, AnswerOrder
  <2>2. force = {}
    BY <1>5 DEF ApplyRestrictions, IInv, AnswerOrder, Untried
  <2>3. \E more \in SUBSET PROMOTABLE : force' = force \cup more
    BY <2>2
  <2>4. Contract!Restrict
    BY <2>1, <2>3 DEF Contract!Restrict, Enforced
  <2> QED
    BY <2>4 DEF Contract!Next
<1>6. CASE ReadSample
  <2>1. Contract!OpenSample
    BY <1>6 DEF ReadSample, IInv, AnswerOrder, Contract!OpenSample, Enforced
  <2> QED
    BY <2>1 DEF Contract!Next
<1>7. CASE PublishAnswer
  <2>1. /\ UNCHANGED <<pc, outcome, report, applied, sampleRead>>
        /\ response = "partial"
    BY <1>7 DEF PublishAnswer, IInv, AnswerOrder
  <2>2. CASE response' = "whole"
    <3>1. Contract!Answer
      BY <2>1, <2>2 DEF Contract!Answer, Enforced
    <3> QED
      BY <3>1 DEF Contract!Next
  <2>3. CASE response' # "whole"
    BY <2>1, <2>3, WorkerOnlyStep
  <2> QED
    BY <2>2, <2>3
<1>8. CASE \/ WriteAck \/ PublishAck \/ StartHelper \/ WriteAnswer \/ AnswerFailure
           \/ AnswerRubbish \/ WorkerExits \/ WorkerCrashes \/ HelperEnds
           \/ DrainersReachEof \/ UNCHANGED vars
  <2>1. UNCHANGED <<pc, outcome, report, applied, sampleRead>>
    BY <1>8 DEF WriteAck, PublishAck, StartHelper, WriteAnswer, AnswerFailure,
                AnswerRubbish, WorkerExits, WorkerCrashes, HelperEnds,
                DrainersReachEof, vars
  <2>2. (response' = "whole") <=> (response = "whole")
    BY <1>8 DEF WriteAck, PublishAck, StartHelper, WriteAnswer, AnswerFailure,
                AnswerRubbish, WorkerExits, WorkerCrashes, HelperEnds,
                DrainersReachEof, vars, IInv, AnswerOrder
  <2> QED
    BY <2>1, <2>2, WorkerOnlyStep
<1> QED
  BY <1>1, <1>2, <1>3, <1>4, <1>5, <1>6, <1>7, <1>8 DEF Next, Parent, Child

(***************************************************************************)
(* A run of an honest worker looks to its caller like WorkerContract       *)
(* (docs/ISOLATE_PROTOCOL.md), on every host.                              *)
(***************************************************************************)
THEOREM Refinement ==
  ASSUME "contradict" \notin Hooks
  PROVE  Spec => ImplementsContract
<1>1. Init => Contract!Init
  BY DEF Init, Contract!Init, Untried
<1>2. IInv /\ IInv' /\ [Next]_vars => [Contract!Next]_(Contract!vars)
  BY ContractStep
<1> QED
  BY <1>1, <1>2, Invariant, PTL DEF Spec, ImplementsContract, Contract!Spec

=============================================================================
