SPECIFICATION Spec
CONSTANTS
  Hosts <- MCHosts
  Hooks = {"none", "crash", "hang", "unsupported_filesystem", "fail_memory", "skip_ack", "malformed", "truncated", "contradict"}
INVARIANTS
  TypeOK
  EnforcedMeansApplied
  NoPromotionWithoutAck
  AnswerBelievedOnlyInTime
  WorkspaceFreedAfterWorker
  NoSelfInflictedDrainLeak
  PublishedReportIsFresh
PROPERTY NoSignalAfterReap
CHECK_DEADLOCK FALSE
