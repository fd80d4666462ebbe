SPECIFICATION FairSpec
CONSTANTS
  Hosts <- MCOneHost
  Hooks = {"none", "crash", "hang", "fail_memory", "skip_ack", "truncated"}
PROPERTIES
  RunEnds
  ImplementsContract
CHECK_DEADLOCK FALSE
