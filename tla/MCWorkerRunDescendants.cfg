SPECIFICATION Spec
CONSTANTS
  Hosts <- MCOneHost
  Hooks = {"none"}
INVARIANT DescendantsKilledOnTimeout
CHECK_DEADLOCK FALSE
