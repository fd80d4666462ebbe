SPECIFICATION Spec
CONSTANTS
  t1 = t1
  t2 = t2
  Threads = {t1, t2}
  Procs = {"p1", "p2"}
  Owner <- TwoProcesses
  MaxEdits = 0
  Leftovers <- MCLeftovers
  MaxCrashes = 0
  MaxEvents = 0
  ProcessLimit = 1
PROPERTY PublishedIsWhole
