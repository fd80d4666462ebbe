SPECIFICATION Spec
CONSTANTS
  t1 = t1
  t2 = t2
  Threads = {t1, t2}
  Procs = {"p1"}
  Owner <- OneProcess
  MaxEdits = 1
  Leftovers <- MCLeftovers
  MaxCrashes = 1
  MaxEvents = 1
  ProcessLimit = 1
INVARIANTS
  TypeOK
  ContainedCanRead
  ClaimsAreBacked
  JobBoundsWorkers
PROPERTY PublishedIsWhole
SYMMETRY Symmetry
VIEW MCView
