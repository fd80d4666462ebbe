SPECIFICATION Spec
CONSTANTS
  Platforms = {"win32"}
  MaxTroubles = 1
INVARIANT IncompleteStaysDegraded
