SPECIFICATION Spec
CONSTANTS
  Platforms = {"win32", "linux"}
  MaxTroubles = 3
INVARIANTS
  TypeOK
  EnforcedMeansFailed
  NetworkEnforcedIsProbed
