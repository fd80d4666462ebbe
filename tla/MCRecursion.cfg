SPECIFICATION Spec
CONSTANTS
  Contents <- MCContents
  Root = "a"
  Universes <- MCUniverses
  Depths = {0, 1, 2}
INVARIANTS
  TypeOK
  AnalyzedOnce
  NestingBounded
  EveryMemberLinked
  UnexpandedIsExplained
PROPERTY StartedRunKept
