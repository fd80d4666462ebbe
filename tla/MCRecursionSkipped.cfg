SPECIFICATION Spec
CONSTANTS
  Contents <- MCContents
  Root = "a"
  Universes <- Nested
  Depths = {1, 2}
INVARIANT SkippedMeansListed
