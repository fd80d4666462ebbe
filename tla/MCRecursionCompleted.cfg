SPECIFICATION Spec
CONSTANTS
  Contents <- MCContents
  Root = "a"
  Universes <- TwoCopies
  Depths = {1, 2}
INVARIANT CompletedMeansRan
