SPECIFICATION FairSpec
CONSTANTS
  Units = {"a", "b"}
  NoUnit = NoUnit
  Mixed = Mixed
  UnitTimeoutSec = 1
INVARIANTS
  ArtifactsRight
  TimeoutsRight
PROPERTIES
  ProblemsEnd
