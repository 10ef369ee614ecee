SPECIFICATION FairSpec
CONSTANTS
  Contents = {"a", "b", "c", "d"}
  Features = {1, 2, 3}
  SizeOf <- MCSizeOf
  FeaturesOf <- MCFeaturesOf
  Bad = {"d"}
  InDir = {"a", "b", "c", "d"}
  OutDirs <- MCOutDirs
  LongLines = FALSE
  MaxKills = 2
  MaxRuns = 2
  NoFile = NoFile
INVARIANTS
  ControlFileRight
  MergeRight
PROPERTIES
  MergeEnds
  RunsInputsOnce
