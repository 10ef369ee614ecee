SPECIFICATION Spec
CONSTANTS
  Units = {"n", "w", "v", "a", "b", "r"}
  Features = {0, 1}
  SizeOf <- MCSizeOf
  FeaturesOf <- MCFeaturesOf
  Rejected = {"r"}
  NewLine = "n"
  NoUnit = "none"
  SeedCorpora <- MCSeedCorpora
  OptionSets <- MCOptionSets
  MutateDepth = 2
  MaxOthers = 1
INVARIANTS
  OwnersRight
  AlwaysPickable
  OneUnitEach
  
