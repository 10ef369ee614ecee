SPECIFICATION Spec
CONSTANTS
  Contents <- MCContents
  Features <- MCFeatures
  SizeOf <- MCSizeOf
  FeaturesOf <- MCFeaturesOf
  InitialSeeds = {"a", "d"}
  SeedName <- MCSeedName
  Creators = {"k1"}
  SeedFactor = 1
  Word = 8
  MaxFreq = 2
  NoContent = NoContent
INVARIANTS
  Ownership
  AddedOnce
  DiskCoversFeatures
  DrawsSound
  NonZeroOnce
