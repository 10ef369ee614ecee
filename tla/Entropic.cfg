SPECIFICATION Spec
CONSTANTS
  Features = {0, 1, 2}
  NumberOfRarestFeatures = 1
  FeatureFrequencyThreshold = 1
  MaxFreq = 3
  MaxMutationFactor = 1
  MaxFeaturesPerRun = 2
  MaxRuns = 5
INVARIANTS
  LocalWithinGlobal
  RareAtLeast
PROPERTIES
  EnergyStays
