SPECIFICATION Spec
CONSTANTS
  Features = {0, 1, 2, 3}
  NumberOfRarestFeatures = 1
  FeatureFrequencyThreshold = 2
  MaxFreq = 4
  MaxMutationFactor = 1
  MaxFeaturesPerRun = 2
  MaxRuns = 5
INVARIANT RareOnly
