SPECIFICATION Spec
CONSTANTS
  EngineLists <- MCEngineLists
  PCs = {"f", "f1", "g"}
  EntryOf <- MCEntryOf
  Interesting = {"f"}
  Inputs = {"x", "y", "z", "w"}
  Trace <- MCTrace
  SizeOf <- MCSizeOf
  Seeds = {"x", "z"}
  Jobs = {1, 2}
  MaxJobs = 4
INVARIANTS
  CovIsObserved
  SizesExact
  HitsCounted
  CreditsRight
