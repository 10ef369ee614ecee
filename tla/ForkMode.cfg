SPECIFICATION FairSpec
CONSTANTS
  NumJobs = 2
  MaxJobs = 4
  Engines = {"afl"}
  Endless = {}
  OwnDir = {"afl"}
  Codes = {"ok", "ignored", "fatal", "interrupt"}
INVARIANTS
  JobInOnePlace
  InCirculation
  QueuedBeforeStopRuns
PROPERTIES
  StopEnds
