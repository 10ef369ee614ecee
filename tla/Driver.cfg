SPECIFICATION DriverSpec
CONSTANTS
  CommandLines <- MCCommandLines
  Dirs <- MCDirs
  Contents <- MCContents
  FileUnits <- MCFileUnits
  Targets <- MCTargets
  OK = "ok"
  NoToken = "none"
  Cores = 4
  ReplacementBytes <- MCReplacementBytes
  CleanseRounds = 2
  MaxKills = 1
INVARIANTS
  ChildrenDescend
  JobsRunOnce
  MinimizedFails
  CleansedFails
PROPERTY
  DriverEnds
