SPECIFICATION ImpactSpec
CONSTANTS
  Releases = {1, 2, 3}
  None = None
  MaxMoments = 8
  MaxTable = 5
  Files = {FileA, FileB}
  FileA = FileA
  FileB = FileB
  FramesOf <- MCFramesOf
  Changed <- MCChanged
  TagSets <- MCTagSets
  Bases <- MCBases
INVARIANTS UnknownsExplained NeverCleared VolumeOfListedIssues
PROPERTIES OpenRegressionRight
