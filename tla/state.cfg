SPECIFICATION Spec
CONSTANTS
  Backend = Backend
  Os = Os
  Braze = Braze
  Other = Other
  PushValues <- MCPushValues
  ProfileFacts <- MCProfileFacts
  ProfileValues <- MCProfileValues
  v1 = v1
  v2 = v2
  StaleAfter = 1
  Bad = Bad
  MaxRows = 4
  PushMoments = 2
  ProfileMoments = 1
SYMMETRY AnyValue
INVARIANTS BlocksExplained DeliverableOnNews ConsistencyEarned
PROPERTIES LateReportIgnored TimeOnlyBlocks AuthorityMovesOn CopyCatchesUp
