SPECIFICATION ContextSpec
CONSTANTS
  Versions <- MCVersions
  LastCommit = 2
  Keys = {k1}
  k1 = k1
  TicketsOf <- MCTicketsOf
  JiraKey <- MCJiraKey
  Missing = Missing
  Jobs = {j1, j2}
  InitTags <- MCNone
  MaxFailures = 0
  Inserted = FALSE
  Touching = {2}
INVARIANTS AnswerOfOneMoment SuspectsJudged
