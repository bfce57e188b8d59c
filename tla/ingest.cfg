SPECIFICATION FairSpec
CONSTANTS
  Versions <- MCVersions
  LastCommit = 3
  Keys = {k1, k2}
  k1 = k1
  k2 = k2
  TicketsOf <- MCTicketsOf
  JiraKey <- MCJiraKey
  Missing = Missing
  Jobs = {j1, j2}
  InitTags <- FirstTagged
  MaxFailures = 2
  Inserted = FALSE
INVARIANTS Whole ContentsMatchTags NoStandoff
PROPERTIES TagNotErased RerunIdentical TagsArrive
