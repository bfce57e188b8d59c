SPECIFICATION FairSpec
CONSTANTS
  Issues = {i1, i2}
  i1 = i1
  i2 = i2
  IngestDays = 3
  RetentionDays = 4
  LastDay = 6
  MaxEvents = 3
  MaxFailures = 1
INVARIANTS EventsHaveIncidents NoEventSlipsThrough OverdueOnlyInPassing
PROPERTIES OldEventsGo
