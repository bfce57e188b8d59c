SPECIFICATION FairSpec
CONSTANTS
  Requests = {r1, r2}
  Packets = {p1, p2}
  Subjects = {s1}
  Cites = {a, b, z}
  p1 = p1
  p2 = p2
  s1 = s1
  a = a
  b = b
  z = z
  SubjectOf <- MCSubjectOf
  IdsOf <- MCIdsOf
  Drafts <- MCDrafts
  RetentionDays = 1
  MaxTime = 2
  Absent = Absent
  NoText = NoText
PROPERTIES YoungTextKept
CHECK_DEADLOCK FALSE
