SPECIFICATION Spec
CONSTANTS
  Items = {"i1", "i2", "i3", "i4"}
  PageSize = 2
  Attempts = 4
  AlwaysNext = TRUE
  InitRows <- MCInitRows
  MaxChanges = 2
INVARIANTS ListingAccurate LookupAnswered
PROPERTIES CallEnds
