SPECIFICATION Spec
CONSTANTS
  Cases = {c1}
  LastRep <- MCLastRep
  Variants <- MCVariants
  Narratives = {n1, n2}
  None = None
  Torn = Torn
SYMMETRY AnyNarrative
INVARIANTS OneRow OneReference
PROPERTIES NothingLost
CHECK_DEADLOCK FALSE
