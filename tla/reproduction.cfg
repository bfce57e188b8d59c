SPECIFICATION Spec
CONSTANTS
  i1 = i1
  i2 = i2
  Kinds <- MCKinds
  Installations = {i1, i2}
  Deliverables = {"TRUE"}
  Unmapped = {"log"}
  Mapped = {"main", "push", "crash"}
  Changed = {"push"}
  None = None
  Bad = Bad
  MaxEvents = 3
  MaxBreadcrumbs = 3
  MinSupport = 100
INVARIANTS StepsShared VariantsTell NothingGuessed StateVariesBySubject CulpritConsidered
