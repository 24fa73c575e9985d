SPECIFICATION Spec
CONSTANTS
  Callers = {c1}
  Areas = {a1, a2, a3}
  Pages = {1, 2}
  MaxIndex = 4
  Faults = {"copy", "kmalloc"}
  All = All
  None = None
SYMMETRY Symmetry
INVARIANTS ListConsistent
PROPERTIES MapsOwnArea CleanupGivesBack
