\* Ends with a counterexample.  The others of section 6 of the README on this
\* module are had with another property in the last line and, where it says so,
\* another constant:
\*   FreedOnce, MapsAllocated, CleanupGivesBack
\*   AlwaysMapsOwnArea: Callers = {c1}, Faults = {"copy"}
\*   CleanupGivesAll: Callers = {c1}, Faults = {"kmalloc"}
SPECIFICATION Spec
CONSTANTS
  Callers = {c1, c2}
  Areas = {a1, a2, a3}
  Pages = {1, 2}
  MaxIndex = 4
  Faults = {}
  All = All
  None = None
SYMMETRY Symmetry
PROPERTIES AlwaysMapsOwnArea
