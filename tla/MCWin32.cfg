CONSTANTS
  Objects = {o1, o2}
  Names = {a, b}
  Sizes = {0, 1, 2}
  Handles = {h1, h2, h3}
  MaxSects = 2
  MaxOpens = 4
SYMMETRY Symmetry
SPECIFICATION Spec
CHECK_DEADLOCK FALSE
INVARIANTS TablesExact NothingLeaks OpenedByName
