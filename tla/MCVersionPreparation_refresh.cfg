CONSTANTS
  Operators = {o1, o2}
  Human = human
  Occupied = {1}
  MaxVersion = 3
  MaxRev = 2
  MaxEdits = 1
SPECIFICATION Spec
SYMMETRY Symmetry
PROPERTY RefreshedMerges
CHECK_DEADLOCK FALSE
