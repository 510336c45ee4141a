CHECK_DEADLOCK FALSE
SPECIFICATION Spec
CONSTANTS
  Lengths = {1, 2, 3}
  Misalignments = {0}
  DifferSets <- MCDifferSets
INVARIANT EqualReturnsZero
