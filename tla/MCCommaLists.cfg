SPECIFICATION Spec
CONSTANTS
  Stem = {1, 2, 3}
  Form = {"plain", "tight"}
  MaxNames = 2
  Foreign = Foreign
INVARIANTS
  FailureExplained
CHECK_DEADLOCK FALSE
