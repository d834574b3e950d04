SPECIFICATION FairSpec
CONSTANTS
  Stem = {1, 2, 3}
  Form = {"plain"}
  MaxNames = 2
  MaxRuns = 2
  MaxEdits = 1
  Foreign = Foreign
INVARIANTS
  TypeOK
  WalkFindsNeeds
  SettledTagsAgree
PROPERTIES
  RerunChangesNothing
  WritesOnlyResolved
  RunEnds
CHECK_DEADLOCK FALSE
