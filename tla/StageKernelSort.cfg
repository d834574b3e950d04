SPECIFICATION FairStageSpec
CONSTANTS
  Stem = {1, 2, 3, 4}
  Form = {"plain"}
  MaxNames = 2
  MaxRefused = 1
  Foreign = Foreign
INVARIANTS
  SortTypeOK
  EndsAtSortable
  CyclesReported
  StagedAsSorted
PROPERTIES
  ImplementsLoadOrder
  StageEnds
CHECK_DEADLOCK FALSE
