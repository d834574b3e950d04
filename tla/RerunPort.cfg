SPECIFICATION Spec
CONSTANTS
  MaxEdits = 1
  NoFile = NoFile
INVARIANTS
  RerunKeepsFlags
