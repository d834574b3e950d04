SPECIFICATION Spec
CONSTANTS
  Piece = {1, 2}
  Row <- SomeRows
  MaxRows = 2
  MaxEdits = 1
  MaxCalls = 2
  NoFile = NoFile
  Failure = Failure
INVARIANTS
  TypeOK
  TextFollowsManifest
  WrittenFilesAgree
PROPERTIES
  RdsFollowsTsv
CHECK_DEADLOCK FALSE
