SPECIFICATION Spec
CONSTANTS
  MaxEdits = 2
  NoFile = NoFile
INVARIANTS
  TypeOK
  FlagsReachBuild
  

  
