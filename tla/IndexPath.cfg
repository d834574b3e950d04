SPECIFICATION FairSpec
CONSTANTS
  Stem = {1}
  NoIndex = NoIndex
  NoTag = NoTag
  Failure = Failure
  Kernel = {1}
  Called <- NoneOrOne
  Alike <- NoAlike
  Dependencies <- NoneOrOne
  OutputPath <- AnyPath
  MaxVersion = 1
  MaxKernelEdits = 1
  MaxCrashes = 1
PROPERTIES
  WriteLeavesRds
CHECK_DEADLOCK FALSE
