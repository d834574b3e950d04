SPECIFICATION Spec
CONSTANTS
  Stem = {1, 2, 3}
  NoIndex = NoIndex
  NoTag = NoTag
  Failure = Failure
  Kernel = {1}
  Called <- NoneOrOne
  Alike <- LastAlike
  Dependencies <- NoneOrOne
  OutputPath <- PlainPath
  MaxVersion = 1
  MaxKernelEdits = 1
  MaxCrashes = 1
INVARIANTS
  TypeOK
  TextServesKernel
  LoadersAgree
  IndexesSound
  FilesDifferOnlyTorn
CHECK_DEADLOCK FALSE
