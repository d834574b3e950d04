SPECIFICATION Spec
CONSTANTS
  Stem = {1, 2, 3}
  NoIndex = NoIndex
  NoTag = NoTag
  Failure = Failure
  Kernel = {k1, k2}
  Called <- One
  Dependencies <- NoneOrOne
  MaxVersion = 1
  MaxCalls = 2
  MaxFailures = 1
SYMMETRY AnyKernels
INVARIANTS
  TypeOK
  DestLoadable
  SubsetServes
CHECK_DEADLOCK FALSE
