SPECIFICATION FairNativeSpec
CONSTANTS
  Stem = {1, 2, 3}
  Form = {"plain", "tight", "qualified", "bare"}
  MaxNames = 2
  Foreign = Foreign
  OtherLoader = {"opencltools_load_kernel_source"}
INVARIANTS
  NativeAnswers
  ReturnedText
  IndependentFirst
  EndsAtSortable
PROPERTIES
  ImplementsLoadOrder
  CallAnswered
CHECK_DEADLOCK FALSE
