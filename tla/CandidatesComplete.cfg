SPECIFICATION FairSpec
CONSTANTS
  t1 = t1
  t2 = t2
  Thread = {t1, t2}
  NoThread = NoThread
  Slot <- TwoPlatforms
  Gpu <- Gpus
  MaxPlatforms = 2
  EnvIndex <- UnsetOrFirst
  MaxCalls = 1
  MaxChanges = 1
PROPERTIES
  CandidatesComplete
CHECK_DEADLOCK FALSE
