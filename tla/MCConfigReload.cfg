SPECIFICATION FairSpec
CONSTANTS
  Texts <- Spellings
  Lower <- LowerCase
  Times <- TwoTimes
  MaxWrites = 3
CHECK_DEADLOCK FALSE
INVARIANTS
  TypeOK
  LevelAgrees
PROPERTIES
  SeenIsLoaded
  LevelFollowsFile
  StopEndsChecker
