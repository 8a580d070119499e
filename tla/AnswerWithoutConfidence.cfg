SPECIFICATION FairSpec
CONSTANTS
  Ratings = {r1}
  Cap = 1
  MaxTexts = 1
  MaxBus = 1
  MaxReplay = 0
  MaxLost = 0
  MaxRestarts = 0
  None = None
PROPERTIES
  NoRatingIsLeftUntriaged
CHECK_DEADLOCK FALSE
