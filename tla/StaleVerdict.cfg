SPECIFICATION Spec
CONSTANTS
  Ratings = {r1}
  Cap = 1
  MaxTexts = 2
  MaxBus = 2
  MaxReplay = 0
  MaxLost = 0
  MaxRestarts = 0
  None = None
PROPERTIES
  AutoApprovedTextWasTriaged
CHECK_DEADLOCK FALSE
