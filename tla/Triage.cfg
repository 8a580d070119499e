SPECIFICATION FairSpec
CONSTANTS
  Ratings = {r1}
  Cap = 1
  MaxTexts = 2
  MaxBus = 2
  MaxReplay = 1
  MaxLost = 1
  MaxRestarts = 1
  None = None
INVARIANTS
  PipelineInv
PROPERTIES
  AutomationSparesEscalated
  YoungVerdictsAdvance
  StalledFlagIsLate
  OnlyUnfitAnswersLeaveUntriaged
CHECK_DEADLOCK FALSE
