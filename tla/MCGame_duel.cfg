SPECIFICATION MCSpec
CONSTANTS
  Width = 5
  Height = 5
  NumPlayers = 2
  StartLength = 2
  GrowthFactor = 2
  LastNumber = 2
  StartLevel = 1
  StartLives = 2
  LevelDefs <- ThreeLevels
INVARIANTS
  BoardFaithful NobodyGoesFirst SnakesConnected GrowthPaid
PROPERTY
  UnattendedEnds
CHECK_DEADLOCK FALSE
