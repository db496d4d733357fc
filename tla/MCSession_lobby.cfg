SPECIFICATION FairSpec
CONSTANTS
  Names <- MCNames
  Mine <- MCMine
  Options <- MCOptions
  MaxClients = 2
  MaxAdds = 2
  MaxSent = 2
  MaxTold = 1
INVARIANTS
  TypeOK LevelBeforeTick SnakesAccounted ConnectedPlays BoxIsTold
PROPERTY
  GameOverShown
CHECK_DEADLOCK FALSE
