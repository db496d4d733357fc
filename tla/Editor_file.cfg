SPECIFICATION Spec
CONSTANTS
  Names = {"", "New player", "anna"}
  NewName = "New player"
  Keys = {up, w}
  Commands = {turn}
  DefaultKey = up
  MaxPlayers = 3
INVARIANTS
  FormShowsPlayers
PROPERTIES
  PlayersRemembered
CHECK_DEADLOCK FALSE
