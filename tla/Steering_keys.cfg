SPECIFICATION Spec
CONSTANTS
  Countdown = 2
  MaxQueue = 4
INVARIANTS
  NoTurnRefused KeysOfPauseDropped
PROPERTIES
  NoTurnWasted
