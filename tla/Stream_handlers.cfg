SPECIFICATION Spec
CONSTANTS
  Header = 2
  MaxPacketLen = 4
  Sizes = {1, 4}
  MaxSent = 2
INVARIANT
  HandlersHaveSockets
CHECK_DEADLOCK FALSE
