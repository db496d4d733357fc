SPECIFICATION FairSpec
CONSTANTS
  Header = 2
  MaxPacketLen = 4
  Sizes = {1, 4, 5}
  MaxSent = 3
INVARIANTS
  TypeOK NothingHeldBack
PROPERTIES
  InOrder EverythingArrives
CHECK_DEADLOCK FALSE
