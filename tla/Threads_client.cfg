SPECIFICATION FairSpec
CONSTANTS
  MaxNet = 3
  MaxDials = 3
  MaxInRead = 2
INVARIANTS
  AllHandledBeforeNext
PROPERTIES
  Delivers NothingForgotten QuitEnds
CHECK_DEADLOCK FALSE
