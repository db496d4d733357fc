SPECIFICATION Spec
CONSTANTS
  Width = 80
  Height = 48
INVARIANTS
  TypeOK OnlyDrawsShutIn FirstTickKillsNobody
CHECK_DEADLOCK FALSE
