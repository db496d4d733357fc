SPECIFICATION FairSpec
CONSTANTS
  MaxClients = 3
  MaxSignals = 2
  MaxPorts = 3
INVARIANTS
  OneComesLate
PROPERTIES
  StopsWhenTold ListensInTheEnd
CHECK_DEADLOCK FALSE
