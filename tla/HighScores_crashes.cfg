SPECIFICATION Spec
CONSTANTS
  Types = {together}
  Totals = {1, 2}
  Best = 2
  LastSecond = 2
INVARIANTS
  TypeOK ShownIsKept UpToDate ReportRight
CHECK_DEADLOCK FALSE
