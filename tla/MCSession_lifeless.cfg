SPECIFICATION Spec
CONSTANTS
  Names <- MCNames
  Mine <- MCMine
  Options <- MCOptions
  MaxClients = 2
  MaxAdds = 2
  MaxSent = 2
  MaxTold = 1
INVARIANT
  LivesLast
CHECK_DEADLOCK FALSE
