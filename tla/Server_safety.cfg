SPECIFICATION FairSpec
CONSTANTS
  Countdown = 2
  Starts = 2
  Buckets = 53
  MaxClients = 3
  MaxAdds = 3
  MaxTurns = 1
  Names = {anna, ben}
INVARIANTS
  BooksBalance NeverStalls
PROPERTIES
  ConsentExpires StallsOnlyByDeparture ServesMatch CountdownEnds
CHECK_DEADLOCK FALSE
