SPECIFICATION FairSpec
CONSTANTS
  None = None
  Calls <- MCCalls
  Threads = 2
  Rows <- MCRows
  Ttl = 2
INVARIANTS
  TypeOK
  FiguresAreTheDrivers
PROPERTIES
  NoStaleAnswer
  DriverIsAskedRarely
  EveryCallEnds
  ThermalLoopGoesOn
