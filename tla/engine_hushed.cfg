SPECIFICATION FairSpec
CONSTANTS
  Unset = Unset
  Names <- MCNames
  Config <- MCConfig
  Machine <- MCMsi
  Tasks <- ThermalOnly
  Clients <- OneClient
  Requests <- MCRequests
  PpdProfiles <- MCPpdProfiles
  Readings <- MCReadings
  Gaps <- MCGaps
  Faults <- NoFaults
  Boot <- MCBoot
  MayCrash = FALSE
PROPERTY
  TripsRaiseFans
