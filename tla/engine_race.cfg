SPECIFICATION Spec
CONSTANTS
  Unset = Unset
  Names <- MCNames
  Config <- MCConfig
  Machine <- MCMsi
  Tasks <- PpdAndThermal
  Clients <- NoClients
  Requests <- MCRequests
  PpdProfiles <- MCPpdProfiles
  Readings <- MCReadings
  Gaps <- MCGaps
  Faults <- NoFaults
  Boot <- MCBoot
  MayCrash = FALSE
INVARIANT
  TrippedFansAreLoud
