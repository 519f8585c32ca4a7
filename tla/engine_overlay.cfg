SPECIFICATION Spec
CONSTANTS
  Unset = Unset
  Names <- MCNames
  Config <- OverlayConfig
  Machine <- MCMsi
  Tasks <- PowerSourceOnly
  Clients <- NoClients
  Requests <- MCRequests
  PpdProfiles <- MCPpdProfiles
  Readings <- MCReadings
  Gaps <- MCGaps
  Faults <- NoFaults
  Boot <- OverlayBoot
  MayCrash = FALSE
INVARIANTS
  BatteryOverlayWins
