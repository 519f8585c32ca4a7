SPECIFICATION Spec
CONSTANTS
  Unset = Unset
  Names <- PairNames
  Config <- PairConfig
  Machine <- MCMsi
  Tasks <- PpdOnly
  Clients <- NoClients
  Requests <- MCRequests
  PpdProfiles <- PairNames
  Readings <- MCReadings
  Gaps <- MCGaps
  Faults <- NoFaults
  Boot <- PairBoot
  MayCrash = FALSE
INVARIANTS
  KernelNeverRefuses
  ValidPairsLand
