SPECIFICATION Spec
CONSTANTS
  Unset = Unset
  Names <- PowerLevel
  Config <- DefaultConfig
  Machine <- MCPlatformProfile
  Tasks <- PpdAndThermal
  Clients <- OneClient
  Requests <- PlatformRequests
  PpdProfiles <- DefaultPpdProfiles
  Readings <- DefaultReadings
  Gaps <- DefaultGaps
  Faults <- NoFaults
  Boot <- PlatformBoot
  MayCrash = FALSE
PROPERTY
  ManualChangeSurvives
