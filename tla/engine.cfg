SPECIFICATION Spec
CONSTANTS
  Unset = Unset
  Names <- MCNames
  Config <- MCConfig
  Machine <- MCMsi
  Tasks <- AllTasks
  Clients <- OneClient
  Requests <- SaverRequests
  PpdProfiles <- MCPpdProfiles
  Readings <- MCReadings
  Gaps <- MCGaps
  Faults <- SaverFails
  Boot <- MCBoot
  MayCrash = TRUE
INVARIANTS
  TypeOK
  BeliefIsCurrent
  BeliefMatchesHardware
  DaemonKeepsFansLoud
PROPERTIES
  ManualChangeSurvives
