SPECIFICATION FairDaemonSpec
CONSTANTS
  Unset = Unset
  Names <- MCNames
  Config <- MCConfig
  Machine <- MCMachine
  Tasks <- PpdAndThermal
  Clients <- MCClients
  Requests <- MCRequests
  PpdProfiles <- MCPpdProfiles
  Readings <- MCReadings
  Gaps <- MCGaps
  Faults <- LevelFails
  Boot <- MCBoot
  MayCrash = TRUE
  Absent <- MCAbsent
  UnitFiles <- MCUnitFiles
INVARIANTS
  DaemonTypeOK
  NoWriteWithoutConsent
  ConflictsAreKnown
  InputsAreCurrent
  BeliefMatchesHardware
  SettledHardware
PROPERTIES
  ImplementsEngine
  EventuallyApplied
  HardwareFollowsSystem
