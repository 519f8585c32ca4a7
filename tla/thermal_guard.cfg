SPECIFICATION FairSpec
CONSTANTS
  Unset = Unset
  Names <- MCNames
  Config <- MCConfig
  Readings <- MCReadings
  Gaps <- MCGaps
INVARIANTS
  TypeOK
  CooldownIsHonest
PROPERTIES
  NeverReleasedEarly
  CoolMachineIsReleased
