SPECIFICATION FairSpec
CONSTANTS
  Unset = Unset
  Names <- MCNames
  Config <- MCConfig
  Machines <- MCMachines
  Keys <- MCKeys
  Others <- MCOthers
INVARIANTS
  TypeOK
  KeysAreTaken
  ScreenIsHonest
  RowsMatchTheMachine
  GaugesFit
PROPERTIES
  LevelsReadBack
  SnapshotsAreFaithful
  ScreenCatchesUp
  FooterClears
CHECK_DEADLOCK FALSE
