SPECIFICATION Spec
CONSTANTS
  Unset = Unset
  Names <- MCNames
  Config <- MCConfig
  Machines <- MsiLimits
  Keys <- ChargeKeys
  Others <- NoOthers
INVARIANTS
  KeysNeverPanic
CHECK_DEADLOCK FALSE
