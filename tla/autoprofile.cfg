SPECIFICATION Spec
CONSTANTS
  None = None
  Rules <- MCRules
  Classes <- MCClasses
  Holdable <- MCHoldable
  Cookies = {c1, c2}
  MaxEvents = 3
INVARIANTS
  TypeOK
  NoHoldIsLost
  SettledOnFocus
  SpecificRuleDecides
PROPERTIES
  OneHoldAtATime
