SPECIFICATION Spec
CONSTANTS
  NaN = NaN
  Nothing = Nothing
  RuleId <- MCRuleId
  Defaults <- MCDefaults
  StepCap = 2
  Half = 200
  MinBytes = 5
  Starts <- MCStarts
  Worlds <- MCWorlds
  MaxDrift = 2
  Days = 30
  Now = 100
  Required = {"A", "B"}
INVARIANTS
  NeverGreenBlind
  FaultIsHeard
  NoFalseAlarm
  RightOneNamed
  NothingVanishes
  PolicyStands
CHECK_DEADLOCK FALSE
