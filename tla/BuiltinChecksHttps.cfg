SPECIFICATION Spec
CONSTANTS
  NaN = NaN
  Nothing = Nothing
  RuleId <- MCRuleId
  Defaults <- MCDefaults
  StepCap = 2
  Half = 200
  MinBytes = 5
  Starts <- HttpsStarts
  Worlds <- MCWorlds
  MaxDrift = 2
  Days = 30
  Now = 100
  Required = {"A", "B"}
INVARIANT DeadIsCritical
CHECK_DEADLOCK FALSE
