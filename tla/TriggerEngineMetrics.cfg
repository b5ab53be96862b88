SPECIFICATION Spec
CONSTANTS
  Evaluators = {e1}
  Triggers = {"oven", "trial", "door"}
  Scopes = {"A", "B"}
  Kinds = {"hot", "normal", "humid"}
  ScopesOf <- MCScopesOf
  Measures <- MCMeasures
  Breaches <- MCBreaches
  Duration <- MCDuration
  Responders <- MCResponders
  Queued = {"sms", "email"}
  DryRun = {"trial"}
  MinTtl = 1
  Never = Never
  MaxTime = 4
  MaxReadings = 3
SYMMETRY Symmetry
CHECK_DEADLOCK FALSE
PROPERTIES
  SustainedBreachFires
