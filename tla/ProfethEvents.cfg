CONSTANTS
  Arep = {a1, a2}
  None = None
  MaxAR = 2
  Button = TRUE
  Outputs = TRUE
  Prompt = TRUE
SPECIFICATION Spec
INVARIANTS ListIntact Owed SafeOutputs OneAlarm
PROPERTY ReadyNextTick
