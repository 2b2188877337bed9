SPECIFICATION Spec
CONSTANTS
  Agent = {a1, a2}  Target = {t1}
  OriginOf <- OwnOrigin
  RiskyFails = 3  LiveFails = 2  EscalateFails = 2
  SuggestFails = 1  SuggestOks = 1  SuggestSessions = 1
  Block = TRUE  MaxSession = 2  MaxCalls = 4  MaxDecisions = 1  MaxRestarts = 1
CHECK_DEADLOCK FALSE
SYMMETRY Symmetric
INVARIANTS LiveIsLog WarnNeedsNews
PROPERTIES WarningIsEarned EscalatedStaysRefused
