SPECIFICATION ReplaySpec
CONSTANTS
  Key = {k1, k2}  Val = {v1, v2}  NoRow = NoRow
  MinGroup = 2
  MaxOpened = 2  MaxCommands = 2  MaxJobs = 2  MaxTrouble = 2
SYMMETRY Symmetric
CHECK_DEADLOCK FALSE
INVARIANTS RunApplies
PROPERTIES PlanStays CleanupComplete
