SPECIFICATION Spec
CONSTANTS
  s1 = s1  s2 = s2  Store = {s1, s2}  Val = {v1, v2}  None = None
  KeysOf <- SomeKeys  KeyedById <- MixedKeys
  Scoped = FALSE  MaxSnaps = 2  MaxDiffs = 1  MaxWrites = 1  MaxFaults = 1
SYMMETRY Symmetric
CHECK_DEADLOCK FALSE
INVARIANTS ReadsBack DiffTrue CleanupSparesOld
