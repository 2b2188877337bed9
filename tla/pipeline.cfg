SPECIFICATION Spec
CONSTANTS
  c1 = c1
  c2 = c2
  Callers = {c1, c2}
  Contents <- SomeContents
  OptSets <- SomeOptSets
  EnvGuard = {}
  None = None
  MaxChanges = 2
  MaxReads = 3
  MaxSession = 2
INVARIANTS ReplyRebuilds HeldIsMind
SYMMETRY Symmetry
CHECK_DEADLOCK FALSE
