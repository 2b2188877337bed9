SPECIFICATION Spec
CONSTANTS
  None = None  Body = {b1, b2}  Args = {p1}
  MaxId = 2  MaxDocs = 1  MaxSession = 2  MaxCrashes = 1
SYMMETRY Symmetric
CHECK_DEADLOCK FALSE
INVARIANTS RefsCover MemoExact
PROPERTIES ImplementsLedger
