SPECIFICATION Spec
CONSTANTS
  t1 = t1
  t2 = t2
  c1 = c1
  c2 = c2
  Tabs = {t1, t2}
  Clients = {c1, c2}
  Ops = {"row", "log", "put", "clear"}
  Moves = {"write", "fetch", "reload"}
  NoEntry = NoEntry
  NoClient = NoClient
  NoTab = NoTab
  MaxId = 3
  MaxMoves = 1
INVARIANTS VouchedIsCurrent
PROPERTIES HitIsFresh
SYMMETRY Symmetry
CHECK_DEADLOCK FALSE
