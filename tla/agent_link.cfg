SPECIFICATION Spec
CONSTANTS
  t1 = t1
  t2 = t2
  n1 = n1
  n2 = n2
  Tabs = {t1, t2}
  Names = {n1}
  NameOf <- SharedName
  Clients = {c1}
  Modes <- TwoModes
  Kinds = {"dom.click"}
  Origins = {"local", "remote"}
  LocalOrigins = {"local"}
  NoTab = NoTab
  NoClient = NoClient
  NoOrigin = NoOrigin
  MaxId = 3
  MaxBoot = 1
  MaxSession = 1
INVARIANTS TypeOK WaitersMatchPending EveryCommandLogged RunsWhereAllowed RemedyNeverRaces
CHECK_DEADLOCK FALSE
