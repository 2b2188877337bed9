SPECIFICATION FairSpec
CONSTANTS
  t1 = t1
  t2 = t2
  n1 = n1
  n2 = n2
  Tabs = {t1}
  Names = {n1}
  NameOf <- OneTab
  Clients = {c1}
  Modes <- StrictLocal
  Kinds = {"idb.put"}
  Origins = {"local"}
  LocalOrigins = {"local"}
  NoTab = NoTab
  NoClient = NoClient
  NoOrigin = NoOrigin
  MaxId = 3
  MaxBoot = 2
  MaxSession = 1
INVARIANTS MismatchOnlyAcrossRestart
PROPERTIES RequestEnds
CHECK_DEADLOCK FALSE
