SPECIFICATION HarnessFairSpec
CONSTANTS
  p1 = p1  p2 = p2  p3 = p3  c1 = c1  c2 = c2  c3 = c3  c4 = c4
  Procs = {p1, p2}  Calls = {c1, c2, c3, c4}  Owner <- SharedOfTwo
  Cap = 1  NoFile = NoFile  Torn = Torn  NoCall = NoCall
  Legacy = {c4}  Reapers = {p2}  Platforms = {"win32", "posix"}
  MaxWork = 3  MaxDeaths = 1
CHECK_DEADLOCK FALSE
INVARIANTS WithinCap ExclusiveUntilADeath
PROPERTIES SparesTheLiving OrphansEnd DeadOwnersEvicted
