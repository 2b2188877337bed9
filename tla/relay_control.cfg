CONSTANTS
  Caller = {c1, c2}
  MaxPid = 3
  Platforms = {"posix", "win32"}
  Reuse = FALSE
  MaxCalls = 1
  MaxTabs = 2
  MaxEvents = 1
  None = None
SPECIFICATION Spec
INVARIANTS PidfileTrue ForeignSpared StoppedIsClean
PROPERTIES RestartsOnlyOvertaken
