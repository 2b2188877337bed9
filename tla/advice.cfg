SPECIFICATION AdviceSpec
CONSTANTS
  a1 = a1  a2 = a2  press = press  look = look
  Agent = {a1, a2}  Write = {press}  Read = {look}
  LoopWindow = 2  LoopMin = 2  CollapseGap = 3  EpisodeIdle = 2  RiskyFails = 1  NoticeCap = 1
  StatsTTL = 2  CandidateTTL = 3  Pause = 5
  MaxAsked = 3  MaxRuns = 1  MaxTrouble = 2
SYMMETRY Symmetric
CHECK_DEADLOCK FALSE
INVARIANTS ReportsExact OthersHear
PROPERTIES EndAgreesWithLive OfferStands
