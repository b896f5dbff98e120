\* Three runs replacing one another, one client, with fairness.
CONSTANTS
  c1 = c1
  c2 = c2
  MaxRuns = 3
  MaxEvents = 0
  Clients <- OneClient
SPECIFICATION FairSpec
CHECK_DEADLOCK FALSE
INVARIANTS TypeOK OverlapNeedsBreach TerminalMeansSaved
PROPERTIES SubscribersClose FinishedRunsEvicted ReplacementProceeds
