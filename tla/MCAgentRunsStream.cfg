\* Two runs with two clients that subscribe, leave and come back.
CONSTANTS
  c1 = c1
  c2 = c2
  MaxRuns = 2
  MaxEvents = 1
  Clients <- TwoClients
SYMMETRY ClientSymmetry
SPECIFICATION Spec
CHECK_DEADLOCK FALSE
INVARIANTS ExactDelivery TimerOfRegistered
PROPERTIES EvictionIsSafe DeliversReplayLog
