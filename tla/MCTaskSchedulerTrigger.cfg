\* Triggers: an event task and a schedule on the model slot, chained in
\* a circle, with a restart, a pause, a manual run and the user's arrival; no stop
\* and no forced run.  No symmetry: liveness is checked.
CONSTANTS
  t1 = t1
  t2 = t2
  e1 = e1
  e2 = e2
  e3 = e3
  Tasks <- TwoTasks
  Execs <- TwoExecs
  Kind <- EventAndRepeat
  ModelTasks <- TwoTasks
  AdminOnly <- None
  Then <- Circle
  NoTask = NoTask
  NoExec = NoExec
  Threshold = 2
  Budget <- BudgetTrigger
SPECIFICATION FairSpec
CHECK_DEADLOCK FALSE
INVARIANTS TypeOK AcceptedTriggerKept
PROPERTIES TriggerServed QueueDrains
