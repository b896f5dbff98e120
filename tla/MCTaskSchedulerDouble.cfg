\* One scheduled housekeeping task, a stop and a manual run.
CONSTANTS
  t1 = t1
  t2 = t2
  e1 = e1
  e2 = e2
  e3 = e3
  Tasks <- OneTask
  Execs <- ThreeExecs
  Kind <- OneRepeat
  ModelTasks <- None
  AdminOnly <- None
  Then <- NoChain
  NoTask = NoTask
  NoExec = NoExec
  Threshold = 1
  Budget <- BudgetStopOnce
SPECIFICATION Spec
CHECK_DEADLOCK FALSE
INVARIANTS NoDoubleDispatch
