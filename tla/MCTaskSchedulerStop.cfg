\* A model-backed event task and a one-time housekeeping task of an admin,
\* the second chained to the first, with a stop, a forced run and the user's arrival.
CONSTANTS
  t1 = t1
  t2 = t2
  e1 = e1
  e2 = e2
  e3 = e3
  Tasks <- TwoTasks
  Execs <- ThreeExecs
  Kind <- EventAndOnce
  ModelTasks <- FirstTask
  AdminOnly <- SecondTask
  Then <- SecondThenFirst
  NoTask = NoTask
  NoExec = NoExec
  Threshold = 1
  Budget <- BudgetStop
SPECIFICATION Spec
SYMMETRY ExecSymmetry
CHECK_DEADLOCK FALSE
INVARIANTS DispatchedOnce NothingLeaked
