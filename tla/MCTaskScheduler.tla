--------------------------- MODULE MCTaskScheduler ---------------------------
(* TaskScheduler on small instances. *)
EXTENDS TaskScheduler, TLC

CONSTANTS t1, t2, e1, e2, e3

OneTask == {t1}
TwoTasks == {t1, t2}
None == {}
FirstTask == {t1}
SecondTask == {t2}
TwoExecs == {e1, e2}
ThreeExecs == {e1, e2, e3}
ExecSymmetry == Permutations(Execs)

OneEvent == [t \in Tasks |-> "event"]
OneRepeat == [t \in Tasks |-> "repeat"]
EventAndRepeat == [t \in Tasks |-> IF t = t1 THEN "event" ELSE "repeat"]
EventAndOnce == [t \in Tasks |-> IF t = t1 THEN "event" ELSE "once"]

NoChain == [t \in Tasks |-> NoTask]
SecondThenFirst == [t \in Tasks |-> IF t = t2 THEN t1 ELSE NoTask]
Circle == [t \in Tasks |-> IF t = t2 THEN t1 ELSE t2]

Spending(event, stop, force, manual, restart, open, pause) ==
    [i \in Inputs |-> CASE i = "event" -> event [] i = "stop" -> stop
                        [] i = "force" -> force [] i = "manual" -> manual
                        [] i = "restart" -> restart [] i = "foreground" -> open
                        [] i = "pause" -> pause]

BudgetStop == Spending(0, 1, 1, 1, 0, 1, 0)
BudgetTrigger == Spending(4, 0, 0, 1, 1, 1, 1)
BudgetStopOnce == Spending(0, 1, 0, 1, 0, 0, 0)
BudgetArrival == Spending(1, 0, 0, 0, 0, 1, 0)
BudgetEvents == Spending(1, 0, 0, 0, 0, 0, 0)
=============================================================================
