\* A check-in of a task without max_iterations, and one of no task that may fire once and
\* has a time to live, in the same ticks.
CONSTANTS
    c1 = c1
    c2 = c2
    t1 = t1
    NoTask = NoTask
    NoLimit = NoLimit
    Checkins = {c1, c2}
    Tasks = {t1}
    TaskOf <- MCTaskOf
    Limit <- MCLimit
    Lasting = {c2}
    Threshold = 2
    DisturbanceBound = 1
    CountBound = 3
SPECIFICATION Spec
INVARIANTS CheckinTypeOK EndedTasksWakeOnce ChainsStop
PROPERTIES EndedTasksClose
CHECK_DEADLOCK FALSE
