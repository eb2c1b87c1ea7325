CONSTANTS
    t3 = t3
    t2 = t2
    t1 = t1
    Tasks = {t1, t2, t3}
    NoTask = NoTask
    Periodic = {t3}
    TMMaxTasks = 2
    QueueSize = 3
    DrainMax = 2
    Resolution = 2
    CapUS = 1
    MaxCatchup = 1
    Word = 4
    Delays = {1, 2}
    MaxTime = 5
    MaxGen = 4
SPECIFICATION Spec
VIEW LiveView
SYMMETRY OneShotSymmetry
INVARIANTS
    TypeOK
    ArmedCoversEarliest
    QueuedMatchIsOwed
    QueuedMatchIsDue
    CalledInDeadlineOrder
