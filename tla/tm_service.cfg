CONSTANTS
    t2 = t2
    t1 = t1
    Tasks = {t1, t2}
    NoTask = NoTask
    Periodic = {}
    TMMaxTasks = 2
    QueueSize = 3
    DrainMax = 1
    Resolution = 1
    CapUS = 1
    MaxCatchup = 1
    Word = 4
    Delays = {2}
    MaxTime = 4
    MaxGen = 4
SPECIFICATION FairSpec
PROPERTIES
    ImplementsService
    OneShotIsServed
