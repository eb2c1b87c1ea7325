CONSTANTS
    MaxProcesses = 4
    Priorities = {17}
    MaxAging = 1
    Kinds = {"update"}
    WheelKinds = {"update"}
    TMMaxTasks = 1
SPECIFICATION Spec
VIEW LiveView
CHECK_DEADLOCK FALSE
INVARIANTS
    TypeOK
    RingMatchesStates
    OnlyCurrentRuns
    StartedIsOnStack
    TimersAreSleepers
