CONSTANTS
    MaxProcesses = 3
    Priorities = {3}
    MaxAging = 15
    Kinds = {}
    WheelKinds = {}
    TMMaxTasks = 0
SPECIFICATION FairSpec
PROPERTY NewProcessStarts
