CONSTANTS
    e1 = e1
    e2 = e2
    e3 = e3
    e4 = e4
    e5 = e5
    e6 = e6
    Entries = {e1, e2, e3, e4, e5, e6}
    NoEntry = NoEntry
    TMMaxTasks = 6
    Deadlines = {1, 2, 3}
SPECIFICATION Spec
VIEW LiveView
SYMMETRY EntrySymmetry
INVARIANTS
    TypeOK
    IndexAgrees
    RootIsEarliest
