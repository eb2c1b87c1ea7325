CONSTANTS
    Buttons = {"left", "other"}
    Left = "left"
    Keys = {"cmd", "n"}
    Modifiers = {"cmd"}
    RingSize = 3
    MaxMoves = 5
SPECIFICATION FairSpec
INVARIANTS
    TypeOK
    RingCarriesKeyMap
    ModifiersWereInEffect
    PressStaysLatched
PROPERTY ReportSettles
