CONSTANTS
    StopTimeout = 10
    MaxStops = 3

SPECIFICATION FairSpec

INVARIANTS
    SwiftInv
    NoFalseAlarm
    TerminalRestored

PROPERTY SignalEndsRunner

CHECK_DEADLOCK FALSE
