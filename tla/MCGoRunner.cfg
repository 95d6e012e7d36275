CONSTANT StopTimeout = 10

SPECIFICATION FairSpec

INVARIANTS
    GoInv
    NoFalseAlarm
    TerminalRestored

PROPERTY SignalEndsRunner

CHECK_DEADLOCK FALSE
