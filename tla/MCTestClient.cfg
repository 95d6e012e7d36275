CONSTANTS
    MAX_INTERFACES = 16
    MaxArgs = 18

SPECIFICATION FairSpec

INVARIANTS
    InterfacesTracked
    TestInv

PROPERTY TestEnds

CHECK_DEADLOCK FALSE
