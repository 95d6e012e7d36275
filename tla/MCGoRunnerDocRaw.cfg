CONSTANT StopTimeout = 10

SPECIFICATION Spec

INVARIANT PointerValidWhenUsed

CHECK_DEADLOCK FALSE
