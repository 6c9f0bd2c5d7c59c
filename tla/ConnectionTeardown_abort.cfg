SPECIFICATION Spec
INVARIANTS CleanExit
CHECK_DEADLOCK FALSE
