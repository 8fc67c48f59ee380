CONSTANT MaxExtra = 1
SPECIFICATION Spec
INVARIANT NothingAfterEos
CHECK_DEADLOCK FALSE
