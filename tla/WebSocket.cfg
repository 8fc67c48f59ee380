CONSTANT MaxExtra = 2
SPECIFICATION Spec
INVARIANTS TypeOK HelloFirst CloseAnnounced LeftBehind NeverStuck
PROPERTY WindsDown
CHECK_DEADLOCK FALSE
