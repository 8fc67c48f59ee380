CONSTANTS
  MaxInline = 1
  MaxExtra = 1
SPECIFICATION Spec
INVARIANTS TypeOK HelloFirst IdsCount LeftBehind NeverStuck
PROPERTIES InlineAnswered Ends WindsDown LifecycleSpec
CHECK_DEADLOCK FALSE
