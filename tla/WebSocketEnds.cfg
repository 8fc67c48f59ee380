CONSTANT MaxExtra = 0
SPECIFICATION Spec
PROPERTIES Ends LifecycleSpec
CHECK_DEADLOCK FALSE
