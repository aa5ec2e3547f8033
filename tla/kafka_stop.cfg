SPECIFICATION Spec
CONSTANT Messages = 3
CHECK_DEADLOCK FALSE
INVARIANTS OneMoreAtMost
PROPERTIES InterruptEnds
