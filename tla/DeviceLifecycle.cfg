SPECIFICATION Spec
CONSTANT MaxFailures = 1
INVARIANT IInv
PROPERTY ObeysAfterChoosing
CHECK_DEADLOCK FALSE
