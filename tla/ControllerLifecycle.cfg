SPECIFICATION Spec
CONSTANT MaxFailures = 1
INVARIANTS IntentFindsWriter HeartbeatsFollowCommand
PROPERTIES TerminateReturns
