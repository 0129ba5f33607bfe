SPECIFICATION Spec
CONSTANTS
    Controllers = {c1, c2}
    Devices = {d}
    MaxStarts = 3
    MaxCommands = 2
INVARIANTS IInv ListedWereReported LastCommandHolds ReachableKnown
PROPERTIES CommandReturns
CHECK_DEADLOCK FALSE
