SPECIFICATION SpecC
CONSTANTS
    Controllers = {c1}
    Devices = {s, d, l}
    SinglePort = {s, l}
    MaxStarts = 1
    MaxCommands = 2
INVARIANTS PortsUsedOnce CablesHaveTwoEnds
CHECK_DEADLOCK FALSE
