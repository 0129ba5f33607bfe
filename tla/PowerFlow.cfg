SPECIFICATION Spec
CONSTANTS
    Controllers = {c}
    Clients = {k}
    Sources = {s}
    Distributions = {d1, d2}
    Loads = {l}
    NoDevice = NoDevice
    MaxTopologies = 1
    MaxSwitches = 2
INVARIANT OffGoesQuiet
PROPERTIES SourceResumes CurrentDiesOut
CHECK_DEADLOCK FALSE
