SPECIFICATION Spec
CONSTANTS
    Controllers = {c}
    Clients = {k}
    Sources = {s}
    Distributions = {d1, d2}
    Loads = {l}
    NoDevice = NoDevice
    MaxTopologies = 2
    MaxSwitches = 1
INVARIANTS IInv FlowFollowsCables EndsAgree
CHECK_DEADLOCK FALSE
