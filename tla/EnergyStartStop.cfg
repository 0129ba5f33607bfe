SPECIFICATION Spec
CONSTANTS
    Controllers = {c1, c2}
    NoController = NoController
    Devices = {d1}
    Clients = {k1}
    MaxIntents = 1
INVARIANT CommandsOnlyByChosen
PROPERTIES RequestCarriedOut RequestsPassedOn
CHECK_DEADLOCK FALSE
