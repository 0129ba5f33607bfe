SPECIFICATION SpecR
CONSTANTS
    Controllers = {c1}
    NoController = NoController
    Devices = {d1, d2}
    Clients = {k1}
    MaxIntents = 2
    MaxRestarts = 1
INVARIANTS LInv LearnsAgain ReplyErasesOwn
PROPERTIES AppliesInOrderR
CHECK_DEADLOCK FALSE
