SPECIFICATION Spec
CONSTANTS
    Servers = {s1, s2}
    Users = {a, b}
    MaxMessages = 2
    MaxConnects = 2
    MaxFailures = 1
INVARIANT IInv
PROPERTIES MessagesShown
CHECK_DEADLOCK FALSE
