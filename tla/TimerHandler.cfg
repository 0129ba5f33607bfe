SPECIFICATION FairSpec
CONSTANTS
    Types = {lost, heartbeat}
    Periodic = {heartbeat}
    Listeners = {l1}
    Reactor = reactor
    Ids = {1, 2, 3}
    Null = Null
INVARIANTS IInv ExpiryFindsTimer EntriesMatch
PROPERTIES ImplementsTimers LeadsToItsState
CHECK_DEADLOCK FALSE
