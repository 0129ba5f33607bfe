SPECIFICATION TimingSpec
CONSTANTS
    Controllers = {1}
    Steady = {}
    NoController = 0
    HeartbeatDeadline = 3
    NewControllerDelay = 3
    LostControllerDelay = 6
    NoControllersDelay = 10
    Horizon = 13
PROPERTY AlarmArmedWhenLost
