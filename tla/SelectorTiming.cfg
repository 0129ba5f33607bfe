SPECIFICATION TimingSpec
CONSTANTS
    Controllers = {1, 2, 3}
    Steady = {3}
    NoController = 0
    HeartbeatDeadline = 3
    NewControllerDelay = 3
    LostControllerDelay = 6
    NoControllersDelay = 10
    Horizon = 13
INVARIANTS SearchInv NeverThrows LostInTime
PROPERTIES DroppedOnlyAfterSilence NoFalseAlarm AbstractSpec AlarmAfterLongSilence EventuallySelects
