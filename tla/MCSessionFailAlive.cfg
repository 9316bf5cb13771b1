SPECIFICATION Spec
CONSTANTS
    MaxCalls = 1
    MaxReplay = 1
    Habits = {"failAlive"}
CHECK_DEADLOCK FALSE
INVARIANT LeavesAllRooms
