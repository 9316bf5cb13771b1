SPECIFICATION Spec
CONSTANTS
    MaxCalls = 1
    MaxReplay = 1
    Habits = {"lateStart"}
CHECK_DEADLOCK FALSE
INVARIANT ServerCleansUp
