SPECIFICATION ClientSpec
CONSTANTS
    Streams <- ThreeLines
    Wants <- SomeWants
    MaxCalls <- CallsOn
    MaxUnread = 2
CHECK_DEADLOCK FALSE
INVARIANTS
    HandedOverOnce
    ArrivesOnce
PROPERTIES
    CallsSettle
