CONSTANTS
    Timeout = 2
    MaxTime = 6
SPECIFICATION PartsSpec
INVARIANTS NeverEarly Covered WrittenIsRead
PROPERTIES IsStopwatch CommandsServed ExpiryReported WritesEnd
