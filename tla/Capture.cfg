CONSTANTS
    MaxPackets = 4
    Unparsable = {2}
    MaxSessions = 2
SPECIFICATION CaptureSpec
INVARIANTS CaptureAccounts
PROPERTIES StopEndsCapture
CHECK_DEADLOCK FALSE
