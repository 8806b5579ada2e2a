\* Two DS1307 chips, reads and sets interleaved with the seconds ticking.
CONSTANTS
    c1 = c1
    c2 = c2
    Devices <- MCDevices
    InitTimes <- MCInitTimes
    SetTimes <- MCSetTimes
    MaxTicks = 2
    MaxCalls = 2
SPECIFICATION Spec
INVARIANT GetReturnsClockTime
CHECK_DEADLOCK FALSE
