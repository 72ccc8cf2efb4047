CONSTANTS
    Hdr = 2
    MaxMsg = 4
    MaxData = 5
    MaxCalls = 1
    ReuseBuf = FALSE
    SendMayFail = FALSE
SPECIFICATION Spec
INVARIANT SOMOnlyOnFirst
