CONSTANTS
    Hdr = 2
    MaxMsg = 4
    MaxData = 5
    MaxCalls = 3
    ReuseBuf = TRUE
    SendMayFail = TRUE
SPECIFICATION Spec
INVARIANTS TypeOK PayloadConserved EOMOnlyOnLast
