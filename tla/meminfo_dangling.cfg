\* A configuration whose calloc or ldms_add_metric fails, then a sample.
CONSTANTS
    SetNames = {s1, s2}
    NoValue = NoValue
    NoSet = NoSet
    MaxCalls = 3
    AllocMayFail = TRUE
SPECIFICATION Spec
INVARIANT SetHandedLive
