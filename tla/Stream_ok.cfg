\* Two connections subscribe, one of them also to a stream it is the only
\* one to create; one connection delivers; clients may close.
CONSTANTS
    Subs = {"s1", "s2"}
    Pubs = {"p1"}
    Names = {"n1", "n2"}
    SubNames <- MC_SubNames
    PreStreams = {"n1"}
    MaxCalls = 3
    CloseAllowed = TRUE
    Dumpers = {"p1"}
    Counters = {"p1"}
    NoThread = NoThread
    NoStream = NoStream
SPECIFICATION Spec
PROPERTY BusRefined
