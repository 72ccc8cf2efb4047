\* Two connections subscribe to the same stream, which does not exist yet.
CONSTANTS
    Subs = {"s1", "s2"}
    Pubs = {"p1"}
    Names = {"n1"}
    SubNames <- MC_SubNamesAll
    PreStreams = {}
    MaxCalls = 2
    CloseAllowed = FALSE
    Dumpers = {}
    Counters = {}
    NoThread = NoThread
    NoStream = NoStream
SPECIFICATION Spec
INVARIANT PublishReachesSubscribers
