\* Protocol-abiding peers; local replies, test_protocol and set_route
\* forwarding; the nested send of test_protocol may fail.
CONSTANTS
    Conns = {c1, c2}
    Prdcr = p
    MsgNos = {1}
    NoCtx = NoCtx
    MaxRecs = 2
    MaxCtx <- MC_MaxCtx
    MaxFwd <- MC_MaxFwd
    ReqKinds = {"reply", "noreply", "fwd_test", "fwd_route"}
    RspKinds = {"ok"}
    FailKinds = {"fwd_test"}
    FaultyPeers = FALSE
    HopArgs <- MC_HopArgs
    Avail = 2
SPECIFICATION Spec
INVARIANT RefCountMatchesHolders
INVARIANT HopsFollowChain
INVARIANT HandlerLookupExact
PROPERTY LifecycleRefined
PROPERTY CompletedContextFreed
