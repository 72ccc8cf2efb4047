CONSTANTS
    Conns = {c1, c2}
    Prdcr = p
    MsgNos = {1}
    NoCtx = NoCtx
    MaxRecs = 2
    MaxCtx <- MC_MaxCtx
    MaxFwd <- MC_MaxFwd
    ReqKinds = {"reply", "fwd_test"}
    RspKinds = {"ok"}
    FailKinds = {}
    FaultyPeers = TRUE
    HopArgs <- MC_OneHop
    Avail = 1
SPECIFICATION Spec
INVARIANT RefCountMatchesHolders
