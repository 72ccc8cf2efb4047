CONSTANTS
    Conns = {c1, c2}
    Prdcr = p
    MsgNos = {1}
    NoCtx = NoCtx
    MaxRecs = 2
    MaxCtx <- MC_MaxCtx
    MaxFwd = 1
    ReqKinds = {"reply"}
    RspKinds = {"ok"}
    FailKinds = {}
    FaultyPeers = TRUE
    HopArgs <- MC_OneHop
    Avail = 1
SPECIFICATION Spec
INVARIANT TypeOK
INVARIANT RefCountMatchesHolders
INVARIANT DispatchedIsWholeMessage
