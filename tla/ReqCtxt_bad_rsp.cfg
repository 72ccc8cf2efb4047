CONSTANTS
    Conns = {c1, c2}
    Prdcr = p
    MsgNos = {1}
    NoCtx = NoCtx
    MaxRecs = 2
    MaxCtx <- MC_MaxCtx
    MaxFwd <- MC_MaxFwd
    ReqKinds = {"fwd_test"}
    RspKinds = {"ok", "bad_json"}
    FailKinds = {}
    FaultyPeers = FALSE
    HopArgs <- MC_OneHop
    Avail = 1
SPECIFICATION Spec
PROPERTY EveryRequestAnswered
