\* Every handler outcome: replies, NULL without EINPROGRESS, forwards whose
\* nested send fails (both handlers) and nested responses that do not parse.
CONSTANTS
    Conns = {c1, c2}
    Prdcr = p
    MsgNos = {1}
    NoCtx = NoCtx
    MaxRecs = 2
    MaxCtx <- MC_MaxCtx
    MaxFwd <- MC_MaxFwd
    ReqKinds = {"reply", "noreply", "fwd_test", "fwd_route"}
    RspKinds = {"ok", "bad_json"}
    FailKinds = {"fwd_test", "fwd_route"}
    FaultyPeers = FALSE
    HopArgs <- MC_OneHop
    Avail = 1
SPECIFICATION Spec
INVARIANT RefCountCoversHolders
