---------------------------- MODULE MC_ReqCtxt ----------------------------
(* Model-checking instance of ReqCtxt: the bounds are derived from the    *)
(* peers' record budget so that allocation never runs out of slots.       *)
EXTENDS ReqCtxt

\* Every SOM may allocate a request context and every completed message
\* may register one outbound context.
MC_MaxCtx == 2 * Cardinality(Conns \X MsgNos) * MaxRecs
MC_MaxFwd == Cardinality(Conns \X MsgNos) * MaxRecs

\* test_protocol forward requests from a client (hop_id 0): no forward,
\* fewer hops than the chain has, and the default num_hops (INT8_MAX).
MC_HopArgs == {<<0, 0>>, <<1, 0>>, <<127, 0>>}

\* One forward, for the runs about other questions.
MC_OneHop == {<<1, 0>>}
=============================================================================
