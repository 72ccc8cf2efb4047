------------------------------ MODULE ReqCtxt ------------------------------
(***************************************************************************)
(* The request-context engine of the ldmsd control protocol               *)
(* (src/ldms/src/ldmsd/ldmsd_request.c): record reassembly into request    *)
(* contexts kept in two indices (requests, responses), dispatch of a      *)
(* completed request, and the asynchronous forwarding of test_protocol    *)
(* and set_route, whose continuation answers the original request when    *)
(* the nested response arrives.                                           *)
(*                                                                         *)
(* One daemon is modelled.  Its peers are client connections (Conns),     *)
(* which send request records keyed <<conn, msg_no>>, and one producer    *)
(* connection (Prdcr), to which forwarded requests go and from which      *)
(* their responses come back.  The records a peer sends and the daemon's  *)
(* handling of them are one step: the transport calls ldmsd_handle_record *)
(* once per record, and each connection's records are handled in order   *)
(* by one receive thread, which also dispatches a completed message and   *)
(* releases its "create" reference (wpc/wctx).  Different connections    *)
(* interleave freely.                                                     *)
(*                                                                         *)
(* Data is abstracted: a record is its SOM/EOM flags and its position in  *)
(* the message; a receive buffer is the sequence of record positions; a   *)
(* parsed request is one of ReqKinds, a parsed nested response one of     *)
(* RspKinds.  Both rbtree indices are derived from the live contexts,     *)
(* as __req_ctxt_alloc inserts and __req_ctxt_del removes under the tree  *)
(* lock.  A reply is what the properties tell apart: for test_protocol's  *)
(* forward mode, the request's <<num_hops, hop_id>>, the hop ids of the   *)
(* "hops" dictionary and whether the status is 0; any other reply is     *)
(* Plain.                                                                 *)
(*                                                                         *)
(* The daemons further down the producer chain run this same code.  The  *)
(* producer's answer to a forwarded test_protocol is therefore drawn from *)
(* what the hop property, checked here for a daemon with Avail producers  *)
(* below it, guarantees for a daemon with Avail - 1 (ChainAnswers): the   *)
(* check is the induction step over the length of the chain.             *)
(***************************************************************************)
EXTENDS Naturals, Integers, Sequences, FiniteSets, HandlerTable

CONSTANTS
    Conns,        \* client configuration connections
    Prdcr,        \* the producer connection forwarded requests are sent on
    MsgNos,       \* message numbers a client uses on its connection
    NoCtx,        \* no context (NULL)
    MaxCtx,       \* bound: request contexts ever allocated
    MaxRecs,      \* bound: records a peer sends under one message number
    MaxFwd,       \* bound: values of the outbound msg_no counter
    ReqKinds,     \* what a completed request parses to
    RspKinds,     \* what a nested response parses to
    FailKinds,    \* forwarding handlers whose nested-request send may fail
    FaultyPeers,  \* peers may break the record protocol
    HopArgs,      \* <<num_hops, hop_id>> a test_protocol forward request carries
    Avail         \* producers below this daemon: ldmsd_prdcr_first down the chain

ASSUME Prdcr \notin Conns
ASSUME MaxCtx \in Nat /\ MaxRecs \in Nat \ {0} /\ MaxFwd \in Nat
ASSUME ReqKinds \subseteq {"reply", "noreply", "fwd_test", "fwd_route"}
ASSUME RspKinds \subseteq {"ok", "bad_json"}
ASSUME FailKinds \subseteq {"fwd_test", "fwd_route"} /\ FaultyPeers \in BOOLEAN
ASSUME HopArgs \subseteq Nat \X Nat /\ Avail \in Nat

SOM == "SOM"   \* LDMSD_REC_SOM_F
EOM == "EOM"   \* LDMSD_REC_EOM_F
Flags == SUBSET {SOM, EOM}

CtxIds  == 1..MaxCtx
ReqKeys == Conns \X MsgNos       \* struct ldmsd_msg_key of an inbound request
RspNos  == 0..(MaxFwd - 1)       \* msg_no of an outbound request on Prdcr
RspKeys == {Prdcr} \X RspNos
Workers == Conns \cup {Prdcr}
FwdKinds == {"fwd_test", "fwd_route"}
ASSUME NoCtx \notin CtxIds

NoArgs == <<>>
\* The content of a reply: a test_protocol forward reply's arguments, hop
\* ids and status, or Plain for every other reply.
Reply(a, hops, ok) == [args |-> a, hops |-> hops, ok |-> ok]
Plain == Reply(NoArgs, {}, TRUE)

VARIABLES
    ctx,      \* ctx[c]: the struct ldmsd_req_ctxt in slot c
    wpc,      \* wpc[w]: where connection w's receive thread is
    wctx,     \* wctx[w]: the context that thread is dispatching
    sent,     \* sent[k]: flags of the records a client sent under key k
    rspSent,  \* rspSent[n]: flags of the response records Prdcr sent for n
    outOk,    \* outbound msg_nos whose request reached Prdcr
    replies,  \* replies[k]: the replies the daemon sent under key k, in order
    msgNo,    \* static msg_no of ldmsd_msg_key_get
    nextCtx   \* next unused context slot

vars == <<ctx, wpc, wctx, sent, rspSent, outOk, replies, msgNo, nextCtx>>

Last(s) == s[Len(s)]
Ended(s) == s /= <<>> /\ EOM \in Last(s)

\* A live context of the given index type under key k, as find_req_ctxt
\* (rbt_find on req_msg_tree or rsp_msg_tree) returns it.
Lookup(type, k) ==
    LET m == {c \in CtxIds : ctx[c].state = "live" /\ ctx[c].type = type
                                /\ ctx[c].key = k}
    IN IF m = {} THEN NoCtx ELSE CHOOSE c \in m : TRUE

\* Mutant of NewCtx: the new context starts with an extra reference (a
\* ref_get after ref_init).
NewCtxTwoRefs(type, k, buf, cont, fwd) ==
    [type |-> type, key |-> k, ref |-> 2, state |-> "live", buf |-> buf,
     handed |-> 0, cont |-> cont, fwd |-> fwd, args |-> NoArgs, failed |-> FALSE]

\* __req_ctxt_alloc: a context holding the "create" reference.
NewCtx(type, k, buf, cont, fwd) ==
    [type |-> type, key |-> k, ref |-> 1, state |-> "live", buf |-> buf,
     handed |-> 0, cont |-> cont, fwd |-> fwd, args |-> NoArgs, failed |-> FALSE]

\* Mutant of Put: the last put of a context that was handed to dispatch
\* does not call __req_ctxt_del.
PutNoFree(cs, c) ==
    LET r == cs[c].ref - 1
    IN [cs EXCEPT ![c].ref = r,
                  ![c].state = IF r = 0 /\ cs[c].handed = 0 THEN "freed" ELSE @]

\* ldmsd_req_ctxt_ref_put: drop one reference; when the count reaches zero
\* __req_ctxt_del unlinks the context from its index and frees it.
Put(cs, c) ==
    LET r == cs[c].ref - 1
    IN [cs EXCEPT ![c].ref = r, ![c].state = IF r = 0 THEN "freed" ELSE @]

\* The records a peer may send next under a message number whose records so
\* far have the flags s: SOM first, EOM last, at most MaxRecs of them; a
\* faulty peer sends any flags.
NextFlags(s) ==
    LET ok == IF FaultyPeers THEN Flags
              ELSE IF s = <<>> THEN {{SOM}, {SOM, EOM}}
              ELSE IF EOM \in Last(s) THEN {}
              ELSE {{}, {EOM}}
    IN IF Len(s) >= MaxRecs THEN {}
       ELSE {f \in ok : Len(s) + 1 = MaxRecs /\ ~FaultyPeers => EOM \in f}

\* The end of ldmsd_handle_record: with EOM the context is returned to the
\* receive thread, which dispatches it; otherwise NULL (message pending).
HandOver(w, c, f) ==
    IF EOM \in f
    THEN /\ wpc' = [wpc EXCEPT ![w] = "dispatch"]
         /\ wctx' = [wctx EXCEPT ![w] = c]
    ELSE UNCHANGED <<wpc, wctx>>

Handed(cs, c, f) == IF EOM \in f THEN [cs EXCEPT ![c].handed = @ + 1] ELSE cs

\* ldmsd_reply_send on context c: the reply rp goes out under its key.
SendReplyOf(c, rp) == replies' = [replies EXCEPT ![ctx[c].key] = Append(@, rp)]
SendReply(c) == SendReplyOf(c, Plain)

ClientSends(w, n, f) ==
    /\ wpc[w] = "recv"
    /\ f \in NextFlags(sent[<<w, n>>])
    /\ sent' = [sent EXCEPT ![<<w, n>>] = Append(@, f)]

(***************************************************************************)
(* ldmsd_handle_record on a request record.                               *)
(***************************************************************************)

\* Mutant of RecvDuplicate: the error path puts the existing context twice.
RecvDuplicatePutTwice(w, n, f) ==
    LET c == Lookup("REQ", <<w, n>>) IN
    /\ SOM \in f
    /\ c /= NoCtx
    /\ ClientSends(w, n, f)
    /\ SendReply(c)
    /\ ctx' = Put(Put(ctx, c), c)
    /\ UNCHANGED <<wpc, wctx, rspSent, outOk, msgNo, nextCtx>>

\* SOM for a key already indexed: EEXIST is sent on the existing context's
\* key, and the error path puts the existing context's "create" reference.
RecvDuplicate(w, n, f) ==
    LET c == Lookup("REQ", <<w, n>>) IN
    /\ SOM \in f
    /\ c /= NoCtx
    /\ ClientSends(w, n, f)
    /\ SendReply(c)
    /\ ctx' = Put(ctx, c)
    /\ UNCHANGED <<wpc, wctx, rspSent, outOk, msgNo, nextCtx>>

\* SOM for a new key: allocate and index a context, copy the payload.
RecvStart(w, n, f) ==
    /\ SOM \in f
    /\ Lookup("REQ", <<w, n>>) = NoCtx
    /\ nextCtx \in CtxIds
    /\ ClientSends(w, n, f)
    /\ ctx' = Handed([ctx EXCEPT ![nextCtx] =
                 NewCtx("REQ", <<w, n>>, <<Len(sent'[<<w, n>>])>>, NoCtx, "none")],
                 nextCtx, f)
    /\ nextCtx' = nextCtx + 1
    /\ HandOver(w, nextCtx, f)
    /\ UNCHANGED <<rspSent, outOk, replies, msgNo>>

\* A continuation for a key that is not indexed: ENOENT is sent back.
RecvUnknown(w, n, f) ==
    /\ SOM \notin f
    /\ Lookup("REQ", <<w, n>>) = NoCtx
    /\ ClientSends(w, n, f)
    /\ replies' = [replies EXCEPT ![<<w, n>>] = Append(@, Plain)]
    /\ UNCHANGED <<ctx, wpc, wctx, rspSent, outOk, msgNo, nextCtx>>

\* Mutant of RecvAppend: the SOM test is missing, so a SOM record for a
\* pending key is appended to it.
RecvAppendAnyFlags(w, n, f) ==
    LET c == Lookup("REQ", <<w, n>>) IN
    /\ c /= NoCtx
    /\ ClientSends(w, n, f)
    /\ ctx' = Handed([ctx EXCEPT ![c].buf = Append(@, Len(sent'[<<w, n>>]))], c, f)
    /\ HandOver(w, c, f)
    /\ UNCHANGED <<rspSent, outOk, replies, msgNo, nextCtx>>

\* A continuation for an indexed key: append the payload.
RecvAppend(w, n, f) ==
    LET c == Lookup("REQ", <<w, n>>) IN
    /\ SOM \notin f
    /\ c /= NoCtx
    /\ ClientSends(w, n, f)
    /\ ctx' = Handed([ctx EXCEPT ![c].buf = Append(@, Len(sent'[<<w, n>>]))], c, f)
    /\ HandOver(w, c, f)
    /\ UNCHANGED <<rspSent, outOk, replies, msgNo, nextCtx>>

(***************************************************************************)
(* ldmsd_handle_record on a response record from Prdcr.                   *)
(***************************************************************************)

ProducerSends(n, f) ==
    /\ wpc[Prdcr] = "recv"
    /\ FaultyPeers \/ n \in outOk
    /\ f \in NextFlags(rspSent[n])
    /\ rspSent' = [rspSent EXCEPT ![n] = Append(@, f)]

\* No outstanding request has this msg_no: ENOENT is sent to Prdcr.
RecvRspUnknown(n, f) ==
    /\ Lookup("RSP", <<Prdcr, n>>) = NoCtx
    /\ ProducerSends(n, f)
    /\ UNCHANGED <<ctx, wpc, wctx, sent, outOk, replies, msgNo, nextCtx>>

\* Append to the registered outbound context; SOM is not checked here.
RecvRsp(n, f) ==
    LET r == Lookup("RSP", <<Prdcr, n>>) IN
    /\ r /= NoCtx
    /\ ProducerSends(n, f)
    /\ ctx' = Handed([ctx EXCEPT ![r].buf = Append(@, Len(rspSent'[n]))], r, f)
    /\ HandOver(Prdcr, r, f)
    /\ UNCHANGED <<sent, outOk, replies, msgNo, nextCtx>>

(***************************************************************************)
(* Dispatch of a completed request: ldmsd_process_msg_request.           *)
(***************************************************************************)

Dispatching(w) == wpc[w] = "dispatch" /\ w \in Conns

\* The request is answered now: a parse error, a missing, mistyped or
\* unknown "request" name, or a handler that returns a reply document.
DispatchReply(w) ==
    /\ Dispatching(w)
    /\ "reply" \in ReqKinds
    /\ SendReply(wctx[w])
    /\ wpc' = [wpc EXCEPT ![w] = "release"]
    /\ UNCHANGED <<ctx, wctx, sent, rspSent, outOk, msgNo, nextCtx>>

\* A handler returns NULL with errno other than EINPROGRESS (an allocation
\* failure, stream_subscribe when ldmsd_stream_subscribe fails, update's
\* regcomp error path): ldmsd_process_msg_request returns errno to its
\* caller and sends nothing.  failed records that returned errno.
DispatchNoReply(w) ==
    /\ Dispatching(w)
    /\ "noreply" \in ReqKinds
    /\ ctx' = [ctx EXCEPT ![wctx[w]].failed = TRUE]
    /\ wpc' = [wpc EXCEPT ![w] = "release"]
    /\ UNCHANGED <<wctx, sent, rspSent, outOk, replies, msgNo, nextCtx>>

\* ldmsd_request_send: take a msg_no, allocate and index a response-side
\* context carrying the continuation (resp_handler, resp_args) that names
\* the original context c; test_protocol's resp_args also keep the reply
\* built for the request's arguments a.
Registered(cs, c, kind, a) ==
    [cs EXCEPT ![nextCtx] =
        [NewCtx("RSP", <<Prdcr, msgNo>>, <<>>, c, kind) EXCEPT !.args = a]]

\* The hops dictionary __test_protocol_forward_reply starts the reply with:
\* this daemon's name under the request's hop_id.
OwnHop(a) == {a[2]}

\* __test_protocol_forward_handler's arguments that lead to a forward:
\* num_hops other than 0 and a first producer to send to.  set_route's
\* request has no such arguments.
ArgsOf(kind) ==
    IF kind = "fwd_test"
    THEN {a \in HopArgs : a[1] /= 0 /\ Avail > 0}
    ELSE {NoArgs}

\* Mutant of Outbound: num_hops is passed on without the decrement.
OutboundNoDecrement(a) == <<a[1], a[2] + 1>>

\* The nested request's arguments: one hop fewer, the next hop id.
Outbound(a) == <<a[1] - 1, a[2] + 1>>

\* test_protocol in forward mode that does not forward: num_hops is 0, or
\* ldmsd_prdcr_first finds no producer (ENOENT, "no more producers").
\* The reply holds its own hop and status 0.
DispatchTestLocal(w) ==
    /\ Dispatching(w)
    /\ "fwd_test" \in ReqKinds
    /\ \E a \in HopArgs :
          /\ a[1] = 0 \/ Avail = 0
          /\ SendReplyOf(wctx[w], Reply(a, OwnHop(a), TRUE))
    /\ wpc' = [wpc EXCEPT ![w] = "release"]
    /\ UNCHANGED <<ctx, wctx, sent, rspSent, outOk, msgNo, nextCtx>>

\* Mutants of DispatchForward.  DispatchForwardNoRef: the handler does not
\* take a reference for the continuation.  DispatchForwardReplies: the
\* dispatcher ignores EINPROGRESS and replies at once as well.
DispatchForwardNoRef(w, kind) ==
    LET c == wctx[w] IN
    /\ Dispatching(w)
    /\ kind \in ReqKinds \cap FwdKinds
    /\ msgNo \in RspNos
    /\ nextCtx \in CtxIds
    /\ \E a \in ArgsOf(kind) : ctx' = Registered(ctx, c, kind, a)
    /\ outOk' = outOk \cup {msgNo}
    /\ msgNo' = msgNo + 1
    /\ nextCtx' = nextCtx + 1
    /\ wpc' = [wpc EXCEPT ![w] = "release"]
    /\ UNCHANGED <<wctx, sent, rspSent, replies>>

DispatchForwardReplies(w, kind) ==
    LET c == wctx[w] IN
    /\ Dispatching(w)
    /\ kind \in ReqKinds \cap FwdKinds
    /\ msgNo \in RspNos
    /\ nextCtx \in CtxIds
    /\ \E a \in ArgsOf(kind) :
          ctx' = Registered([ctx EXCEPT ![c].ref = @ + 1], c, kind, a)
    /\ SendReply(c)
    /\ outOk' = outOk \cup {msgNo}
    /\ msgNo' = msgNo + 1
    /\ nextCtx' = nextCtx + 1
    /\ wpc' = [wpc EXCEPT ![w] = "release"]
    /\ UNCHANGED <<wctx, sent, rspSent>>

\* The forwarding handlers when the send succeeds: take a reference on the
\* original context for the continuation, send the nested request and
\* return EINPROGRESS, so no reply is sent now.
DispatchForward(w, kind) ==
    LET c == wctx[w] IN
    /\ Dispatching(w)
    /\ kind \in ReqKinds \cap FwdKinds
    /\ msgNo \in RspNos
    /\ nextCtx \in CtxIds
    /\ \E a \in ArgsOf(kind) :
          ctx' = Registered([ctx EXCEPT ![c].ref = @ + 1], c, kind, a)
    /\ outOk' = outOk \cup {msgNo}
    /\ msgNo' = msgNo + 1
    /\ nextCtx' = nextCtx + 1
    /\ wpc' = [wpc EXCEPT ![w] = "release"]
    /\ UNCHANGED <<wctx, sent, rspSent, replies>>

\* Mutant of ReleasesOnSendError: no handler puts the reference it took.
ReleasesOnSendErrorNever(kind) == kind \notin FwdKinds

\* Whether the forwarding handler's error path puts the reference it took:
\* __test_protocol_forward does, set_route_request does not.
ReleasesOnSendError(kind) == kind = "fwd_test"

\* Mutant of ForwardSendFailed: the error is logged but not sent.
ForwardSendFailedSilent(w, kind) ==
    LET c == wctx[w]
        taken == [ctx EXCEPT ![c].ref = @ + 1]
        back == IF ReleasesOnSendError(kind) THEN Put(taken, c) ELSE taken
    IN
    /\ Dispatching(w)
    /\ kind \in ReqKinds \cap FailKinds
    /\ msgNo \in RspNos
    /\ nextCtx \in CtxIds
    /\ \E a \in ArgsOf(kind) : ctx' = Put(Registered(back, c, kind, a), nextCtx)
    /\ msgNo' = msgNo + 1
    /\ nextCtx' = nextCtx + 1
    /\ wpc' = [wpc EXCEPT ![w] = "release"]
    /\ UNCHANGED <<wctx, sent, rspSent, outOk, replies>>

\* test_protocol's answer when the forward fails: its own hop with the
\* send's error as status; set_route answers with an error document.
FailedReply(kind, a) ==
    IF kind = "fwd_test" THEN Reply(a, OwnHop(a), FALSE) ELSE Plain

\* The forwarding handlers when the send of the nested request fails:
\* ldmsd_request_send puts the new context's "create" reference (freeing
\* it), and the handler answers the original request with the error.
ForwardSendFailed(w, kind) ==
    LET c == wctx[w]
        taken == [ctx EXCEPT ![c].ref = @ + 1]
        back == IF ReleasesOnSendError(kind) THEN Put(taken, c) ELSE taken
    IN
    /\ Dispatching(w)
    /\ kind \in ReqKinds \cap FailKinds
    /\ msgNo \in RspNos
    /\ nextCtx \in CtxIds
    /\ \E a \in ArgsOf(kind) :
          /\ ctx' = Put(Registered(back, c, kind, a), nextCtx)
          /\ SendReplyOf(c, FailedReply(kind, a))
    /\ msgNo' = msgNo + 1
    /\ nextCtx' = nextCtx + 1
    /\ wpc' = [wpc EXCEPT ![w] = "release"]
    /\ UNCHANGED <<wctx, sent, rspSent, outOk>>

(***************************************************************************)
(* Dispatch of a completed response: ldmsd_process_msg_response.          *)
(***************************************************************************)

\* How far a test_protocol forward request <<m, h>> travels below a daemon
\* with d producers under it: m hops, or to the end of the chain.
Depth(m, d) == IF m < d THEN m ELSE d

\* The answers a daemon with d producers below it may give to <<m, h>>
\* (spec.md 8): status 0 with the hop ids h .. h + Depth(m, d), or, when a
\* forward on the way failed, an error status with the hops up to the
\* daemon whose send failed.  The producer's answer is taken from
\* ChainAnswers(., Avail - 1): the property HopsFollowChain, checked for
\* this daemon, is the same statement for Avail.
ChainAnswers(a, d) ==
    {Reply(a, a[2] .. (a[2] + Depth(a[1], d)), TRUE)}
    \cup {Reply(a, a[2] .. (a[2] + j), FALSE) : j \in 0 .. (Depth(a[1], d) - 1)}

\* The nested response does not parse: the error goes back to Prdcr and
\* the continuation is not run.
ResponseParseFailed ==
    /\ wpc[Prdcr] = "dispatch"
    /\ "bad_json" \in RspKinds
    /\ wpc' = [wpc EXCEPT ![Prdcr] = "release"]
    /\ UNCHANGED <<ctx, wctx, sent, rspSent, outOk, replies, msgNo, nextCtx>>

\* Mutant of RunContinuation: the merged reply is never sent.
RunContinuationSilent ==
    LET r == wctx[Prdcr]
        c == ctx[r].cont
    IN
    /\ wpc[Prdcr] = "dispatch"
    /\ "ok" \in RspKinds
    /\ c /= NoCtx
    /\ ctx' = Put([ctx EXCEPT ![r].cont = NoCtx], c)
    /\ wpc' = [wpc EXCEPT ![Prdcr] = "release"]
    /\ UNCHANGED <<wctx, sent, rspSent, outOk, replies, msgNo, nextCtx>>

\* test_protocol_forward_resp_handler's merge: a non-zero status of the
\* nested reply becomes the reply's status, and the nested "hops" are
\* merged into the reply's (json_dict_merge).
MergeHops(a, nested) == Reply(a, OwnHop(a) \cup nested.hops, nested.ok)

\* The reply a continuation sends for the response-side context r:
\* test_protocol's merged hops, or set_route's info with the nested hops.
ContinuationReplies(r) ==
    IF ctx[r].fwd = "fwd_test"
    THEN {MergeHops(ctx[r].args, n) : n \in ChainAnswers(Outbound(ctx[r].args), Avail - 1)}
    ELSE {Plain}

\* What a continuation does once the nested result is merged into the
\* reply: send the reply rp on the original context and put the reference
\* it held.
AnswerOriginal(r, c, rp) ==
    /\ SendReplyOf(c, rp)
    /\ ctx' = Put([ctx EXCEPT ![r].cont = NoCtx], c)

\* The response handler registered by the forwarding handler runs:
\* test_protocol_forward_resp_handler (status and hops merged into the
\* reply) or set_route_resp_handler.
RunContinuation ==
    LET r == wctx[Prdcr]
        c == ctx[r].cont
    IN
    /\ wpc[Prdcr] = "dispatch"
    /\ "ok" \in RspKinds
    /\ c /= NoCtx
    /\ \E rp \in ContinuationReplies(r) : AnswerOriginal(r, c, rp)
    /\ wpc' = [wpc EXCEPT ![Prdcr] = "release"]
    /\ UNCHANGED <<wctx, sent, rspSent, outOk, msgNo, nextCtx>>

\* The receive path puts the "create" reference once the message has been
\* processed.
Release(w) ==
    /\ wpc[w] = "release"
    /\ ctx' = Put(ctx, wctx[w])
    /\ wpc' = [wpc EXCEPT ![w] = "recv"]
    /\ wctx' = [wctx EXCEPT ![w] = NoCtx]
    /\ UNCHANGED <<sent, rspSent, outOk, replies, msgNo, nextCtx>>

\* Every peer has sent all it may and every message has been processed.
Quiescent ==
    /\ \A w \in Workers : wpc[w] = "recv"
    /\ \A k \in ReqKeys : NextFlags(sent[k]) = {}
    /\ \A n \in RspNos : (FaultyPeers \/ n \in outOk) => NextFlags(rspSent[n]) = {}

Init ==
    /\ ctx = [c \in CtxIds |-> [type |-> "none", key |-> NoCtx, ref |-> 0,
                                state |-> "unused", buf |-> <<>>, handed |-> 0,
                                cont |-> NoCtx, fwd |-> "none", args |-> NoArgs,
                                failed |-> FALSE]]
    /\ wpc = [w \in Workers |-> "recv"]
    /\ wctx = [w \in Workers |-> NoCtx]
    /\ sent = [k \in ReqKeys |-> <<>>]
    /\ rspSent = [n \in RspNos |-> <<>>]
    /\ outOk = {}
    /\ replies = [k \in ReqKeys |-> <<>>]
    /\ msgNo = 0
    /\ nextCtx = 1

Dispatch(w) ==
    \/ DispatchReply(w)
    \/ DispatchNoReply(w)
    \/ DispatchTestLocal(w)
    \/ \E kind \in FwdKinds : DispatchForward(w, kind) \/ ForwardSendFailed(w, kind)

Next ==
    \/ \E w \in Conns, n \in MsgNos, f \in Flags :
          \/ RecvDuplicate(w, n, f)
          \/ RecvStart(w, n, f)
          \/ RecvUnknown(w, n, f)
          \/ RecvAppend(w, n, f)
    \/ \E n \in RspNos, f \in Flags : RecvRspUnknown(n, f) \/ RecvRsp(n, f)
    \/ \E w \in Conns : Dispatch(w)
    \/ ResponseParseFailed
    \/ RunContinuation
    \/ \E w \in Workers : Release(w)
    \/ Quiescent /\ UNCHANGED vars

\* The daemon's threads keep running; the producer answers every request
\* that reached it.  Clients are not obliged to send anything.
Fairness ==
    /\ \A w \in Conns : WF_vars(Dispatch(w))
    /\ \A w \in Workers : WF_vars(Release(w))
    /\ WF_vars(ResponseParseFailed \/ RunContinuation)
    /\ \A n \in RspNos : WF_vars(\E f \in Flags : RecvRsp(n, f))

Spec == Init /\ [][Next]_vars /\ Fairness

-----------------------------------------------------------------------------
(* Properties *)

TypeOK ==
    /\ ctx \in [CtxIds -> [type : {"none", "REQ", "RSP"},
                           key : ReqKeys \cup RspKeys \cup {NoCtx},
                           ref : Nat,
                           state : {"unused", "live", "freed"},
                           buf : Seq(Nat),
                           handed : Nat,
                           cont : CtxIds \cup {NoCtx},
                           fwd : {"none"} \cup FwdKinds,
                           args : {NoArgs} \cup HopArgs,
                           failed : BOOLEAN]]
    /\ wpc \in [Workers -> {"recv", "dispatch", "release"}]
    /\ wctx \in [Workers -> CtxIds \cup {NoCtx}]
    /\ outOk \subseteq RspNos
    /\ replies \in [ReqKeys -> Seq([args : {NoArgs} \cup HopArgs,
                                    hops : SUBSET Nat, ok : BOOLEAN])]
    /\ msgNo \in 0..MaxFwd
    /\ nextCtx \in 1..(MaxCtx + 1)

\* Who holds a counted pointer to context c: the reassembly path until the
\* message is complete (the "create" reference), a receive thread that
\* dispatches or releases it, and every live outbound context whose
\* continuation names it.
Holders(c) ==
    (IF ctx[c].state = "live" /\ ctx[c].handed = 0 THEN 1 ELSE 0)
    + Cardinality({w \in Workers : wctx[w] = c})
    + Cardinality({r \in CtxIds : ctx[r].state = "live" /\ ctx[r].cont = c})

\* Reference counting is exact: every context's count equals the number of
\* holders of a pointer to it, so no path (error paths of handle_record,
\* the forwarding handlers and their continuations included) leaks a
\* reference or releases one it does not hold, and no freed context is
\* still held by anyone.
RefCountMatchesHolders ==
    \A c \in CtxIds : ctx[c].state /= "unused" => ctx[c].ref = Holders(c)

\* No use after free on any error path: whatever a handler returns (a
\* reply, NULL without EINPROGRESS, a failed nested send) and whether or
\* not the nested response parses, a context's count never drops below
\* the number of its holders, so a thread, the reassembler or a pending
\* continuation never holds a freed context.  Leaks (count above holders,
\* as after an unparseable response) are allowed here.
RefCountCoversHolders ==
    \A c \in CtxIds : ctx[c].state /= "unused" => ctx[c].ref >= Holders(c)

\* A message is handed to dispatch only when it is whole: its first record
\* carries SOM, its last EOM, and no record in between carries either.
DispatchedIsWholeMessage ==
    \A w \in Conns : wpc[w] = "dispatch" =>
        LET c == wctx[w]
            s == sent[ctx[c].key]
            b == ctx[c].buf
        IN /\ SOM \in s[b[1]]
           /\ EOM \in s[b[Len(b)]]
           /\ \A i \in 1..Len(b) : b[i] = b[1] + i - 1
           /\ \A i \in 2..Len(b) : SOM \notin s[b[i]]
           /\ \A i \in 1..(Len(b) - 1) : EOM \notin s[b[i]]

\* Refinement mapping to the abstract lifecycle.  A request is "nested"
\* while a live outbound context's continuation names its context, and
\* "complete" once a reply was sent under its key and no continuation
\* for it remains; "dropped" once its handler failed without a reply.
Failed(k) == \E c \in CtxIds : ctx[c].type = "REQ" /\ ctx[c].key = k /\ ctx[c].failed

Nested(k) ==
    \E r \in CtxIds : /\ ctx[r].state = "live" /\ ctx[r].type = "RSP"
                      /\ ctx[r].cont /= NoCtx /\ ctx[ctx[r].cont].key = k

PhaseOf(k) ==
    CASE Nested(k)                     -> "nested"
      [] replies[k] /= <<>>            -> "complete"
      [] Failed(k)                     -> "dropped"
      [] Ended(sent[k])                -> "local"
      [] OTHER                         -> "idle"

Lifecycle == INSTANCE ReqLifecycle
                 WITH Keys <- ReqKeys,
                      phase <- [k \in ReqKeys |-> PhaseOf(k)],
                      answered <- [k \in ReqKeys |-> Len(replies[k])]

\* The engine implements the request lifecycle of spec.md 4.3: with peers
\* that follow the protocol, a request's reply is sent only after its last
\* record arrived, a forwarded request (EINPROGRESS from test_protocol or
\* set_route) is answered only by the continuation the nested response
\* runs or by the handler's send-failure path, each request is answered
\* at most once, a request whose handler failed without EINPROGRESS
\* (spec.md 4.2 step 4) is never answered later by anyone, and every other
\* request that arrived is eventually answered.
LifecycleRefined == Lifecycle!Spec

\* Every request whose last record has arrived is eventually answered,
\* forwarded ones included.
EveryRequestAnswered ==
    \A k \in ReqKeys : Ended(sent[k]) ~> replies[k] /= <<>>

\* Every context whose message completed is eventually freed and leaves
\* its index.
CompletedContextFreed ==
    \A c \in CtxIds : (ctx[c].state = "live" /\ ctx[c].handed > 0)
                          ~> ctx[c].state = "freed"

\* test_protocol's forward mode reports the route it took (spec.md 8):
\* every reply to a request <<num_hops, hop_id>> with status 0 lists
\* exactly the hop ids hop_id .. hop_id + min(num_hops, Avail), one per
\* daemon on the path, and an error reply lists the hops up to the daemon
\* whose forward failed.  It takes this daemon's num_hops test and
\* decrement, its hop_id arithmetic, the continuation's merge of the
\* producer's hops and status on the producer's receive thread, and the
\* send-failure path, to get it right.
HopsFollowChain ==
    \A k \in ReqKeys : \A i \in 1..Len(replies[k]) :
        LET rp == replies[k][i] IN
        rp.args /= NoArgs => rp \in ChainAnswers(rp.args, Avail)

\* Spec 4.2 step 3: a dispatched request's name resolves by exact match.
\* Whenever a receive thread dispatches a request, __process_msg_requests'
\* bsearch over request_handler_tbl (HandlerTable) finds the entry of that
\* name when there is one, and otherwise answers "not supported".
HandlerLookupExact == \A w \in Conns : Dispatching(w) => LookupExact

=============================================================================
