------------------------------ MODULE MsgChunk ------------------------------
(***************************************************************************)
(* The record writer of the ldmsd control protocol                        *)
(* (src/ldms/src/ldmsd/ldmsd_request_util.c, ldmsd_append_msg_buffer):    *)
(* a message of data_len bytes is cut into records of at most max_msg     *)
(* bytes, header included, built in a ldmsd_req_buf and handed to the     *)
(* transport's send function.  The buffer keeps its write offset (off)    *)
(* and the number of records sent through it (num_rec) across calls.     *)
(*                                                                         *)
(* Sizes are in abstract bytes: Hdr stands for sizeof(struct              *)
(* ldmsd_rec_hdr_s) and MaxMsg for xprt->max_msg; the buffer is allocated *)
(* with len = max_msg by every caller, so __get_remaining returns         *)
(* max_msg - off.  A call is one step; the do/while loop is the recursive *)
(* operator Chunk.                                                        *)
(***************************************************************************)
EXTENDS Integers, Sequences

CONSTANTS
    Hdr,          \* sizeof(struct ldmsd_rec_hdr_s)
    MaxMsg,       \* xprt->max_msg
    MaxData,      \* bound: data_len of one call
    MaxCalls,     \* bound: calls
    ReuseBuf,     \* a caller may send a second message through the same buffer
    SendMayFail   \* xprt->send_fn may return an error

SOM == "SOM"
EOM == "EOM"

ASSUME Hdr \in Nat \ {0} /\ MaxMsg > Hdr
ASSUME MaxData \in Nat /\ MaxCalls \in Nat
ASSUME ReuseBuf \in BOOLEAN /\ SendMayFail \in BOOLEAN

\* Records one call can send: data_len bytes, one record per MaxMsg - Hdr,
\* plus the record flushed first when a reused buffer is full.
MaxRecsPerCall == (MaxData \div (MaxMsg - Hdr)) + 2

VARIABLES
    off,      \* buf->off
    numRec,   \* buf->num_rec
    wire,     \* records handed to send_fn: flags, rec_len, message index
    calls     \* history: [len, flags, rc] of every call, in order

vars == <<off, numRec, wire, calls>>

\* Mutants of Chunk.  ChunkOverrun: __get_remaining off by one, so a record
\* takes one byte more than max_msg.  ChunkKeepEOM: the EOM bit is not
\* masked off a record sent because the buffer is full.
RECURSIVE ChunkOverrun(_, _, _, _, _, _)
ChunkOverrun(o, nr, dl, mf, m, fail) ==
    LET space == MaxMsg + 1 - o
        rem == IF dl < space THEN dl ELSE space
        send == rem = 0 \/ (dl - rem = 0 /\ EOM \in mf)
        fl == (IF rem = 0 /\ dl - rem > 0 THEN mf \ {EOM} ELSE mf \cap {EOM})
              \cup (IF nr = 0 THEN {SOM} ELSE {})
        out == IF send THEN <<[flags |-> fl, len |-> o + rem, msg |-> m]>> ELSE <<>>
    IN CASE send /\ fail = 0 ->
              [off |-> o + rem, numRec |-> nr, recs |-> <<>>, rc |-> 1]
         [] dl - rem = 0 ->
              [off |-> IF send THEN Hdr ELSE o + rem,
               numRec |-> IF send THEN nr + 1 ELSE nr, recs |-> out, rc |-> 0]
         [] OTHER ->
              LET r == ChunkOverrun(IF send THEN Hdr ELSE o + rem,
                                    IF send THEN nr + 1 ELSE nr, dl - rem, mf, m,
                                    IF send THEN fail - 1 ELSE fail)
              IN [r EXCEPT !.recs = out \o @]

RECURSIVE ChunkKeepEOM(_, _, _, _, _, _)
ChunkKeepEOM(o, nr, dl, mf, m, fail) ==
    LET space == MaxMsg - o
        rem == IF dl < space THEN dl ELSE space
        send == rem = 0 \/ (dl - rem = 0 /\ EOM \in mf)
        fl == mf \cup (IF nr = 0 THEN {SOM} ELSE {})
        out == IF send THEN <<[flags |-> fl, len |-> o + rem, msg |-> m]>> ELSE <<>>
    IN CASE send /\ fail = 0 ->
              [off |-> o + rem, numRec |-> nr, recs |-> <<>>, rc |-> 1]
         [] dl - rem = 0 ->
              [off |-> IF send THEN Hdr ELSE o + rem,
               numRec |-> IF send THEN nr + 1 ELSE nr, recs |-> out, rc |-> 0]
         [] OTHER ->
              LET r == ChunkKeepEOM(IF send THEN Hdr ELSE o + rem,
                                    IF send THEN nr + 1 ELSE nr, dl - rem, mf, m,
                                    IF send THEN fail - 1 ELSE fail)
              IN [r EXCEPT !.recs = out \o @]

\* One run of the do/while body of ldmsd_append_msg_buffer from offset o
\* with nr records already sent and dl bytes left, repeated while dl > 0;
\* message m's records are tagged m.  The send_fn call after fail more
\* successful sends returns an error (fail < 0: none does), and the
\* function returns it at once, leaving off and num_rec as they were.
\* Returns the final offset, record count, records sent and return code.
RECURSIVE Chunk(_, _, _, _, _, _)
Chunk(o, nr, dl, mf, m, fail) ==
    LET space == MaxMsg - o
        rem == IF dl < space THEN dl ELSE space
        o1 == o + rem
        dl1 == dl - rem
        send == rem = 0 \/ (dl1 = 0 /\ EOM \in mf)
        fl == (IF rem = 0 /\ dl1 > 0 THEN mf \ {EOM} ELSE mf \cap {EOM})
              \cup (IF nr = 0 THEN {SOM} ELSE {})
        out == IF send THEN <<[flags |-> fl, len |-> o1, msg |-> m]>> ELSE <<>>
        o2 == IF send THEN Hdr ELSE o1
        nr2 == IF send THEN nr + 1 ELSE nr
        fail2 == IF send THEN fail - 1 ELSE fail
    IN CASE send /\ fail = 0 ->
              [off |-> o1, numRec |-> nr, recs |-> <<>>, rc |-> 1]
         [] dl1 = 0 ->
              [off |-> o2, numRec |-> nr2, recs |-> out, rc |-> 0]
         [] OTHER ->
              LET r == Chunk(o2, nr2, dl1, mf, m, fail2)
              IN [r EXCEPT !.recs = out \o @]

\* Mutant of AppendMsgBuffer: a fresh buffer is taken to start where the
\* previous one stopped (off not reset by ldmsd_req_buf_alloc).
AppendMsgBufferStaleOff(dl, mf, fresh, fail) ==
    LET o0 == IF off = 0 THEN Hdr ELSE off
        nr0 == IF fresh THEN 0 ELSE numRec
        r == Chunk(o0, nr0, dl, mf, Len(calls) + 1, fail)
    IN
    /\ Len(calls) < MaxCalls
    /\ off' = r.off
    /\ numRec' = r.numRec
    /\ wire' = wire \o r.recs
    /\ calls' = Append(calls, [len |-> dl, flags |-> mf, rc |-> r.rc])

\* ldmsd_append_msg_buffer(xprt, max_msg, key, send_fn, buf, msg_flags, ...):
\* a fresh buffer (ldmsd_req_buf_alloc: off = 0, num_rec = 0) or the one
\* the previous message used; off = 0 is moved past the header first.
AppendMsgBuffer(dl, mf, fresh, fail) ==
    LET o0 == IF fresh \/ off = 0 THEN Hdr ELSE off
        nr0 == IF fresh THEN 0 ELSE numRec
        r == Chunk(o0, nr0, dl, mf, Len(calls) + 1, fail)
    IN
    /\ Len(calls) < MaxCalls
    /\ off' = r.off
    /\ numRec' = r.numRec
    /\ wire' = wire \o r.recs
    /\ calls' = Append(calls, [len |-> dl, flags |-> mf, rc |-> r.rc])

\* A caller may send through the buffer the previous message used only if
\* the configuration lets buffers be reused and that send succeeded.
Reusable(reuse) ==
    reuse => ReuseBuf /\ calls /= <<>> /\ calls[Len(calls)].rc = 0

\* ldmsd_error_send / __send_error: the error reply goes out as one
\* message with SOM and EOM, through the buffer the caller passes (a
\* context's send_buf: ldmsd_process_msg_request and _response) or, when
\* it passes none, through a buffer of its own.
ErrorSend(dl, fail, reuse) ==
    /\ Reusable(reuse)
    /\ AppendMsgBuffer(dl, {SOM, EOM}, ~reuse, fail)

\* ldmsd_send_err_rec_adv: the E2BIG advice, in a fresh buffer.
SendErrRecAdv(dl, fail) == AppendMsgBuffer(dl, {SOM, EOM}, TRUE, fail)

\* ldmsd_append_response, called by ldmsd_reply_send with SOM and EOM:
\* through the context's send_buf, which an earlier error reply on the
\* same context may have used.
AppendResponse(dl, fail, reuse) ==
    /\ Reusable(reuse)
    /\ AppendMsgBuffer(dl, {SOM, EOM}, ~reuse, fail)

\* ldmsd_append_request, called by ldmsd_request_send with SOM and EOM:
\* through the send_buf of the context just allocated for the request.
AppendRequest(dl, fail) == AppendMsgBuffer(dl, {SOM, EOM}, TRUE, fail)

Init ==
    /\ off = 0
    /\ numRec = 0
    /\ wire = <<>>
    /\ calls = <<>>

Next ==
    \/ \E dl \in 1..MaxData,
          fail \in IF SendMayFail THEN -1..MaxRecsPerCall ELSE {-1} :
          \/ \E reuse \in BOOLEAN : ErrorSend(dl, fail, reuse)
          \/ \E reuse \in BOOLEAN : AppendResponse(dl, fail, reuse)
          \/ SendErrRecAdv(dl, fail)
          \/ AppendRequest(dl, fail)
    \/ Len(calls) = MaxCalls /\ UNCHANGED vars

Spec == Init /\ [][Next]_vars

-----------------------------------------------------------------------------
(* Properties *)

TypeOK ==
    /\ off \in 0..MaxMsg
    /\ numRec \in Nat
    /\ wire \in Seq([flags : SUBSET {SOM, EOM}, len : Hdr..MaxMsg, msg : Nat])
    /\ calls \in Seq([len : Nat, flags : SUBSET {SOM, EOM}, rc : {0, 1}])

RecordsOf(m) == SelectSeq(wire, LAMBDA r : r.msg = m)

Payload(rs) ==
    LET RECURSIVE S(_)
        S(s) == IF s = <<>> THEN 0 ELSE (Head(s).len - Hdr) + S(Tail(s))
    IN S(rs)

\* Every byte of a message ended with EOM and sent without error goes out
\* exactly once: the
\* payloads of its records add up to data_len, each record (header
\* included) fits max_msg, and only a record with no room left ends early.
Delivered(m) == EOM \in calls[m].flags /\ calls[m].rc = 0

PayloadConserved ==
    \A m \in 1..Len(calls) : Delivered(m) =>
        LET rs == RecordsOf(m) IN
        /\ Payload(rs) = calls[m].len
        /\ \A i \in 1..Len(rs) : rs[i].len <= MaxMsg
        /\ \A i \in 1..(Len(rs) - 1) : rs[i].len = MaxMsg

\* Exactly the last record of a message sent with EOM carries EOM, so the
\* receiver hands the message over once and only when it is whole; a
\* message whose send failed part-way carries no EOM at all, so the
\* receiver never hands over a truncated message.
EOMOnlyOnLast ==
    \A m \in 1..Len(calls) : EOM \in calls[m].flags =>
        LET rs == RecordsOf(m) IN
        /\ calls[m].rc = 0 => rs /= <<>> /\ EOM \in rs[Len(rs)].flags
        /\ \A i \in 1..Len(rs) :
              EOM \in rs[i].flags => i = Len(rs) /\ calls[m].rc = 0

\* The first record of a message carries SOM and no other does (spec,
\* section 4.2 step 5); ldmsd_handle_record treats a second SOM under the
\* same key as a duplicate message.
SOMOnlyOnFirst ==
    \A m \in 1..Len(calls) :
        LET rs == RecordsOf(m) IN
        \A i \in 1..Len(rs) : (SOM \in rs[i].flags) <=> (i = 1)
=============================================================================
