---------------------------- MODULE ReqLifecycle ----------------------------
(***************************************************************************)
(* What the ldmsd control protocol promises of one request, whatever the  *)
(* handler does (spec.md 4.3 and 7).  Per correlation key: the message    *)
(* arrives whole and waits for its handler (AWAITING_LOCAL), a forwarding *)
(* handler may issue a nested request (AWAITING_NESTED), and the request  *)
(* is answered exactly once (COMPLETE), or its handler fails without    *)
(* "in progress" and no reply is forced (DROPPED, spec.md 4.2 step 4).   *)
(* No other transition exists, and every request that arrived is         *)
(* eventually answered or dropped.                                        *)
(***************************************************************************)
EXTENDS Naturals

CONSTANT Keys   \* correlation keys <<conn, msg_no>> of client requests

VARIABLES
    phase,     \* phase[k]: "idle", "local", "nested", "complete", "dropped"
    answered   \* answered[k]: replies sent under k

vars == <<phase, answered>>

Init ==
    /\ phase = [k \in Keys |-> "idle"]
    /\ answered = [k \in Keys |-> 0]

\* The last record of the request arrives.
Arrive(k) ==
    /\ phase[k] = "idle"
    /\ phase' = [phase EXCEPT ![k] = "local"]
    /\ UNCHANGED answered

\* The handler forwards the request and returns "in progress".
Forward(k) ==
    /\ phase[k] = "local"
    /\ phase' = [phase EXCEPT ![k] = "nested"]
    /\ UNCHANGED answered

\* The one reply, from the handler or from the nested reply's continuation.
Answer(k) ==
    /\ phase[k] \in {"local", "nested"}
    /\ phase' = [phase EXCEPT ![k] = "complete"]
    /\ answered' = [answered EXCEPT ![k] = @ + 1]

\* The handler fails without "in progress": the failure is returned to the
\* caller and nothing is sent.
Drop(k) ==
    /\ phase[k] = "local"
    /\ phase' = [phase EXCEPT ![k] = "dropped"]
    /\ UNCHANGED answered

Next == \E k \in Keys : Arrive(k) \/ Forward(k) \/ Answer(k) \/ Drop(k)

\* Clients send when they like; an arrived request must be answered or
\* dropped.
Spec == Init /\ [][Next]_vars /\ \A k \in Keys : WF_vars(Answer(k) \/ Drop(k))

TypeOK ==
    /\ phase \in [Keys -> {"idle", "local", "nested", "complete", "dropped"}]
    /\ answered \in [Keys -> 0..1]
=============================================================================
