------------------------------ MODULE StreamBus ------------------------------
(***************************************************************************)
(* What the ldmsd stream bus promises its callers (spec.md 4.4), with    *)
(* every call atomic.  A subscription is a client on a named stream;     *)
(* subscribing a client that is already on the stream fails              *)
(* (AlreadySubscribed) and changes nothing; a new subscription goes to   *)
(* the head of the list.  A publish calls every current subscription of  *)
(* the name once, head first; publishing to a name with no subscription  *)
(* calls nobody.  Closing a subscription removes exactly that one.       *)
(***************************************************************************)
EXTENDS Sequences, SequencesExt

CONSTANTS
    Clients,   \* callers that subscribe: one (cb_fn, ctxt) pair each
    Names      \* stream names

VARIABLES
    subs,      \* subs[n]: the subscriptions of stream n, head first
    log,       \* every publish: [name, got], got the clients called in order
    answers,   \* every subscribe: [conn, name, ok]
    held       \* held[c]: the names c was given a subscription handle for

vars == <<subs, log, answers, held>>

Init ==
    /\ subs = [n \in Names |-> <<>>]
    /\ log = <<>>
    /\ answers = <<>>
    /\ held = [c \in Clients |-> {}]

Subscribe(c, n) ==
    LET fresh == ~(c \in ToSet(subs[n])) IN
    /\ subs' = IF fresh THEN [subs EXCEPT ![n] = <<c>> \o @] ELSE subs
    /\ answers' = Append(answers, [conn |-> c, name |-> n, ok |-> fresh])
    /\ held' = IF fresh THEN [held EXCEPT ![c] = @ \cup {n}] ELSE held
    /\ UNCHANGED log

Publish(n) ==
    /\ log' = Append(log, [name |-> n, got |-> subs[n]])
    /\ UNCHANGED <<subs, answers, held>>

\* The caller closes the handle it was given.
Unsubscribe(c, n) ==
    /\ n \in held[c]
    /\ subs' = [subs EXCEPT ![n] = SelectSeq(@, LAMBDA x : x /= c)]
    /\ held' = [held EXCEPT ![c] = @ \ {n}]
    /\ UNCHANGED <<log, answers>>

Next ==
    \E n \in Names :
        \/ Publish(n)
        \/ \E c \in Clients : Subscribe(c, n) \/ Unsubscribe(c, n)

Spec == Init /\ [][Next]_vars
=============================================================================
