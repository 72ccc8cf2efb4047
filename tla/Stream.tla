------------------------------- MODULE Stream -------------------------------
(***************************************************************************)
(* The stream bus of ldmsd (src/ldms/src/ldmsd/ldmsd_stream.c) and its    *)
(* two callers in ldmsd_request.c: stream_subscribe_handler, which        *)
(* subscribes a configuration connection to a stream, and                 *)
(* ldmsd_process_msg_stream, which delivers a received stream message,   *)
(* and ldmsd_stream_client_dump, which lists every stream's clients.     *)
(*                                                                         *)
(* Streams are kept in s_tree under s_tree_lock; each stream's client    *)
(* list is guarded by its own s_lock, held across the delivery callbacks. *)
(* Each thread's steps are cut where the code takes or releases a lock,  *)
(* or must wait for one: between two cuts nothing a step reads can be    *)
(* changed by another thread.                                            *)
(*                                                                         *)
(* A stream object is <<name, i>>: the i-th stream object created for     *)
(* that name.  The code never removes a stream, so every object created  *)
(* stays in s_tree.  A client is the subscribing thread itself: its       *)
(* (cb_fn, ctxt) pair is (stream_republish_cb, the connection's ldms      *)
(* transport), one per connection.                                        *)
(***************************************************************************)
EXTENDS Naturals, Sequences, FiniteSets

CONSTANTS
    Subs,         \* connections sending stream_subscribe requests
    Pubs,         \* connections delivering received stream messages
    Names,        \* stream names
    SubNames,     \* SubNames[t]: the names connection t subscribes to
    PreStreams,   \* names whose stream exists at the start
    MaxCalls,     \* bound: operations per thread
    CloseAllowed, \* clients may call ldmsd_stream_close
    Dumpers,      \* connections that may call ldmsd_stream_client_dump
    Counters,     \* connections that may call ldmsd_stream_subscriber_count
    NoThread,
    NoStream

Threads == Subs \cup Pubs
MaxDup == Cardinality(Subs)
StreamIds == Names \X (1..MaxDup)

ASSUME Subs \cap Pubs = {} /\ PreStreams \subseteq Names
ASSUME SubNames \in [Subs -> SUBSET Names]
ASSUME MaxCalls \in Nat /\ CloseAllowed \in BOOLEAN /\ Dumpers \subseteq Threads
ASSUME Counters \subseteq Threads
ASSUME NoThread \notin Threads /\ NoStream \notin StreamIds

VARIABLES
    created,   \* created[n]: stream objects of name n inserted into s_tree
    clients,   \* clients[s]: s->s_c_list, head first
    sLock,     \* sLock[s]: holder of s->s_lock
    treeLock,  \* holder of s_tree_lock
    pc,        \* pc[t]: where thread t is
    arg,       \* arg[t]: the stream name of t's current call
    cur,       \* cur[t]: the stream object t has found or created
    calls,     \* calls[t]: operations t has made
    mine,      \* mine[t]: the streams of the clients t's subscribes returned
    pubs,      \* history: [name, expect, got] of every delivery
    replies,   \* history: [conn, name, ok] of every stream_subscribe request
    dumped     \* dumped[t]: the streams t's client dump has listed so far

vars == <<created, clients, sLock, treeLock, pc, arg, cur, calls, mine, pubs, replies,
          dumped>>

InTree(n) == {<<n, i>> : i \in 1..created[n]}

Range(s) == {s[i] : i \in 1..Len(s)}

\* The clients whose subscribe to name n has returned a client and which
\* have not closed it: what the callers were told, not the lists.
SubscribedTo(n) == {c \in Subs : \E s \in mine[c] : s[1] = n}

Idle(t) == pc[t] = "idle" /\ calls[t] < MaxCalls

Finish(t) ==
    /\ pc' = [pc EXCEPT ![t] = "idle"]
    /\ cur' = [cur EXCEPT ![t] = NoStream]
    /\ calls' = [calls EXCEPT ![t] = @ + 1]

(***************************************************************************)
(* __find_stream: under s_tree_lock, rbt_find the name; if found, lock    *)
(* the stream (still holding s_tree_lock) before letting the tree go.     *)
(* rbt_find returns one of the objects of that name.                     *)
(***************************************************************************)

\* The tree lookup: found, the thread keeps s_tree_lock and waits for the
\* stream's lock.
LookedUp(t, n, next) ==
    /\ Idle(t)
    /\ treeLock = NoThread
    /\ \E s \in InTree(n) :
          /\ treeLock' = t
          /\ cur' = [cur EXCEPT ![t] = s]
    /\ arg' = [arg EXCEPT ![t] = n]
    /\ pc' = [pc EXCEPT ![t] = next]
    /\ UNCHANGED <<created, clients, sLock, calls, mine, pubs, replies, dumped>>

\* __find_stream called by ldmsd_stream_subscribe or ldmsd_stream_deliver.
FindFound(t, n) ==
    /\ t \in Subs => n \in SubNames[t]
    /\ LookedUp(t, n, "find_lock")

\* ldmsd_stream_subscribe when __find_stream returns NULL: the tree lock
\* was taken and released; the new stream is set up outside any lock.
SubNotFound(t, n) ==
    /\ t \in Subs
    /\ n \in SubNames[t]
    /\ Idle(t)
    /\ treeLock = NoThread
    /\ InTree(n) = {}
    /\ arg' = [arg EXCEPT ![t] = n]
    /\ pc' = [pc EXCEPT ![t] = "create"]
    /\ UNCHANGED <<created, clients, sLock, treeLock, cur, calls, mine, pubs, replies, dumped>>

\* ldmsd_stream_deliver when __find_stream returns NULL: nothing to do.
PubNotFound(t, n) ==
    /\ t \in Pubs
    /\ Idle(t)
    /\ treeLock = NoThread
    /\ InTree(n) = {}
    /\ pubs' = Append(pubs, [name |-> n, expect |-> SubscribedTo(n), got |-> <<>>])
    /\ Finish(t)
    /\ UNCHANGED <<created, clients, sLock, treeLock, arg, mine, replies, dumped>>

\* The stream's lock is taken and s_tree_lock released.  A subscriber goes
\* on to scan the client list.
SubFindLock(t) ==
    /\ t \in Subs
    /\ pc[t] = "find_lock"
    /\ sLock[cur[t]] = NoThread
    /\ sLock' = [sLock EXCEPT ![cur[t]] = t]
    /\ treeLock' = NoThread
    /\ pc' = [pc EXCEPT ![t] = "scan"]
    /\ UNCHANGED <<created, clients, arg, cur, calls, mine, pubs, replies, dumped>>

\* ldmsd_stream_deliver after __find_stream found the stream: with its lock
\* held, every client on the list is called back in list order
\* (stream_republish_cb only sends on its transport), then the lock is
\* released.  The message was parsed by ldmsd_process_msg_stream, so every
\* client gets the entity.
PubDeliver(t) ==
    LET s == cur[t] IN
    /\ t \in Pubs
    /\ pc[t] = "find_lock"
    /\ sLock[s] = NoThread
    /\ treeLock' = NoThread
    /\ pubs' = Append(pubs, [name |-> arg[t], expect |-> SubscribedTo(arg[t]),
                             got |-> clients[s]])
    /\ Finish(t)
    /\ UNCHANGED <<created, clients, sLock, arg, mine, replies, dumped>>

\* ldmsd_process_msg_stream: a JSON stream message that does not parse is
\* logged and dropped before ldmsd_stream_deliver is called.
PubParseFailed(t, n) ==
    /\ t \in Pubs
    /\ Idle(t)
    /\ Finish(t)
    /\ UNCHANGED <<created, clients, sLock, treeLock, arg, mine, pubs, replies, dumped>>

(***************************************************************************)
(* ldmsd_stream_subscriber_count: __find_stream, then the client list is  *)
(* counted under s_lock.  The count is returned to the caller; no caller  *)
(* in the repository uses it, so only the locking is kept.               *)
(***************************************************************************)

\* __find_stream found the stream: s_tree_lock is held while s_lock is
\* waited for.
CountFound(t, n) ==
    /\ t \in Counters
    /\ LookedUp(t, n, "count_lock")

\* __find_stream returned NULL: the count is 0.
CountNotFound(t, n) ==
    /\ t \in Counters
    /\ Idle(t)
    /\ treeLock = NoThread
    /\ InTree(n) = {}
    /\ Finish(t)
    /\ UNCHANGED <<created, clients, sLock, treeLock, arg, mine, pubs, replies, dumped>>

\* s_lock is taken and s_tree_lock released; LIST_FOREACH counts the
\* clients and s_lock is released.
CountClients(t) ==
    /\ pc[t] = "count_lock"
    /\ sLock[cur[t]] = NoThread
    /\ treeLock' = NoThread
    /\ Finish(t)
    /\ UNCHANGED <<created, clients, sLock, arg, mine, pubs, replies, dumped>>

(***************************************************************************)
(* ldmsd_stream_subscribe after the lookup.                               *)
(***************************************************************************)

\* The new stream is inserted into s_tree under s_tree_lock, and the tree
\* lock is released before the stream's own lock is taken.
SubCreate(t) ==
    LET n == arg[t] IN
    /\ pc[t] = "create"
    /\ treeLock = NoThread
    /\ created[n] < MaxDup
    /\ created' = [created EXCEPT ![n] = @ + 1]
    /\ cur' = [cur EXCEPT ![t] = <<n, created[n] + 1>>]
    /\ pc' = [pc EXCEPT ![t] = "lock_new"]
    /\ UNCHANGED <<clients, sLock, treeLock, arg, calls, mine, pubs, replies, dumped>>

\* pthread_mutex_lock(&s->s_lock) on the stream just inserted.
SubLockNew(t) ==
    /\ pc[t] = "lock_new"
    /\ sLock[cur[t]] = NoThread
    /\ sLock' = [sLock EXCEPT ![cur[t]] = t]
    /\ pc' = [pc EXCEPT ![t] = "scan"]
    /\ UNCHANGED <<created, clients, treeLock, arg, cur, calls, mine, pubs, replies, dumped>>

\* stream_subscribe_handler's answer for a request naming one stream: a
\* returned client gives a success reply; NULL (EEXIST included) jumps to
\* oom, sets ENOMEM and returns no reply, recorded here as ok = FALSE.
SubscribeReply(t, ok) ==
    replies' = Append(replies, [conn |-> t, name |-> arg[t], ok |-> ok])

\* Mutant of SubScan: the EEXIST check is missing.
SubScanNoDupCheck(t) ==
    LET s == cur[t] IN
    /\ pc[t] = "scan"
    /\ clients' = [clients EXCEPT ![s] = <<t>> \o @]
    /\ mine' = [mine EXCEPT ![t] = @ \cup {s}]
    /\ sLock' = [sLock EXCEPT ![s] = NoThread]
    /\ SubscribeReply(t, TRUE)
    /\ Finish(t)
    /\ UNCHANGED <<created, treeLock, arg, pubs, dumped>>

\* With the stream locked: a client with the same (cb_fn, ctxt) makes the
\* call fail with EEXIST; otherwise the client is inserted at the head.
\* Either way the lock is released.  stream_subscribe_handler turns a NULL
\* client into "goto oom": errno = ENOMEM, no reply document, so
\* ldmsd_process_msg_request sends nothing.
SubScan(t) ==
    LET s == cur[t]
        dup == t \in Range(clients[s])
    IN
    /\ pc[t] = "scan"
    /\ clients' = IF dup THEN clients ELSE [clients EXCEPT ![s] = <<t>> \o @]
    /\ mine' = IF dup THEN mine ELSE [mine EXCEPT ![t] = @ \cup {s}]
    /\ sLock' = [sLock EXCEPT ![s] = NoThread]
    /\ SubscribeReply(t, ~dup)
    /\ Finish(t)
    /\ UNCHANGED <<created, treeLock, arg, pubs, dumped>>

\* Mutant of Close: the head of the list is removed instead of the client.
CloseHead(t, s) ==
    /\ CloseAllowed
    /\ t \in Subs
    /\ Idle(t)
    /\ s \in mine[t]
    /\ sLock[s] = NoThread
    /\ clients' = [clients EXCEPT ![s] = Tail(@)]
    /\ mine' = [mine EXCEPT ![t] = @ \ {s}]
    /\ Finish(t)
    /\ UNCHANGED <<created, sLock, treeLock, arg, pubs, replies, dumped>>

\* ldmsd_stream_close: under the stream's lock, LIST_REMOVE the client.
Close(t, s) ==
    /\ CloseAllowed
    /\ t \in Subs
    /\ Idle(t)
    /\ s \in mine[t]
    /\ sLock[s] = NoThread
    /\ clients' = [clients EXCEPT ![s] = SelectSeq(@, LAMBDA c : c /= t)]
    /\ mine' = [mine EXCEPT ![t] = @ \ {s}]
    /\ Finish(t)
    /\ UNCHANGED <<created, sLock, treeLock, arg, pubs, replies, dumped>>

(***************************************************************************)
(* ldmsd_stream_client_dump: s_tree_lock is held for the whole walk, and  *)
(* each stream's s_lock while its client list is printed.                 *)
(***************************************************************************)

\* Every stream object in s_tree.
AllStreams == UNION {InTree(n) : n \in Names}

\* pthread_mutex_lock(&s_tree_lock) before RBT_FOREACH; the document
\* buffer was allocated and started before.
DumpLockTree(t) ==
    /\ t \in Dumpers
    /\ Idle(t)
    /\ treeLock = NoThread
    /\ treeLock' = t
    /\ dumped' = [dumped EXCEPT ![t] = {}]
    /\ pc' = [pc EXCEPT ![t] = "dump"]
    /\ UNCHANGED <<created, clients, sLock, arg, cur, calls, mine, pubs, replies>>

\* One pass of RBT_FOREACH: the stream's lock is taken, its client list
\* printed and the lock released.  No stream can be inserted while the
\* tree lock is held; the model lets the walk take the streams in any
\* order.
DumpStream(t, s) ==
    /\ pc[t] = "dump"
    /\ s \in AllStreams \ dumped[t]
    /\ sLock[s] = NoThread
    /\ dumped' = [dumped EXCEPT ![t] = @ \cup {s}]
    /\ UNCHANGED <<created, clients, sLock, treeLock, pc, arg, cur, calls, mine, pubs, replies>>

\* The walk is over: s_tree_lock is released and the document returned.
DumpDone(t) ==
    /\ pc[t] = "dump"
    /\ dumped[t] = AllStreams
    /\ treeLock' = NoThread
    /\ Finish(t)
    /\ UNCHANGED <<created, clients, sLock, arg, mine, pubs, replies, dumped>>

Done == \A t \in Threads : pc[t] = "idle" /\ calls[t] = MaxCalls

Init ==
    /\ created = [n \in Names |-> IF n \in PreStreams THEN 1 ELSE 0]
    /\ clients = [s \in StreamIds |-> <<>>]
    /\ sLock = [s \in StreamIds |-> NoThread]
    /\ treeLock = NoThread
    /\ pc = [t \in Threads |-> "idle"]
    /\ arg = [t \in Threads |-> CHOOSE n \in Names : TRUE]
    /\ cur = [t \in Threads |-> NoStream]
    /\ calls = [t \in Threads |-> 0]
    /\ mine = [t \in Threads |-> {}]
    /\ pubs = <<>>
    /\ replies = <<>>
    /\ dumped = [t \in Threads |-> {}]

Step(t) ==
    \/ \E n \in Names : FindFound(t, n) \/ SubNotFound(t, n)
                        \/ PubNotFound(t, n) \/ PubParseFailed(t, n)
                        \/ CountFound(t, n) \/ CountNotFound(t, n)
    \/ SubFindLock(t) \/ PubDeliver(t) \/ CountClients(t)
    \/ SubCreate(t) \/ SubLockNew(t) \/ SubScan(t)
    \/ \E s \in StreamIds : Close(t, s) \/ DumpStream(t, s)
    \/ DumpLockTree(t) \/ DumpDone(t)

Next ==
    \/ \E t \in Threads : Step(t)
    \/ Done /\ UNCHANGED vars

\* Each thread keeps running; pthread mutexes promise no fairness, so a
\* thread waiting for a lock is only weakly fair: it gets it once the lock
\* stays free.
Spec == Init /\ [][Next]_vars /\ \A t \in Threads : WF_vars(Step(t))

-----------------------------------------------------------------------------
(* Properties *)

\* A delivery reaches every client whose subscribe to that name had
\* returned, and which had not closed, when the publisher took the
\* stream's lock (spec 4.4: each publish delivers to every subscriber).
PublishReachesSubscribers ==
    \A i \in 1..Len(pubs) : pubs[i].expect \subseteq Range(pubs[i].got)

\* A delivery calls each subscription back once: the EEXIST check and the
\* insertion are made under the same hold of s_lock (spec 8: publishing
\* after a duplicate subscribe delivers exactly once per subscription).
DeliveredAtMostOnce ==
    \A i \in 1..Len(pubs) :
        \A j, k \in 1..Len(pubs[i].got) : pubs[i].got[j] = pubs[i].got[k] => j = k

\* Refinement mapping to the atomic bus: a name's subscriptions are the
\* client list of its stream object.  The mapping takes the first object
\* of each name, which is the only one when each name has one creator.
Bus == INSTANCE StreamBus
           WITH Clients <- Subs,
                subs <- [n \in Names |-> clients[<<n, 1>>]],
                log <- [i \in 1..Len(pubs) |-> [name |-> pubs[i].name,
                                                got |-> pubs[i].got]],
                answers <- replies,
                held <- [c \in Subs |-> {s[1] : s \in mine[c]}]

\* The bus with its lock hand-overs (__find_stream's s_tree_lock to s_lock,
\* the unlocked set-up of a new stream, deliver holding s_lock across the
\* callbacks) behaves as the atomic publish/subscribe of spec 4.4: every
\* delivery calls exactly the subscriptions that exist when it takes the
\* stream's lock, head first and once each, a closed subscription is
\* never called again, and a subscribe is rejected exactly when the
\* client is already on the stream.
BusRefined == Bus!Spec

\* Every stream_subscribe request gets a reply; a duplicate subscription
\* is answered with AlreadySubscribed (spec 8).
SubscribeAnswered == \A i \in 1..Len(replies) : replies[i].ok

=============================================================================
