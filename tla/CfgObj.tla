------------------------------ MODULE CfgObj ------------------------------
(***************************************************************************)
(* The configuration-object handlers of ldmsd                             *)
(* (src/ldms/src/ldmsd/ldmsd_request.c, ldmsd_cfgobj_*_handler), run by   *)
(* the receive threads of several configuration connections at once over *)
(* one schema's registry.                                                 *)
(*                                                                         *)
(* The registry operations themselves (ldmsd_cfgobj_find, first_re,       *)
(* next_re, the schema's create and delete) live in ldmsd_cfgobj.c and    *)
(* the schema files, outside this repository's source; they are modelled *)
(* from the description of the configuration-object layer: a lookup      *)
(* returns a counted reference (the handlers' own comments, "Put the find *)
(* reference", say so), delete detaches the object from the registry and *)
(* puts the registry's reference, and the last put frees it.              *)
(*                                                                         *)
(* Objects are 1..NObj in registry (name) order; a regular expression is  *)
(* the set of objects it matches.  A step is one stretch of a handler     *)
(* between two points where another thread can act; a critical section    *)
(* that only calls into the registry is one step.                         *)
(***************************************************************************)
EXTENDS Integers, FiniteSets

CONSTANTS
    Thr,        \* configuration connections whose requests run concurrently
    NObj,       \* objects of the schema, in registry order
    Reqs,       \* the requests a connection may send
    MaxReqs,    \* bound: requests per connection
    NoThread

Objs == 1..NObj
NoObj == 0

ASSUME NObj \in Nat \ {0} /\ MaxReqs \in Nat
ASSUME NoThread \notin Thr
ASSUME \A r \in Reqs :
    /\ r.op \in {"create", "upd_key", "upd_re", "del_key", "del_re",
                 "query_key", "query_all", "export_key", "export_all"}
    /\ r.obj \in Objs /\ r.re \subseteq Objs /\ r.en \in {-1, 0, 1}

VARIABLES
    st,        \* st[o]: "absent", "live" (in the registry), "detached", "freed"
    ref,       \* ref[o]: the object's reference count
    en,        \* en[o]: the enabled flag
    cfgLock,   \* holder of ldmsd_cfg_lock(type)
    initd,     \* ldmsd_is_initialized()
    lastEv,    \* lastEv[o]: the last lifecycle event posted for o
    pc,        \* pc[t]: where t's handler is
    rq,        \* rq[t]: the request t is handling
    cur,       \* cur[t]: the object pointer t's handler holds
    refd,      \* refd[t]: the objects t holds a counted reference on
    nreq,      \* requests handled per connection
    crashed    \* the daemon died on a NULL dereference

vars == <<st, ref, en, cfgLock, initd, lastEv, pc, rq, cur, refd, nreq, crashed>>

\* The first object after position a, in registry order, that is in the
\* registry and matches re (ldmsd_cfgobj_first_re / _next_re).
NextMatch(re, a) ==
    LET m == {o \in re : o > a /\ st[o] = "live"}
    IN IF m = {} THEN NoObj ELSE CHOOSE o \in m : \A p \in m : o <= p

\* Mutant of Get: the object is returned without a reference.
GetNothing(rf, o) == rf

\* ldmsd_cfgobj_get on a returned object: NoObj takes nothing.
Get(rf, o) == IF o = NoObj THEN rf ELSE [rf EXCEPT ![o] = @ + 1]

\* The lifecycle event an update with is_enabled = e posts once the daemon
\* is initialized: enabled_ev for 1, disabled_ev for 0, none for -1.
EvOf(e) == IF e = 1 THEN "enabled" ELSE "disabled"
Posted(o, e) ==
    lastEv' = IF initd /\ e /= -1 THEN [lastEv EXCEPT ![o] = EvOf(e)] ELSE lastEv

Apply(o, e) == en' = IF e = -1 THEN en ELSE [en EXCEPT ![o] = (e = 1)]

Idle(t) == pc[t] = "idle" /\ nreq[t] < MaxReqs /\ ~crashed

Finish(t) ==
    /\ pc' = [pc EXCEPT ![t] = "idle"]
    /\ cur' = [cur EXCEPT ![t] = NoObj]
    /\ nreq' = [nreq EXCEPT ![t] = @ + 1]

(***************************************************************************)
(* create                                                                  *)
(***************************************************************************)

\* ldmsd_cfgobj_create_handler: for the one name of the spec dictionary the
\* schema's create runs under the registry lock and inserts the object
\* unless the name is taken.  The object starts with the registry's
\* reference and the enabled flag of the request.
Create(t, r) ==
    LET o == r.obj IN
    /\ r.op = "create"
    /\ Idle(t)
    /\ cfgLock = NoThread
    /\ IF st[o] = "absent"
          THEN /\ st' = [st EXCEPT ![o] = "live"]
               /\ ref' = [ref EXCEPT ![o] = 1]
               /\ en' = [en EXCEPT ![o] = (r.en = 1)]
          ELSE UNCHANGED <<st, ref, en>>
    /\ Finish(t)
    /\ UNCHANGED <<cfgLock, initd, lastEv, rq, refd, crashed>>

(***************************************************************************)
(* update                                                                  *)
(***************************************************************************)

\* ldmsd_cfgobj_update_handler, key list: ldmsd_cfgobj_find, called with
\* no lock held, returns a reference or NULL, and NULL is answered with a
\* per-object ENOENT result.  (The query handler calls find with the
\* registry lock held, so find does not take it; the lookup races the
\* tree's writers and is modelled as one atomic read.)
UpdKeyFind(t, r) ==
    LET o == r.obj IN
    /\ r.op = "upd_key"
    /\ Idle(t)
    /\ rq' = [rq EXCEPT ![t] = r]
    /\ IF st[o] = "live"
          THEN /\ ref' = [ref EXCEPT ![o] = @ + 1]
               /\ refd' = [refd EXCEPT ![t] = @ \cup {o}]
               /\ cur' = [cur EXCEPT ![t] = o]
               /\ pc' = [pc EXCEPT ![t] = "upd_key_apply"]
               /\ UNCHANGED nreq
          ELSE /\ Finish(t)
               /\ UNCHANGED <<ref, refd>>
    /\ UNCHANGED <<st, en, cfgLock, initd, lastEv, crashed>>

\* Under the object's lock obj->update applies is_enabled; the lock is
\* released before the event is posted.
UpdKeyApply(t) ==
    /\ pc[t] = "upd_key_apply"
    /\ Apply(cur[t], rq[t].en)
    /\ pc' = [pc EXCEPT ![t] = "upd_key_post"]
    /\ UNCHANGED <<st, ref, cfgLock, initd, lastEv, rq, cur, refd, nreq, crashed>>

\* After ldmsd_cfgobj_unlock: if the daemon is initialized, ev_post of
\* enabled_ev or disabled_ev; the result is added and the loop goes on.
\* The find reference is never put.
UpdKeyPost(t) ==
    /\ pc[t] = "upd_key_post"
    /\ Posted(cur[t], rq[t].en)
    /\ refd' = [refd EXCEPT ![t] = @ \ {cur[t]}]
    /\ Finish(t)
    /\ UNCHANGED <<st, ref, en, cfgLock, initd, rq, crashed>>

\* The re list: ldmsd_cfgobj_first_re returns a reference on the first
\* match, or NULL and the loop is over.
UpdReFirst(t, r) ==
    LET o == NextMatch(r.re, 0) IN
    /\ r.op = "upd_re"
    /\ Idle(t)
    /\ rq' = [rq EXCEPT ![t] = r]
    /\ ref' = Get(ref, o)
    /\ IF o = NoObj
          THEN Finish(t) /\ UNCHANGED refd
          ELSE /\ refd' = [refd EXCEPT ![t] = @ \cup {o}]
               /\ cur' = [cur EXCEPT ![t] = o]
               /\ pc' = [pc EXCEPT ![t] = "upd_re_apply"]
               /\ UNCHANGED nreq
    /\ UNCHANGED <<st, en, cfgLock, initd, lastEv, crashed>>

\* With the object locked: obj->update, the result, and the event posted
\* before ldmsd_cfgobj_unlock.
UpdReApply(t) ==
    /\ pc[t] = "upd_re_apply"
    /\ Apply(cur[t], rq[t].en)
    /\ Posted(cur[t], rq[t].en)
    /\ pc' = [pc EXCEPT ![t] = "upd_re_next"]
    /\ UNCHANGED <<st, ref, cfgLock, initd, rq, cur, refd, nreq, crashed>>

\* ldmsd_cfgobj_next_re(obj): a reference on the next match.  The loop
\* holds no registry lock, so obj may have been detached by a delete in
\* the meantime; the successor of a node no longer in the tree is then
\* undefined, and the model lets it be the right one or none.  The
\* reference on obj is never put.
UpdReNext(t) ==
    LET o == cur[t]
        right == NextMatch(rq[t].re, o)
    IN
    /\ pc[t] = "upd_re_next"
    /\ \E n \in IF st[o] = "live" THEN {right} ELSE {right, NoObj} :
          /\ ref' = Get(ref, n)
          /\ refd' = [refd EXCEPT ![t] = (@ \ {o}) \cup (IF n = NoObj THEN {} ELSE {n})]
          /\ IF n = NoObj
                THEN Finish(t)
                ELSE /\ cur' = [cur EXCEPT ![t] = n]
                     /\ pc' = [pc EXCEPT ![t] = "upd_re_apply"]
                     /\ UNCHANGED nreq
    /\ UNCHANGED <<st, en, cfgLock, initd, lastEv, rq, crashed>>

(***************************************************************************)
(* delete                                                                  *)
(***************************************************************************)

\* ldmsd_cfgobj_delete_handler, key list: ldmsd_cfgobj_find with no lock
\* held; NULL is an ENOENT result (and ldmsd_cfgobj_put(NULL) does nothing).
DelKeyFind(t, r) ==
    LET o == r.obj IN
    /\ r.op = "del_key"
    /\ Idle(t)
    /\ rq' = [rq EXCEPT ![t] = r]
    /\ IF st[o] = "live"
          THEN /\ ref' = [ref EXCEPT ![o] = @ + 1]
               /\ refd' = [refd EXCEPT ![t] = @ \cup {o}]
               /\ cur' = [cur EXCEPT ![t] = o]
               /\ pc' = [pc EXCEPT ![t] = "del_key"]
               /\ UNCHANGED nreq
          ELSE /\ Finish(t)
               /\ UNCHANGED <<ref, refd>>
    /\ UNCHANGED <<st, en, cfgLock, initd, lastEv, crashed>>

\* Mutant of Unregister: a delete of an object that is no longer in the
\* registry puts the registry's reference again.
UnregisterTwice(s, rf, o) == [rf EXCEPT ![o] = @ - 1]

\* The registry's reference: obj->delete detaches a registered object and
\* puts it; an object another delete already detached is left alone.
Unregister(s, rf, o) ==
    IF s[o] = "live" THEN [rf EXCEPT ![o] = @ - 1] ELSE rf

\* ldmsd_cfgobj_put: the last reference frees the object.
PutRef(s, rf, o) ==
    LET r == rf[o] - 1 IN
    [st |-> [s EXCEPT ![o] = IF r <= 0 THEN "freed" ELSE @],
     ref |-> [rf EXCEPT ![o] = r]]

\* ldmsd_cfg_lock; obj->delete(obj); ldmsd_cfg_unlock; then the find
\* reference is put.  Between find and lock another connection may have
\* deleted the same object.
DelKeyDelete(t) ==
    LET o == cur[t]
        p == PutRef([st EXCEPT ![o] = IF @ = "live" THEN "detached" ELSE @],
                    Unregister(st, ref, o), o)
    IN
    /\ pc[t] = "del_key"
    /\ cfgLock = NoThread
    /\ st' = p.st
    /\ ref' = p.ref
    /\ refd' = [refd EXCEPT ![t] = @ \ {o}]
    /\ Finish(t)
    /\ UNCHANGED <<en, cfgLock, initd, lastEv, rq, crashed>>

\* The re list: ldmsd_cfg_lock, then ldmsd_cfgobj_first_re; no match
\* unlocks at once.
DelReFirst(t, r) ==
    LET o == NextMatch(r.re, 0) IN
    /\ r.op = "del_re"
    /\ Idle(t)
    /\ cfgLock = NoThread
    /\ rq' = [rq EXCEPT ![t] = r]
    /\ ref' = Get(ref, o)
    /\ IF o = NoObj
          THEN Finish(t) /\ UNCHANGED <<refd, cfgLock>>
          ELSE /\ cfgLock' = t
               /\ refd' = [refd EXCEPT ![t] = @ \cup {o}]
               /\ cur' = [cur EXCEPT ![t] = o]
               /\ pc' = [pc EXCEPT ![t] = "del_re_delete"]
               /\ UNCHANGED nreq
    /\ UNCHANGED <<st, en, initd, lastEv, crashed>>

\* obj->delete(obj) removes it from the tree, the result names obj, and
\* the find reference is put; obj stays the loop's cursor.
DelReDelete(t) ==
    LET o == cur[t]
        p == PutRef([st EXCEPT ![o] = "detached"], Unregister(st, ref, o), o)
    IN
    /\ pc[t] = "del_re_delete"
    /\ st' = p.st
    /\ ref' = p.ref
    /\ refd' = [refd EXCEPT ![t] = @ \ {o}]
    /\ pc' = [pc EXCEPT ![t] = "del_re_next"]
    /\ UNCHANGED <<en, cfgLock, initd, lastEv, rq, cur, nreq, crashed>>

\* obj = ldmsd_cfgobj_next_re(obj, regex) on the object just removed from
\* the tree, and freed if the put above was the last: the successor read
\* from its stale node is undefined, the right one or none.  The loop
\* ends with ldmsd_cfg_unlock.
DelReNext(t) ==
    LET o == cur[t] IN
    /\ pc[t] = "del_re_next"
    /\ \E n \in {NextMatch(rq[t].re, o), NoObj} :
          /\ ref' = Get(ref, n)
          /\ IF n = NoObj
                THEN /\ cfgLock' = NoThread
                     /\ Finish(t)
                     /\ UNCHANGED refd
                ELSE /\ refd' = [refd EXCEPT ![t] = @ \cup {n}]
                     /\ cur' = [cur EXCEPT ![t] = n]
                     /\ pc' = [pc EXCEPT ![t] = "del_re_delete"]
                     /\ UNCHANGED <<cfgLock, nreq>>
    /\ UNCHANGED <<st, en, initd, lastEv, rq, crashed>>

(***************************************************************************)
(* query and export                                                        *)
(***************************************************************************)

\* Taking a reference on every registered object, as the walk of
\* ldmsd_cfgobj_first / _next does; none of them is ever put.
RefAllLive == [o \in Objs |-> IF st[o] = "live" THEN ref[o] + 1 ELSE ref[o]]

\* ldmsd_cfgobj_query_handler without a key: under the registry lock the
\* walk reports every registered object with obj->query.
QueryAll(t, r) ==
    /\ r.op = "query_all"
    /\ Idle(t)
    /\ cfgLock = NoThread
    /\ ref' = RefAllLive
    /\ Finish(t)
    /\ UNCHANGED <<st, en, cfgLock, initd, lastEv, rq, refd, crashed>>

\* ldmsd_cfgobj_export_handler without a key: the same walk with
\* obj->export, under the registry lock.
ExportAll(t, r) ==
    /\ r.op = "export_all"
    /\ Idle(t)
    /\ cfgLock = NoThread
    /\ ref' = RefAllLive
    /\ Finish(t)
    /\ UNCHANGED <<st, en, cfgLock, initd, lastEv, rq, refd, crashed>>

\* ldmsd_cfgobj_query_handler, key list: under the registry lock, find and
\* obj->query, or ENOENT; the find reference is never put.
QueryKey(t, r) ==
    /\ r.op = "query_key"
    /\ Idle(t)
    /\ cfgLock = NoThread
    /\ ref' = IF st[r.obj] = "live" THEN [ref EXCEPT ![r.obj] = @ + 1] ELSE ref
    /\ Finish(t)
    /\ UNCHANGED <<st, en, cfgLock, initd, lastEv, rq, refd, crashed>>

\* ldmsd_cfgobj_export_handler, key list: the name is taken from the list
\* (json_value_str(key)) rather than from the item, so the lookup finds
\* nothing (or the json assertion fires), and the result is added under
\* obj->name with obj NULL: the daemon dies.
ExportKey(t, r) ==
    /\ r.op = "export_key"
    /\ Idle(t)
    /\ cfgLock = NoThread
    /\ crashed' = TRUE
    /\ UNCHANGED <<st, ref, en, cfgLock, initd, lastEv, pc, rq, cur, refd, nreq>>

\* The daemon finishes processing its start-up configuration: from now on
\* ldmsd_is_initialized() is true and updates post lifecycle events.
Initialize ==
    /\ ~initd
    /\ initd' = TRUE
    /\ UNCHANGED <<st, ref, en, cfgLock, lastEv, pc, rq, cur, refd, nreq, crashed>>

-----------------------------------------------------------------------------

\* Before any request: the start-up configuration has created some of the
\* objects, each with only the registry's reference.
Init ==
    /\ st \in [Objs -> {"absent", "live"}]
    /\ ref = [o \in Objs |-> IF st[o] = "live" THEN 1 ELSE 0]
    /\ en \in [Objs -> BOOLEAN]
    /\ cfgLock = NoThread
    /\ initd = FALSE
    /\ lastEv = [o \in Objs |-> "none"]
    /\ pc = [t \in Thr |-> "idle"]
    /\ rq = [t \in Thr |-> CHOOSE r \in Reqs : TRUE]
    /\ cur = [t \in Thr |-> NoObj]
    /\ refd = [t \in Thr |-> {}]
    /\ nreq = [t \in Thr |-> 0]
    /\ crashed = FALSE

\* The steps of connection t's receive thread.
Step(t) ==
    \/ \E r \in Reqs :
          \/ Create(t, r) \/ UpdKeyFind(t, r) \/ UpdReFirst(t, r)
          \/ DelKeyFind(t, r) \/ DelReFirst(t, r)
          \/ QueryAll(t, r) \/ QueryKey(t, r)
          \/ ExportAll(t, r) \/ ExportKey(t, r)
    \/ UpdKeyApply(t) \/ UpdKeyPost(t) \/ UpdReApply(t) \/ UpdReNext(t)
    \/ DelKeyDelete(t) \/ DelReDelete(t) \/ DelReNext(t)

\* Every connection has sent its requests and been answered, or the
\* daemon is gone.
Terminated ==
    /\ crashed \/ \A t \in Thr : pc[t] = "idle" /\ nreq[t] = MaxReqs
    /\ UNCHANGED vars

Next ==
    \/ ~crashed /\ \E t \in Thr : Step(t)
    \/ ~crashed /\ Initialize
    \/ Terminated

\* Each connection's thread keeps running while it has work.
Spec == Init /\ [][Next]_vars /\ \A t \in Thr : WF_vars(Step(t))

-----------------------------------------------------------------------------
(* Properties *)

TypeOK ==
    /\ st \in [Objs -> {"absent", "live", "detached", "freed"}]
    /\ ref \in [Objs -> Nat]
    /\ en \in [Objs -> BOOLEAN]
    /\ cfgLock \in Thr \cup {NoThread}
    /\ lastEv \in [Objs -> {"none", "enabled", "disabled"}]
    /\ cur \in [Thr -> Objs \cup {NoObj}]
    /\ refd \in [Thr -> SUBSET Objs]
    /\ nreq \in [Thr -> 0..MaxReqs]

\* Who may use an object: the registry while it is registered, and every
\* handler that holds a reference from find, first_re or next_re.
Holders(o) ==
    (IF st[o] = "live" THEN 1 ELSE 0) + Cardinality({t \in Thr : o \in refd[t]})

\* No object is freed, or its count driven below its users, while the
\* registry or a handler still holds it: the deletes of the key and the
\* regular-expression paths, racing each other between find and
\* ldmsd_cfg_lock, put each reference once.  (Puts that never happen,
\* the update, query and export leaks, keep the count above.)
RefCoversHolders ==
    \A o \in Objs :
        /\ st[o] \in {"live", "detached"} => ref[o] >= Holders(o) /\ ref[o] > 0
        /\ st[o] = "freed" => ref[o] = 0 /\ \A t \in Thr : o \notin refd[t]

\* Once no update of o is between its unlock and its ev_post, the last
\* lifecycle event posted for o says what o's enabled flag is: the
\* handler that observes enabled/disabled events starts or stops the
\* object according to its configuration.
EventsFollowState ==
    \A o \in Objs :
        (/\ lastEv[o] /= "none"
         /\ \A t \in Thr : ~(pc[t] = "upd_key_post" /\ cur[t] = o))
        => lastEv[o] = IF en[o] THEN "enabled" ELSE "disabled"
=============================================================================
