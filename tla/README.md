# TLA+ models of the ldmsd control protocol

This directory holds TLA+ models of `ldmsd`, the LDMS daemon. They cover:
- the record protocol, request reassembly, dispatch and forwarding between daemons;
- the config-object handlers;
- the stream bus;
- the meminfo sampler plugin.

Each module is translated from the C source under `src/`. `PROJECT.json` maps every modelled definition to the source lines it stands for. It also lists the TLC runs, the mutants that show each checked property can fail, the findings and the hazards.

## 1. The system

| Part | Source | What it does |
|---|---|---|
| Record codec | `ldmsd_request_util.c` (`ldmsd_append_msg_buffer`, `ldmsd_req_buf_*`) and its callers in `ldmsd_request.c` | Cuts a message into records of at most `max_msg` bytes. Each record header carries the type, the SOM/EOM flags, the key `<conn_id, msg_no>` and `rec_len`. The writer's buffer keeps `off` and `num_rec` across calls. |
| Message reassembler | `ldmsd_handle_record`, `find_req_ctxt`, `__req_ctxt_alloc`, `__req_ctxt_del` | Collects records into reference-counted request contexts. The contexts are indexed by key in `req_msg_tree` (inbound requests) and `rsp_msg_tree` (responses to the daemon's own requests). |
| Dispatch | `ldmsd_process_msg_request`, `__process_msg_requests`, `ldmsd_process_msg_response` | Parses a completed message and runs its handler. It sends the reply, or nothing when the handler returns `EINPROGRESS`. For a response, it runs the registered continuation. |
| Forwarding | `__test_protocol_forward*`, `set_route_request`, their response handlers, `ldmsd_request_send` | Takes a reference on the original context, registers a response-side context that carries the continuation, and sends a nested request to the producer. The continuation answers the original request. |
| Config-object handlers | `ldmsd_cfgobj_{create,update,delete,query,export}_handler` | Operate on objects named by key or selected by regex, under the registry lock (`ldmsd_cfg_lock`) and per-object locks. The registry library, `ldmsd_cfgobj.c`, is not in the repository. |
| Stream bus | `ldmsd_stream.c`, `stream_subscribe_handler`, `ldmsd_process_msg_stream` | Streams by name in `s_tree` under `s_tree_lock`. Each client list is guarded by its stream's `s_lock`, which is held across the delivery callbacks. |
| meminfo sampler | `sampler/meminfo.c` | `config` builds a metric set from `/proc/meminfo`, `sample` fills it in a transaction, and `term` destroys it. The plugin's state is in globals. |
| Other samplers, baler, headers | `lustre_oss.c`, `nvidia_metrics.c`, `hello_sampler.c`, `butils.c`, `*.h` | I/O and parsing plugins, string and file helpers, declarations. |

How the parts interact:
- Each connection has a receive thread. It calls `ldmsd_handle_record` for each record and dispatches a completed message. The caller then puts the context's `create` reference; that caller is in `ldmsd.c`, outside `src/`.
- Receive threads of different connections share:
  - the context indices;
  - the `msg_no` counter;
  - the config-object registry;
  - the stream bus.
- A forwarded request spans two threads. The client's thread runs the handler. The producer connection's thread later runs the continuation.
- Every reply and error goes through the record codec.
- The stream-subscribe handler registers `stream_republish_cb` on the stream bus.

## 2. Modules

### `ReqCtxt`: reassembler, dispatch, forwarding
The model is one daemon with two kinds of peer: client connections (`Conns`) and one producer connection (`Prdcr`).

State:
- `ctx`: one slot per `struct ldmsd_req_ctxt`. It holds the type, key, `ref`, the live flag, the received record positions and the continuation target.
- `wpc`, `wctx`: each receive thread's position and the context it holds.
- `sent`, `rspSent`: the flags each peer has sent.
- `replies`: the replies sent per key, in order. A reply is a record of the test_protocol arguments it answers (`args`, `<<num_hops, hop_id>>`), the hop positions it lists (`hops`) and whether its status is 0 (`ok`); every other reply is `Plain`.
- `msgNo`: the static counter.
- `outOk`: the outbound requests that reached the producer.

The two rbtrees are derived from the live contexts (`Lookup`), because they are changed in the same critical sections as allocation and deletion.

Actions, one per branch of the code:
- `RecvDuplicate`, `RecvStart`, `RecvUnknown`, `RecvAppend`: inbound request records.
- `RecvRspUnknown`, `RecvRsp`: response records.
- `DispatchReply`: a handler that returns a reply document, which is sent at once.
- `DispatchNoReply`: a handler that returns NULL with an errno other than EINPROGRESS (allocation failure, a failing `ldmsd_stream_subscribe`). `ldmsd_process_msg_request` returns the errno to its caller and sends nothing (R:850-862); the context's `failed` field records it.
- `DispatchTestLocal`: test_protocol answering itself when `num_hops` is 0 or no producer exists (ENOENT from `__test_protocol_forward`), with its own hop.
- `DispatchForward`: a forwarding handler whose send succeeds; test_protocol's nested request carries `Outbound(a)` = `<<num_hops - 1, hop_id + 1>>`.
- `ForwardSendFailed`: a forwarding handler whose send fails, for each of the two forwarding handlers.
- `ResponseParseFailed`: a nested response that does not parse.
- `RunContinuation` with `AnswerOriginal`: the continuation answers the original request. For test_protocol it merges the nested reply's hops into its own and takes the nested status (`MergeHops`).
- `Release`: the caller's put of `create`. This is modelled from the spec, because the caller is in `ldmsd.c`.

Data abstraction:
- A record is its flags.
- A parsed request is one of `ReqKinds`; a parsed response is one of `RspKinds`.
- `FaultyPeers` lets peers send arbitrary flags.
- `FailKinds` names the handlers whose nested send may fail.
- `HopArgs` is the set of test_protocol arguments a client may send (a missing `num_hops` is 127, `INT8_MAX`); `Avail` is the number of producers in the chain below this daemon.
- The producer below is an assume-guarantee environment: its answer to a forward `a` is any member of `ChainAnswers(a, Avail - 1)`, the replies a correct chain of that length gives (all hops, status 0; or a prefix of hops ending in a failure). `HopsFollowChain` checks that this daemon then answers within `ChainAnswers(a, Avail)`, which is the induction step over the chain length for spec.md's "min(N+1, available+1) hop entries".

`MC_ReqCtxt` computes the slot and `msg_no` bounds from the peers' record budget, so that they never cut a behaviour short.

### `ReqLifecycle`: what a request is promised
An abstract specification of one request's life, written from spec.md 4.3 and 7, not from the code. Per correlation key, `phase` moves from `idle` to `local` (the whole message arrived), optionally to `nested` (a forwarding handler returned "in progress"), and to `complete`; `answered` counts replies. From `local` it may instead go to `dropped`: spec.md 4.2 step 4 says a handler that fails without the "in progress" marker gets no forced reply. `Answer` is the only step that sends a reply. `Answer \/ Drop` is weakly fair: a request that arrived is eventually answered or dropped, and a dropped one is never answered.

`ReqCtxt` implements it. The refinement mapping (`Lifecycle == INSTANCE ReqLifecycle WITH ...` in `ReqCtxt.tla`):
- `answered` is `replies`;
- a key is `nested` while a live response-side context's continuation names its context (`Nested`);
- otherwise `complete` once a reply was sent, `dropped` once its handler failed without replying (`Failed`), `local` once its last record arrived, and `idle` before.

`LifecycleRefined == Lifecycle!Spec` is checked as a PROPERTY. Every `ReqCtxt` step must be a lifecycle step or leave the mapped state alone, and the lifecycle's fairness must hold. So a reply before the whole request, a reply while a forward is pending, a second reply, a reply after the handler failed, a continuation that drops its answer, or a request whose handler succeeded left unanswered each break it.

### `StreamBus`: what the stream bus promises
An abstract specification of spec.md 4.4 with every call atomic:
- `Subscribe` puts a client at the head of the name's list, or answers AlreadySubscribed;
- `Publish` logs the current list of the name as the clients it calls;
- `Unsubscribe` removes the caller's own subscription (`held` is the handles callers were given).

`Stream` implements it (`Bus == INSTANCE StreamBus WITH ...` in `Stream.tla`):
- `subs` is each name's client list;
- `log` is the delivery history without its `expect` field;
- `answers` is the subscribe replies;
- `held` is taken from `mine`.

`BusRefined == Bus!Spec` says the lock hand-overs of `__find_stream`, the unlocked set-up of a new stream and the callbacks under `s_lock` linearize to the atomic bus. The mapping takes the first stream object of each name, so it is checked where each name has one creator; `stream_race` shows what happens when a name has two.

### `MsgChunk`: record writer
- `Chunk` is a RECURSIVE operator that follows the do/while loop of `ldmsd_append_msg_buffer`.
- `AppendMsgBuffer` is one call of that function, on a fresh buffer or on a reused one.
- The callers are separate actions. Each passes SOM|EOM and uses the buffer the code gives it:
  - `ErrorSend`: its own buffer, or the context's `send_buf`.
  - `SendErrRecAdv`: a fresh buffer.
  - `AppendResponse`: the context's `send_buf`.
  - `AppendRequest`: a new context's buffer.
- `SendMayFail` lets `send_fn` fail part-way.
- Sizes are abstract bytes: `Hdr` is the header and `MaxMsg` is `max_msg`.

### `CfgObj`: config-object handlers
Each thread `Thr` is a connection's receive thread running one handler per request from `Reqs`. A request is a record: its operation, its key object, the objects its regex matches, and its `enabled` value.

State:
- `st`, `ref`, `en`: each object's registry state (absent, live, detached, freed), reference count and enabled flag.
- `cfgLock`: the registry lock.
- `initd`: `ldmsd_is_initialized()`.
- `lastEv`: the last lifecycle event posted for each object.
- `pc`, `cur`, `refd`: each thread's position, current object, and the objects whose reference it holds.

Each handler is cut where it takes or drops a lock or a reference:
- update by key: `UpdKeyFind`, `UpdKeyApply`, `UpdKeyPost`;
- update by regex: `UpdReFirst`, `UpdReApply`, `UpdReNext`;
- delete by key: `DelKeyFind`, `DelKeyDelete`;
- delete by regex: `DelReFirst`, `DelReDelete`, `DelReNext`;
- `Create`, `QueryKey`, `QueryAll`, `ExportAll`, `ExportKey`.

The registry library is not in the repository. Its operations are modelled from the spec and marked `spec_modelled` in the map:
- `Get`: find, first_re and next_re return a counted reference.
- `Unregister`: delete detaches the object and puts the registry's reference.
- `PutRef`: put frees the object at zero.
- `NextMatch`: the next matching object.
- `Initialize`: the daemon finishes start-up.

Where `next_re` starts from a detached or freed node, its result is a nondeterministic choice.

### `HandlerTable`: request-name lookup
`__process_msg_requests` finds a request's handler by calling `bsearch` over `request_handler_tbl`, with `request_handler_entry_cmp` (`strcmp`) as the comparison.
- The names are sequences of characters, and `Strcmp` compares their byte values, the terminating NUL included. The property is about name order, so this detail is kept.
- `BSearch` is glibc's halving loop, written as a recursive operator.
- `LookupExact` compares it with exact-match lookup for every table name and for names that sort before, between and after the entries, or are a prefix of one.
- `ReqCtxt` extends the module. Its `HandlerLookupExact` states the comparison for every dispatch, and `reqctxt_good` checks it. The table part is constant, so TLC evaluates it once.
- Each table entry's permission `flag` (`XUG` or `XALL`, "for request permission") is never read: neither `__process_msg_requests` nor any handler calls `ovis_access_check`. Only `ldmsd_process_msg_notify` does. So any credential may create, update or delete config objects. spec.md 4.2 names a PermissionError but does not say where the check belongs, so this is noted here and not stated as a property.

### `Stream`: stream bus
- Threads are subscriber connections (`Subs`) and delivering connections (`Pubs`).
- A stream object is `<<name, i>>`, the i-th object created for that name.
- State:
  - `clients`, `sLock`, `treeLock`: the lists and the locks.
  - `mine`: the subscriptions each thread was told it has.
  - `pubs`: a history of deliveries, each with the clients expected and the clients called.
- `ldmsd_stream_subscribe` is split at its lock boundaries:
  - `FindFound` / `SubFindLock`, or `SubNotFound`;
  - then `SubCreate`, `SubLockNew` and `SubScan`.
- Other actions:
  - `PubDeliver` and `PubNotFound`: `ldmsd_stream_deliver`.
  - `PubParseFailed`: the parse failure in `ldmsd_process_msg_stream`.
  - `Close`: `ldmsd_stream_close`.
  - `CountFound` / `CountClients`, or `CountNotFound`: `ldmsd_stream_subscriber_count`. It shares `__find_stream`'s tree step (`LookedUp`) with subscribe and deliver. It holds `s_tree_lock` while it waits for `s_lock`. No caller in the repository uses the count, so only the locking is kept.
  - `DumpLockTree`, `DumpStream`, `DumpDone`: `ldmsd_stream_client_dump`.

### `Meminfo`: meminfo sampler
- ldmsd calls `Config(v)`, `Sample` and `Term` one at a time, in any order, up to `MaxCalls`.
- `CreateMetricSet` translates `create_metric_set`. `Outcomes` gives the point where it stops:
  - `fopen` fails;
  - `ldms_create_set` refuses (`EEXIST` for a live name, or no memory);
  - `calloc` fails;
  - `ldms_add_metric` fails;
  - or it completes.
- `AllocMayFail` enables the resource failures.
- `objs` keeps every set the plugin created. `set`, `mf` and `table` are the globals. `handed` records the states of the sets that were passed to ldms.

## 3. Runs

| Run | Expect | Checks | What it shows |
|---|---|---|---|
| reqctxt_good | pass | RefCountMatchesHolders, HandlerLookupExact, LifecycleRefined, CompletedContextFreed, HopsFollowChain | Good peers, local replies, handlers that fail without replying, both forwarding handlers, and test_protocol's nested send failing. Reference counts equal the holders, every completed context is freed, and the engine implements `ReqLifecycle`: at most one reply per request, only after the whole request, from the continuation when forwarded, none after the handler failed, and eventually unless it failed. Every test_protocol reply lists exactly the hops and status spec.md promises, given producers below that do. The handler table resolves every request name by exact match. |
| reqctxt_faulty | pass | TypeOK, RefCountMatchesHolders, DispatchedIsWholeMessage | Arbitrary SOM/EOM sequences from peers (local replies only) never get a partial or spliced message dispatched. |
| reqctxt_error_paths | pass | RefCountCoversHolders | Every handler outcome (a reply, NULL without EINPROGRESS, both forwarding handlers with failing sends) and unparsable nested responses together: no context is freed or counted below its holders, so nothing uses a freed context. Leaks are allowed here; the exact count is checked in `reqctxt_good`. |
| reqctxt_dup_uaf | violation | RefCountMatchesHolders | A duplicate SOM while a forward is pending puts a reference it does not hold (a use after free). |
| reqctxt_bad_rsp | violation | EveryRequestAnswered | After an unparsable nested response, the client is never answered. |
| stream_ok | pass | BusRefined | With concurrent subscribe, close, resubscribe, delivery, subscriber count and client dump, the bus implements `StreamBus`: each delivery calls exactly the current subscriptions, head first and once each, and never a closed one. Deadlock checking is on. |
| stream_race | violation | PublishReachesSubscribers | Two first subscribers to one name create two streams, and a publish reaches only one of them. |
| cfgobj_ok | pass | TypeOK, RefCoversHolders | Every handler path runs on two connections at once. No object is freed, or counted below its users, while the registry or a handler holds it. |
| cfgobj_event_order | violation | EventsFollowState | Two updates by name post their lifecycle events after unlocking, so the last event can contradict the flag. |
| meminfo_dangling | violation | SetHandedLive | When config fails after `ldms_create_set`, `set` points at the released set, and `sample` uses it. |
| chunk_ok | pass | TypeOK, PayloadConserved, EOMOnlyOnLast | Every byte is sent once in records that fit `max_msg`, and EOM appears only on the last record, across buffer reuse and send failure. |
| chunk_som | violation | SOMOnlyOnFirst | The middle records of a message of three or more records carry SOM. |

Every property of a passing run has a mutant in `PROJECT.json`. A mutant is a plausible bug in the mapped code, and TLC shows that it breaks the property.

Properties that are stated in a module but checked by no run:
- `Stream!SubscribeAnswered`: a repeated subscribe is never answered.
- `Stream!DeliveredAtMostOnce`: implied by `BusRefined`, which replaced it in `stream_ok`.
- `Meminfo!TypeOK`, `ReqLifecycle!TypeOK`.

`ReqCtxt!EveryRequestAnswered` (spec.md 7: every request eventually answered) is the one property of the `reqctxt_bad_rsp` violation run, whose handlers never fail. `reqctxt_error_paths` checks `RefCountCoversHolders` rather than the exact count, because an unparsable response leaks the client's context (the `reqctxt_bad_rsp` finding).

The handler failures `LifecycleRefined` accepts as `dropped` are those spec.md 4.2 step 4 allows. Two of the code's NULL returns are not allocation failures: a repeated `stream_subscribe` (EEXIST, R:1554) and `update`'s regcomp failure, which frees the EINVAL reply it built and sets errno to 0 (R:1218). The spec promises these a reply. Both are hazards without a run.

There is room for 12 runs. The hazards in `PROJECT.json` say which questions were not given one. One of them is the `set_route_request` reference leak: it was a run, and is now a hazard.

### Bounds
- **ReqCtxt**:
  - Two clients with one `msg_no` each, and up to two records per message. This gives one- and two-record messages, duplicates of each key, and two forwards in flight at once.
  - A second `msg_no` per client pushes the good run past the time budget.
  - `reqctxt_good` draws test_protocol arguments from `<<0,0>>`, `<<1,0>>` and `<<127,0>>` with `Avail = 2`. This covers a local answer, a forward limited by `num_hops`, a forward limited by the chain, and a forward whose producer answers with a failure. The other ReqCtxt runs use `<<1,0>>` and `Avail = 1`.
- **MsgChunk**: `Hdr = 2`, `MaxMsg = 4`, payloads of up to 5 bytes, and three calls. This gives one-, two- and three-record messages, an exact fill, buffer reuse, and a failure at each send.
- **CfgObj**:
  - Two threads, two objects, and two requests per thread, drawn from every operation.
  - The regex requests match both objects, so a regex loop meets a concurrent delete of its current or its next object.
- **Stream**:
  - Two subscribers, one delivering thread that also dumps and counts, two names, and three calls per thread. This lets a client subscribe, close and subscribe again while deliveries run.
  - `stream_ok` gives each name a single creator. The race run lets both subscribers create the same name.
- **Meminfo**: three calls. The violation needs two: a failing config, then a sample.

### Fairness
- **ReqCtxt.** Weak fairness holds for each connection's dispatch and release, and for response dispatch. These are daemon threads, and once a message is complete they wait only for the CPU.
- **ReqCtxt's producer.** Weak fairness is assumed for the producer sending the response to each request it received. This is an environment assumption, and the liveness properties are relative to it.
- **ReqCtxt's clients** have no fairness.
- **Stream.** Weak fairness holds for each thread's steps. pthread mutexes promise nothing stronger.
- **ReqLifecycle.** `Answer` is weakly fair: the spec promises every request a reply. `ReqCtxt`'s fairness above is what makes the implementation keep that promise; the producer assumption is needed for forwarded requests.
- **StreamBus** states safety only.
- **CfgObj, MsgChunk, Meminfo** check safety only.
- No run uses symmetry: the ReqCtxt runs check liveness, and the thread names in the Stream runs play different roles.

## 4. Findings

The details are under "findings" in `PROJECT.json`.
1. The duplicate-SOM path puts a reference it does not hold (`ldmsd_request.c:766`).
2. An unparsable nested response leaves the client unanswered and its context leaked (`:885`).
3. Two first subscribers to a stream each insert a stream object. Deliveries then miss one of them (`ldmsd_stream.c:134`).
4. Update-by-key posts its lifecycle events after unlocking (`ldmsd_request.c:1142`).
5. meminfo's `create_metric_set` releases the set on its error path and leaves the global handle set (`meminfo.c:176`).
6. The record writer keeps SOM on middle records (`ldmsd_request_util.c:116`).

## 5. Not modelled
- **Transport:** connection setup, teardown, and `ldmsd_stream_publish` to a remote with its event callbacks. These belong to the ldms library, and `ldmsd_msg_buf_send` is not in the repository.
- **Allocation failures in the daemon:** these are left out except in `Meminfo`, where they are the behaviour of interest.
- **JSON content, reply documents, logging:** abstracted to parses / does not parse and to reply records. Only test_protocol's hop positions and status are kept.
- **`ldmsd_request_send`'s own error paths:** on a failed `ldmsd_append_request` the function frees `jb` twice (R:384 and R:392), and on a failed `ldmsd_cfg_xprt_ldms_new` it puts an uninitialized `reqc` (R:393). `jbuf_free` and the transport wrapper are not in the repository, so the outcome cannot be fixed from the source. `ForwardSendFailed` models the send-failure path as the code intends it. Both are listed as hazards.
- **Hop arithmetic beyond one daemon:** test_protocol's hop accounting is modelled in `ReqCtxt` with the chain below as an environment (`HopsFollowChain`); set_route's hop positions, negative `num_hops` and the producer registry are not. Their hazards need several composed daemons: a producer reference taken per forward and never put (R:1885), forwarding that never stops for a negative `num_hops` (R:1947), and a merge failure that drops the answer (R:1863). They are listed as hazards without a property.
- **Buffer contents:** the duplicate-SOM error and a running handler both write `reqc->send_buf` (R:715). The model counts replies, so this race is a hazard without a property.
- **`ldmsd_stream_publish` and `publish_file`:** a publish that fails part-way (S:282), and the global `conn_sem`/`conn_status` left to a late event after a timeout (S:418). These are listed as hazards; modelling them needs the transport events.
- **More runs:** each run answers its own question. `reqctxt_faulty` and `reqctxt_error_paths` cannot be one run: with faulty peers and forwarding together, a stray EOM after a dispatched one re-dispatches the request (listed as a hazard at R:739). So `reqctxt_good` and `stream_ok` were deepened with refinement properties rather than split.
- **`msg_comparator`'s truncated differences, the wrap of the 32-bit `msg_no` counter, and two composed daemons:** these are listed as hazards.
- **lustre_oss, nvidia_metrics, hello_sampler, baler utilities, headers:** I/O and parsing. `hello_sampler`'s subscription that outlives `term` is listed as a hazard.
