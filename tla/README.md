# Prefill/decode disaggregation on TPU: a TLA+ model

The repository adds *selective KV pull* to vLLM's TPU connector and measures
it. A prefill worker **P** computes a prompt's KV cache, a router carries a
ticket (`kv_transfer_params`) to a decode worker **D**, D pulls the blocks it
lacks over a JAX transfer connection and then tells P that the blocks may be
freed. The model covers that protocol, the two older ways of offering KV, the
block arithmetic on both sides, the step of the model runner, the worker
processes of a host and their pipeline, the router, and the load test that
measures it all.
Paths below are relative to the repository; `connector` stands for
`implementation/tpu-inference/tpu_inference/distributed/tpu_connector.py` and
`runner` for `implementation/tpu-inference/tpu_inference/runner/tpu_runner.py`.

## Inventory

| Component | State | Operations | What makes it correct |
|---|---|---|---|
| Connector scheduler (both roles) | `reqs_to_send`, `reqs_to_load`, `do_remote_prefill` in the params | `request_finished`, `get_num_new_matched_tokens`, `update_state_after_alloc`, `build_connector_meta` | blocks held exactly while a lease runs; one transfer per request; P's and D's block lists agree |
| Connector worker, selective producer | `reqs_wait_pull`, `reqs_pending_pull`, `kv_pull_uuid_to_req_id_map`, `selective_pulls_preparing/ready/errors`, `pending_responses` | `_prepare_kv_and_wait`, `get_finished`, the listener thread, up to 8 prepare jobs | D never sees reused blocks; one gather per request; every plan answered; every lease ends once |
| Connector worker, direct and D2H producer | `reqs_wait_pull`, `HostKVPool`, `kv_d2h_executor` | `_prepare_kv_and_wait`, `_async_d2h_and_transfer` | a host buffer has one owner and always comes back; every lease ends once |
| Connector worker, consumer | `reqs_pulling`, `failed_load_block_ids`, sockets | `process_send_load`, `_pull_kv`, `_request_selective_pull_plan`, `get_finished` | no decode without KV; notification after the pull; a request always resolves |
| Block planning and insert | none (functions) | `get_transfer_block_bucket`, the suffix computations, `insert_kv_chunks` | every block in its place, nobody else's touched |
| Model runner | `input_batch`, `requests`, `_pre_async_results`, `execute_model_state`, `kv_caches`, `kv_cache_lock` | `_execute_model`, `sample_tokens`, `_modify_prev_results`, `_execute_continue_decode` | every step is fed the right tokens; tokens go to their own request; forwards and gathers serialised |
| TPU worker | `step_counter`, `TPU_VISIBLE_CHIPS` and its bounds | `init_device`, `execute_model` | chips are not shared; a pipeline stage gets the tensors of its own step |
| Router (`src/pd_disagg/router.py`) | pair iterator, record file, two HTTP clients | `completions`, `relay` | a failed remote decode retried once, locally; records agree with answers; no leaked connection |
| Load generator (`src/pd_disagg/loadgen.py`), aggregation | semaphore, records | `run`, `execute_request`, `aggregate` | a run ends; its records agree with the router's; what is validated is complete |
| Correctness comparison, benchmarks, scripts, patches | record files | offline | - |

How they interact: P's and D's scheduler halves talk to their worker halves
through one metadata object per engine step. P's worker tables are shared by
three kinds of thread (engine, listener, prepare jobs) under
`_producer_state_lock`, which is *released between the sections of a job*. P
and D exchange plans, replies and notifications over ZeroMQ; D uses a fresh
socket per plan and a persistent one for notifications, so the two are not
ordered. The KV bytes travel over JAX's transfer server, keyed by the same uuid.
The router is one asyncio task per request, and so is the load generator, which
sees of the router only HTTP. The stages of a pipeline share nothing but the
engine's steps and tensors that are paired by a computed uuid.

What is hard: a lease may expire between any two lock sections of a prepare
job, after which its block ids belong to somebody else; plans are repeated
until they are answered "ready"; a notification, an error and the deadline race
to end one lease; messages overtake the engine step that registers the request;
D's pulls fail or time out and the request comes back to the scheduler. In the
runner, a step is prepared before the tokens of the step before it are on the
host (with speculative decoding not even their number is known), while requests
leave, move and come back in the batch. The load generator and the router each
judge a request from their own end of two HTTP connections.
`PROJECT.json` lists each hazard with its line and the properties that watch it.

## Modules

| Module | Models |
|---|---|
| `SideChannel` | what travels between P and D: params, plans, notifications, replies, each a *set* (delivered in any order, a plan may be repeated) |
| `KVProducer` | P: scheduler half, engine step, listener, prepare jobs, clock, with an open environment that may send any plan or notification at any time |
| `TransferLease` | the abstract promise of P: a lease `none -> held -> closing -> released`, copies only taken while it lasts, only copies served, a copy given up if it was not |
| `KVConsumer` | D: scheduler half with vLLM's states, engine step, pull threads, deadlines, failure policy, aborts |
| `PDTransfer` | P and D composed; D replaces the open environment |
| `DirectProducer` | P without selective pull: the engine's direct registration, or the D2H jobs and their pool of host buffers; a second implementation of `TransferLease` |
| `DirectTransfer` | `DirectProducer` and D composed: pulls without a plan |
| `BatchLayout` | operators: how a batch is laid out over data-parallel ranks, and what the device reads from and writes to the padded arrays |
| `RunnerStep` | the runner's step: synchronous, asynchronous, asynchronous with speculative decoding, or in bursts (`continue_decode`), beside a nondeterministic vLLM scheduler |
| `BlockTransfer` | the block lists, checks, bucket, padding and chunked insert of one request |
| `TPUWorker` | the chips of a host's worker processes, and the steps of a pipeline |
| `Router` | the tasks of `completions()` at their awaits |
| `LoadGenerator` | the tasks of `run()` and `execute_request()` and the validation of `aggregate()`, on top of `Router` |
| `PDTransferProofs`, `DirectTransferProofs` | theorems about P in any environment (the first), and about the two compositions, resting on those of P and D |
| `LoadGeneratorProofs` | theorems about the router, with any clients, and about a load test |
| `BatchLayoutProofs` | lemmas about numbers, sums over finite sets and the layout of a batch, used by the next two |
| `RunnerStepProofs`, `TPUWorkerProofs` | theorems about the module each is named after |
| `BlockTransferProofs`, `DirectProducerProofs` | the same |
| `MC*` | instances for TLC (`MCKVProducer` adds a bound on messages in flight, which the proofs do not have) |

### From code to model

`KVProducer`. An action is one lock section of the code together with the code
that runs up to the next one. `engine` is the engine's place in its step:
`build_connector_meta` (schedule), `process_send_load` and the forward (load),
`get_finished` (finish), vLLM's bookkeeping and `request_finished` (update).
`listener` is the listener's place in its loop: after `_get_selective_plan_status`
it may be about to claim, and after any message it drains the finished futures.
`prep[r]` is the stage of the job that `selective_prepare_executor` runs for
`r`; its gather, its `await_pull` and each of its lock sections may raise
(`"fail"`). `reqs_wait_pull[r]` keeps only whether `expires` is the deadline
(`"timed"`) or -1 (`"finished"`); time itself is the set `overdue` (lease
deadlines that have passed) and the tombstone states `"live"` and `"lapsed"`.
What a gather reads is `"original"` or, once the forward has reused the freed
blocks (`overwritten`), `"stale"`. A request and its 50-bit uuid are one value:
uuid collisions are not modelled. A plan is only its kind: a suffix of P's
blocks, not a suffix, empty, or malformed.

`KVConsumer`. `dsched` is the request's state in vLLM's scheduler: waiting,
loading (`WAITING_FOR_REMOTE_KVS`), loaded, running, failed, aborted.
`reqs_to_load` and `dmeta` say whether an entry has remote blocks
(`"pull"`) or none (`"notify"`, a full prefix hit or the step after a pull).
`pull[r]` is its pull thread. `cache[r]` says what D's blocks hold; KV that D
computes or had cached is `"local"`. What vLLM does with the reports
(`TakeReports`) is external: under `fail`, which is what the scripts deploy, a
request whose blocks are in `failed_load_block_ids` ends with an error; under
`recompute` it is scheduled again. The repository itself disputes that this comes
out right: "Reusing vLLM's same request for recompute can retain stale TPU runner
state, so fail is the correctness-preserving default"
(`scripts/remote/serve_pd_worker.sh:32-34`). `ScheduleLoaded` therefore leaves
open what a recomputation makes of the cache, `"local"` or `"retained"`
(`Recomputed`), and nothing here claims that a recomputed request decodes with the
right KV; what state the runner may retain is not modelled. D is
given `TPU_ENABLE_BLOCK_KV_TRANSFER`'s blocking wait, so a pull either returns
with its KV or raises; the other setting hands over arrays that may never become
ready and is not modelled. A preempted load whose blocks change is not modelled
either.

`DirectProducer` keeps the engine, the clock and the listener of `KVProducer`
and replaces the prepare jobs: `stage[r]` is where the request's transfer is,
`taken[r]` the host buffer its job has taken, `buffer_index[r]` the buffer its
`reqs_wait_pull` entry names. The listener's handling of a notification and the
engine's sweep are one lock section each. `HostKVPool` and `copy_to_host` are
external: `get_buffer` waits for a buffer. `d2h` says which of the two ways a
behaviour takes. `DirectTransfer` replaces its environment by D: the side
channel then carries the params and notifications only, `StartPull` goes
straight from the submission of `_pull_kv` to the pull, and what can be pulled is
what P has offered.

`BatchLayout` and `RunnerStep`: a token is the pair of a request and a position,
so "the right token" can be said without a model; `NextTokens` is the device,
which continues a request only if it was fed that request's own tokens at the
positions that are new in the step. `row`, `num` and `output` are
`token_ids_cpu`, `num_tokens_no_spec` and `output_token_ids`; a placeholder is
`Zero`. `state` and `pre` are `execute_model_state` and `_pre_async_results`
with what is read of them. vLLM's scheduler and `update_states` are external:
`Schedule` picks any requests, skips or preempts the others, and runs one step
ahead of the outputs when asynchronous; a request that enters the batch gets a
row of what the scheduler has received. `config` is the deployment: mode, budget,
length limit and number of drafts. With drafts a request is fed its last token
and its drafts; `Rejected` takes back the ones that the model did not confirm,
on the device in the next step, in the host's rows when the output is known, and
in vLLM's count when it is delivered (`Deliver`, external). The `placeholders` of `pre` are the
map that `_update_placeholder` leaves for the next step. Not in the model:
speculative decoding in a synchronous runner, pooling, multimodal inputs,
logprobs, LoRA, grammars, and a request that is preempted and resumed by the same
schedule.

`BlockTransfer` follows one prompt through `request_finished` (P),
`get_num_new_matched_tokens` and `update_state_after_alloc` (D), the suffix
check and the padded gather (P), and `insert_kv_chunks` (D), in selective and
direct mode. Blocks are their index in the prompt, so that "the right block in
the right place" can be said. vLLM gives the connector the ids of all the
request's blocks; for a selective pull the code also accepts those of the new
blocks alone (`connector:394-397`), and `AllocatedIds` has both. `Pads` are the
entries that fill the offset arrays up to the slab's length, with the offsets 0
and the size 0 that the code gives them. The copy kernel `multi_layer_copy` is
external: that it copies nothing for a size of 0 is assumed.

`Router`. A task's `pc` is the await it is at. Connections of the decode
client are counted against `max_connections`; a client that leaves in mid-stream
is `RelayEnds(q, "started")`, since the generator is closed with the status it
had. A payload that is refused ends with 400, or with 500 when it is JSON but no
object, which `completions()` does not expect (`Refusals`). It is assumed that
Starlette starts the generator it was given.

`TPUWorker` has two halves. `deploy` is how the processes were started:
co-located engines as `serve_pd_ici.sh` starts them, data-parallel ranks, a
pipeline on one host, or one over several hosts with Ray; each with chips that
were assigned to its engine, with a `TPU_VISIBLE_CHIPS` or bounds that it finds
set, with both or with none. `InitDevice` sets `TPU_VISIBLE_CHIPS` and its bounds
as `init_device()` does for that deployment. `Sensible` is what the code leaves to
whoever starts the processes: chips that are given are enough for a process and
given to one engine only, co-located engines are all given some, and a pipeline
fits on its host. A pipeline that was given chips gets them restored
(`tpu_worker.py:232-246`) or keeps them (305-312) *for every stage alike*, so its
stages see the same chips, each with the bounds of one stage; `ChipsAreOwn` says
that these are the only processes that share chips. Only one pipeline, and one
group of data-parallel ranks, is on a host.
For a pipeline, `log` is what the engine has sent; `ExecuteModel` is the host's
half of a step (start the pull of the input, dispatch the forward, offer the
result, count the step) and `RunForward` the device's, which waits for its
input. The transfer library is external. `Rows` and `SpecRows` are the shapes
that sender and receiver compute. For several ranks the receiver goes by
`max_num_scheduled_tokens_per_dp_rank`, which a scheduler outside the repository
is taken to count; without it the average (`runner:2819-2821`) is too small for an
uneven batch, so the average is modelled for one rank only.

`LoadGenerator` extends `Router`: a request of the client is a task of the
router once its connection is accepted. `task` is where `execute_request()` is,
`events` what the router has relayed and the client has not read, `emitted` what
D has generated, and `heard` the counts of the record. D's stream is external: it
may send tokens without text, several tokens in one event, an early end, or an
error event instead of the rest. An event with text has at least one token, so
what the client counts is never more than what D has sent. Arrival times keep
only their order.

## Runs

| Run | Instance | Shows |
|---|---|---|
| `producer` | 1 request, all four kinds of plan, 2 messages in flight, fairness | `ServedKVIsOriginal`, `ReadyIsServed`, `PeerTablesFollowLease`, `AtMostOnePreparation`, `ImplementsLease` (refinement of `TransferLease`), `HeldIsReleased`, `EveryPlanAnswered` |
| `pd_fail` | 1 request, P and D, policy `fail`, clients may abort, fairness | `NoDecodeWithoutKV`, `AckMeansDone`, `ReadyIsTracked`, `PullsOnce`, `DecoderResolves`, `PulledIsReleased` |
| `pd_early_ack` | the same without aborts, expected to fail | `AckEndsLease` is violated (see below) |
| `pd_direct` | 1 request, P by either way of offering and D, policy `recompute` (which may retain wrong KV), 1 buffer, aborts, fairness | `DecodesWithOfferedKV`, `DecoderResolvesDirect`, `PulledIsReleasedDirect` |
| `direct` | 2 requests, by direct transfer or with 2 workers for 1 buffer, copies may raise, fairness | `BufferHasOneOwner`, `NoBufferLost`, `ImplementsLease`, `HeldIsReleased` |
| `block_transfer` | block sizes 1-3, prompts up to 11 tokens, 5 blocks, 6 ids on D, every hit and every layout | `PlanIsAccepted`, `PrefixIsComplete`, `OthersUntouched`, `BucketIsLeast` |
| `runner` | six deployments: asynchronous with 3 requests on 2 ranks, synchronous and in bursts of up to 2 with 2 requests, and with 1 or 2 drafts | `SampledIsNext`, `ReceivedInOrder`, `HostCatchesUp`, `LengthsAgree`, `ExpertsFollowTokens` |
| `burst_chunk` | bursts with chunks of 1, expected to fail | `BurstOnlyDecodes` is violated (see below) |
| `spec_resume` | 1 draft, a request that is preempted and resumed in chunks, expected to fail | `SubstitutedIsDecode` is violated (see below) |
| `router` | 2 requests, 2 pairs, 1 connection, fairness | `ParamsSentOnce`, `RecordMatchesReply`, `EndedHoldsNoConnection`, `EveryRequestEnds` |
| `loadtest` | 2 requests, the first perhaps a warm-up, outputs of 2 tokens, 1 slot, 1 unread event, fairness | `RecordsAgree`, `ValidatedIsComplete`, `RunEnds` |
| `worker` | 4 chips of 2 cores, 2 engines or 3 stages of 1, 3 or 5 cores, chips 0-1 and 2-3 given in every sensible way, 3 steps of 0 to 2 tokens, 2 ranks, fairness | `ChipsAreOwn`, `InputIsOfTheStep`, `EverythingIsPulled`, `StepsComplete` |

Bounds. Every table of P is keyed by request and no action reads two requests'
entries, except the engine's sweep and the listener, which serves one message at
a time: one request exercises every order of the sections that one lease sees,
and the theorems hold for any number. The environment may always send again, so
two messages in flight give a duplicated plan, a late one, and a plan beside a
notification. Five blocks on six ids contain every shape of chunk (single, run,
descending, split, gap) and the buckets 1, 2, 4 and 8. Two D2H jobs for one
buffer let a running job wait for the buffer that another's entry names. In
`runner` two requests share a rank, so that batch order and rank order differ,
and the prompts of 3, 1 and 2 tokens bring a chunked prefill, a request that
decodes several times in a row and a resumed request that recomputes its tokens;
two drafts let none, one or both be rejected. The bursts and the drafts get
chunks that do not run into `burst_chunk` and `spec_resume`: where those cases
occur, `ReceivedInOrder` and `SampledIsNext` are violated too. The router's tasks
meet only at the pair iterator and at the pool, so two tasks for one connection
make the pool the bottleneck, and the clients only at the semaphore. Two tokens
are the least output in which an event may merge tokens or be blank, the two ways
in which a count falls short. A process that needs one core or three fits into the
chips that are given and one that needs five does not; batches on both ranks, one
of them uneven, tell the fullest rank from the average. Three stages have a first, a middle and a
last; three steps let a stage be two steps behind another.

The type invariants are stated in their modules, and proved with the theorems
below where there are any; the runs check what could really go wrong.

Deadlock is checked except in `block_transfer`, `router`, `loadtest`, `worker`
and the runs of `RunnerStep`, where every request, run or log ends.

### Fairness

`KVProducer`: weak fairness of the engine (an instance that serves polls its
connector in every step, also with nothing scheduled), of the jobs, of the
drain loop (the listener polls with a 1 ms timeout) and of the clock; strong
fairness of receiving each message, because a ROUTER socket fair-queues its
peers while the listener is only now and then at its poll. `PDTransfer` assumes
the same of D's engine and threads, strong fairness of scheduling a waiting
request (vLLM's queue starves nobody) and of a pull thread's own deadline. It
assumes *nothing* of the lease deadline, so `PulledIsReleased` says that the
notification alone frees the blocks. `DirectProducer`: the engine and the clock
as before, and strong fairness of a job's start and of its wait for a buffer,
since both executors and pools serve their waiters in turn; D owes no
notification, so it is the deadline that brings buffers back. `DirectTransfer`
combines P's threads with D's fairness of `PDTransfer`, strong for the listener
(as above), and again assumes nothing of the lease deadline. `Router`: the event
loop runs ready tasks and HTTP timeouts end every wait. `LoadGenerator`: the same
for both event loops, and D ends every stream (its requests have a `max_tokens`);
a client's own timeout is free to happen or not. `TPUWorker`: a worker answers
every call of the engine, and a device runs what is ready.

### What the code does that its comments do not say

`pd_early_ack`: on a full prefix hit D notifies P in its first step. That
notification can overtake P's next engine step, in which the worker registers the
request; `_handle_pull_done` drops a uuid it does not know
(`connector:772-777`), the registration follows, and the blocks stay held until
the deadline, 180 s as deployed. The comment at `connector:944-947` says that D
notifies in this case "so blocks are released immediately instead of waiting for
the transfer timeout".

`burst_chunk`: a request counts as a decode when it has one scheduled token
(`runner:2535-2539`), so the test that the comment at `runner:1258` calls "Check
if the entire batch is in the decode phase" also holds for a chunk of one token
of a longer prompt. The burst then continues from the middle of the prompt, and
what it samples goes to the row and to the scheduler. The count itself is made
by `_reorder_batch`, outside the repository; the model takes it as
`_prepare_inputs` makes it.

`spec_resume`: with speculative decoding `_update_placeholder` puts every request
of the batch into the map of placeholders, also those whose sampled token is
discarded because their chunk does not end the known tokens
(`runner:1220-1226`). A preempted request that is resumed in chunks is one: its
next chunk begins past the prompt, so it is no prefill by `runner:2217-2219`, and
it is in the map, so its tokens are substituted as if it decoded. The comments at
`runner:2221-2226` and `2230` say that such chunks are skipped. A chunk longer
than a decode fails the assertion at `runner:2245`, a shorter one is fed wrong
tokens.

Also seen; only the fifth disagrees with a comment, about code outside the
repository:

- Under `recompute`, a request whose pull failed notifies P while P's job may
  still be running; the job then publishes its uuid in `selective_pulls_ready`
  with no map entry, and nothing ever removes it. Under `fail` this cannot happen
  (`ReadyIsTracked`).
- A request that is aborted on D while it loads leaves its entry in
  `reqs_pulling` for ever, and P is not notified.
- A D2H copy that raises ends its job before the request is registered: its
  buffer never returns to the pool and its blocks are never freed.
- A D2H entry keeps `dest_buffer`, while `await_pull` is given
  `updated_dest_buffer`; between registration and `await_pull` the buffer can
  already have been returned by a notification or the sweep.
- A burst is limited by the room up to `max_model_len` only (`runner:1423-1429`,
  `1468`), while the comment at `runner:1467` says "Limit max_decode_steps to not
  cross block boundaries"; whether the next block has been allocated is decided
  outside the repository.
- `get_output()` of an asynchronous step looks its requests up in
  `runner.requests` when it rebuilds KV slots, whatever has become of them.
- The router writes two records for a 2xx answer that is not JSON ("ok", then
  "error"), leaves a streamed error answer open (the one connection that
  `EndedHoldsNoConnection` excepts), and records a client that left as "started".
- The stages of a pipeline that was given chips all see the same ones, with the
  bounds of one stage (`tpu_worker.py:236-246`, `291-314`), although `PPConfig`
  computes chips for each. The comment at 305 says that the code means to keep
  what is set, so this is stated in `ChipsAreOwn` and not counted as a finding.

## Theorems

All are checked by TLAPS for every value of the constants, with no bound on
messages, steps or requests. The assumptions are on constants only and TLC
evaluates them in the runs: `PlanAssumption` (plans are of the four kinds, and
there is one), `ConsumerAssumption` (the policy is one of two, and D's suffix
plans are among the plans), `DirectAssumption`, `RouterAssumption`,
`RunConfigAssumption` and `WorkerAssumption` (pools, pairs, slots, ranks and chips
are what their names say, and every deployment is `Sensible`), `LayoutAssumption`
and `RunnerAssumption` (the deployments of the runner; some padding has room for
all requests and some for
a step's tokens, as the runner's paddings reach `max_num_reqs` and
`max_num_batched_tokens`). The producers' theorems are about a `Spec` whose
environment may send anything, so they do not depend on D.

`PDTransferProofs` begins with P alone and proves `TypeCorrect`,
`ServedOriginal`, `ReadyServed`, `TablesFollowLease`, `ReleasedOnce`,
`PreparedOnce` and `LeaseImplemented`. None of the invariants is inductive
alone. `IInv` adds three parts to them:

- `HandOver`: where a request is between `request_finished` and
  `get_finished` (scheduler table, metadata, worker tables, report) is exactly
  one place, which is why it is reported once and why nothing unregistered can
  be prepared;
- `JobKV`: what a job has gathered is original from the moment a section has
  seen the lease still there; a stale gather is caught by that recheck,
  since blocks are overwritten only after the lease has left the tables; and
  `reqs_wait_pull` keeps that very KV alive as long as the uuid is mapped;
- `JobClaim`: a uuid in `selective_pulls_preparing` has a job past its
  claim, and a pending uuid not in it has none, so a second claim finds nothing.

The refinement maps a request to its lease (`LeaseOf`) and each step to one lease
action, to a release of several at once (`GetFinished`), or to a stutter; the
lemma `OneLease` covers the actions that change one request's lease and
`SomeLeases` the sweep.

About the composition it shows `PDImplementsProducer`: each step of D is one of
the environment's steps of `KVProducer` (a plan sent, a notification sent, a
reply taken) or a stutter, so `IInv` holds in the composition. On top of it:

- `CInv` is D's inductive invariant: `Phases` (metadata exists only between
  scheduling and loading, reports only between `get_finished` and the update),
  `OneTransferInv` (a request has no trace before it is scheduled, and its entry
  to pull belongs to a pull that has not begun), `PullInv` (a pull thread, its
  `reqs_pulling` entry, its result and its failure agree) and `LoadedInv`
  (a reported request has its KV at hand or on record as failed until the
  step that inserts or recomputes it). The step of `PullKV` needs
  `ServedKVIsOriginal` of P. `DecodesWithKV`, `AckNeverEarly` and `PulledOnce`
  follow, for both failure policies. `DecodesWithKV` promises the right KV under
  `fail`; under `recompute` it excepts the requests of which a load has failed
  (`RecomputedKV`), for which the repository makes no promise either.
- `ReadyTracked`, for policy `fail`, needs both sides: a request that may
  notify P pulled nothing or everything (`FailInv`), P prepares only what D
  asked for and D pulls only what P prepared (`PeerInv`), so no notification
  unmaps a uuid whose job is still running (`MappedInv`). Under `recompute`
  `FailInv` is what breaks.

`CInv` is defined in `KVConsumer`. Its proof has one lemma per group of D's
actions, none of which looks at P; `PDTransferProofs` and `DirectTransferProofs`
each hold these lemmas, since an instance of a module of proofs lends no facts.

`DirectProducerProofs` proves `TransferLease` again (`LeaseImplemented`), that a
request is reported once, and that host buffers are neither shared (`OneOwner`)
nor lost (`BuffersKept`). Its invariant: `Phases` ties the tables of scheduler,
worker and job to one another; `Named` says who names a buffer; `Owned` that no
two name the same and none names one of the pool; `Reachable` that every buffer
outside the pool is named.

`DirectTransferProofs` shows the composition to refine `DirectProducer`
(`DTImplementsProducer`) and `DecodesWithKVDirect`. The two sides meet in
`Known`: D knows only requests whose prefill P has finished. What D pulls is
what P offered, so `PullKV` needs no more of P than `OfferedKV`.

`LoadGeneratorProofs` begins with the router alone. Since its tasks share only
the pair iterator and the pool, each of `SentOnce`, `RecordsMatch` and
`ConnectionsReturned` follows from what a task has sent, written and opened at
each await (`Unsent`, `Records`, `Connections`). Then it shows that a load test
is a behaviour of the router (`RunImplementsRouter`), so these hold in it, and
proves `RunRecordsAgree`: a task that has ended never changes (`EndedStays`), and
a client counts as a success only what it has seen end (`Judged`). `RunValidated`
needs an account of every stream at every step, `Account`: the text events that
the client has counted and those still unread add up to what D has sent; a usage
event, read or not, has D's own count, and comes last; a failed request has
nothing left in its record. Texts are counted on a queue from which one end
reads while the other appends, so the lemmas `TextsInAppend` and `TextsInTail`
are about cardinalities of sets of indices. `Slots` (free slots and requests in
flight make up the semaphore) keeps `RunTypeCorrect` inductive.

`BlockTransferProofs` proves the four invariants of `block_transfer` for any
block size, prompt, hit and layout of D's cache. `BTInv` says what each stage
hands to the next (`Stages`: how many tokens are missing, which blocks are asked
for, what the slab holds) and what D's cache holds meanwhile (`Holds`); it is the
whole function of the two sides' arithmetic, and none of the four invariants is
inductive without it. Three facts about the operators carry the rest:

- quotients: D's count of missing blocks and P's count of computed blocks
  differ by the blocks that D has (`DivFacts`, `CeilDivFacts`, `External`);
- the bucket: the recursion by bit length has one value for every argument,
  twice that of half the argument (`Doubling`), hence it is a power of two
  (`BucketPower`) between the plan and twice the plan (`BucketBounds`).
  `BucketIsLeast` names an exponent, so `2^e` is tied to the recursion by
  counting subsets (`PowersOfTwo`), the one place where the library says
  something of exponents;
- the chunks: the ids from a start up to the next are consecutive
  (`RunIsContiguous`), every id is in the run of the last start before it
  (`ChunksCover`), and a chunk, pads included, reaches no other id
  (`ChunkHolds`), so `Copied` writes each id its own block (`CopiedAll`).

The last two need induction over data. The library's induction theorems cannot
be used, since they take an operator; `NatLeast` takes a *set* of numbers
instead, from the library's theorem on minimal elements of a well-founded
relation, and what has to hold for all numbers is proved by looking at the least
for which it does not (`NatAll`).

`RunnerStepProofs` proves `LengthsKept`: between steps the scheduler and the
runner agree how long an unfinished request is, which is what a step's length,
its drafts and the decision whether its result counts are computed from. The
property compares the runner's `num` with what the scheduler has received and
counts on, but at no other moment of a step are the two equal, so the invariant,
`LInv`, says by how much each is behind:

- `Lag`: the runner is ahead of what the scheduler has received by the tokens of
  the outputs on their way. For the last of them an asynchronous runner has only
  placeholders, one and one for each draft; when the next step has sampled, the
  placeholders give way to the tokens, fewer when drafts were rejected;
- `Coming`: the scheduler counts on one token and every draft of each output on
  its way, and takes back what was rejected when it takes the output. Without
  drafts `Lag` and `Coming` are the same; with drafts they differ while two
  outputs are on their way, the case that `LengthsAgree` leaves out;
- `Previous`: the results that `_modify_prev_results` will write are those of the
  last output, for the requests of the last batch, and their placeholders are
  there to be taken out;
- `Lengths`: in the middle of a step the scheduler counts on its result exactly
  if the step computes all that the runner has of the request, which is when
  `_sample_from_logits` counts it. Both sides decide this on their own, by
  different numbers, and this is where they could part.

The proof has one lemma per action (`ScheduleKeeps` to `SampleAsyncKeeps`). That
every place in `next_tokens` which is read has one token, or with drafts at least
one, is proved from the layout, in `BatchLayoutProofs`: `Nth` enumerates the rows
of a rank (`IndicesFacts`), a share has room for them (`PaddedReqsFacts`), and so a
request's place lies in its rank's share (`PlacesFacts`, `NextTokensFacts`). A burst stops
before a request outgrows `max_model_len` (`BurstFits`), which is why
`_execute_continue_decode` writes all its tokens although it drops those that do
not fit.

About the tokens themselves it proves `NextIsSampled`, `OrderKept`, `HostRight` and
`ExpertsRight`: what a step samples for a request is computed from that request's
own tokens and is the next one, the scheduler receives every token once and in
order, the rows are right but for the placeholders of the last step, and the
routed experts are read where the request's tokens were fed. They are stated under
`Plain`: no drafts, and in bursts a budget of more than one token. `burst_chunk`
shows what happens with one, and `spec_resume` what happens with drafts. The
invariant is `VInv`, on top of `LInv`; a wrong token anywhere could go round through
rows, device and scheduler, so its parts hold only together:

- `RowsRight` and `ReceivedRight`: the host's copy of a request is right up to the
  placeholder of the last step (`Filled`), and so is what the scheduler has;
- `QueueRight` and `BurstRight`: outputs on their way go on where the scheduler
  stops, in the order of the queue, and they end where the row ends;
- `PreRight`: for each placeholder the device holds the token at its position, at
  the index at which the next step will fetch it, for that request and not the one
  that has its row now. A step never begins before that position, which is why
  one substituted token is enough;
- `StateRight`: a step in progress samples at each request's place the token
  after its row;
- `StepsRight`: a step computes what there is and no more, so that a request
  whose step ends its tokens is exactly one with a result.

`ExpertsRight` needs in addition how `indices_map` is filled, each request after
those before it in the batch. The model has that as `FlattenSeq`, whose recursion
has one value (`FlattenIs`); it puts every row after those before it (`FlattenAt`),
so that two lists of rows with the same lengths are flattened alike
(`FlattenAlike`): one is the list of places, the other that of the tokens expected
there.

The lemma for `ExecuteModel` needs what a place in `input_ids` holds. A place is
in the share of one rank only, within it in the stretch of one request, and
`_prepare_input_ids` writes there the row's token, or in the last place of a
request that decodes the one kept on the device (`FedIs`). `BatchLayoutProofs` has
the lemmas for it ("Where the tokens of a step are"): the stretches are disjoint
and fit into the padded share. That they fit needs a padding for the whole
budget, the last part of `RunnerAssumption`: `num_tokens_paddings` goes up to
`max_num_batched_tokens` times the ranks (`runner:782-795`, `2145`).

`TPUWorkerProofs`: `OwnChips` is about every way to start the processes that
`Sensible` admits, with chips assigned, preset or neither. Chips that were given
are an engine's own by assumption, and the proof shows that `init_device()` keeps
them and takes no others (`RestoredGiven`); for the rest it is arithmetic about
multiples and a ceiling division (`OwnBlock`). It does not claim that the stages
of a pipeline that was given chips have chips of their own: they do not.
`AllPulled` and `InputOfStep` rest on `PipeInv`, which must speak of a stage that
is behind its predecessor and of one that is ahead: a tensor on offer belongs to a
step that the next stage has not executed or still waits for (`AwaitedInv`), and
a step that a stage executed before its predecessor did is still waiting
(`AheadInv`). A tensor carries the step counter in its uuid, so a device can take
only the tensor of its step. That the tensor has the expected shape is
`RowsAgree`: the sender adds up the tokens of a rank row by row of its batch, the
receiver request by request of the scheduler's. Both are folds, so
`BatchLayoutProofs` shows that a fold over a finite set has one value
(`FoldUnique`), that an element can be taken out of it (`TotalRemove`), and so that
sums agree along a bijection (`TotalBijection`, `RankTotal`).

Model-checked only: liveness (fairness is out of the prover's reach), and the four
invariants of `RunnerStep` about tokens where there are drafts. `AckEndsLease`,
`BurstOnlyDecodes` and `SubstitutedIsDecode` are refuted by their runs.

## Not modelled

- The runner's speculative decoding without asynchronous scheduling, its
  pooling, multimodal, logprob, LoRA and grammar paths, and its initialisation;
  the worker's memory sizing, profiler and delegation; tensor computation.
- What a recomputation after a failed load makes of the KV: the model leaves it
  open and `RecomputedKV` excepts it.
- `kv_cache_lock` as a lock of its own: gathers, inserts and forwards hold it
  and are single actions, so no run would notice it missing.
- The places of the draft logits in the padded logits (`runner:2395-2413`): with
  drafts, `NextTokens` gives each request's place the list of its tokens.
- The order in which vLLM takes back rejected drafts and dispatches the next
  step, on which the device's subtraction depends: `Deliver` assumes it.
- Two pipelines, or two groups of data-parallel ranks, on one host.
- The `TPUConnector` facade, which only delegates; the connector's statistics.
- Multi-host transfers (selective pull is switched off there).
- The internals of `HostKVPool` and `copy_to_host`, hence the timeout of the wait
  for chunks that are not ready (`connector:1058`) and the donated buffer that is
  given to `await_pull` (`connector:1087`): both are about arrays of the library.
- The statistics of the aggregation, the comparison of completions, the
  benchmarks, process management in the scripts, and `patches/`, which holds the
  same changes as `implementation/`.
- vLLM, JAX and ZeroMQ beyond what the code relies on; a crash of a worker
  (nothing is persisted: a restarted worker starts empty and its peers see
  timeouts, which are modelled).

## Plan

Left, in this order:

1. The invariants of `RunnerStep` about tokens with drafts, for deployments in
   which a preempted request is resumed in one step.
2. `kv_cache_lock` with the assignments to `kv_caches` by forwards, gathers and
   inserts.
3. Preempted loads and blocks shared by failed requests in `KVConsumer`.
4. Speculative decoding in the synchronous runner.
