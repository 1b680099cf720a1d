----------------------------- MODULE KVProducer -----------------------------
(***************************************************************************)
(* The producer (prefill) side of a selective KV transfer: the producer    *)
(* half of TPUConnectorScheduler and TPUConnectorWorker.                   *)
(*                                                                         *)
(* Three kinds of thread share the worker's tables under                   *)
(* _producer_state_lock, which each takes for one section at a time:       *)
(*                                                                         *)
(*   the engine    schedule -> load -> finish -> update -> schedule ...    *)
(*                 registers the finished prefills (_prepare_kv_and_wait), *)
(*                 runs the model, and polls get_finished();               *)
(*   the listener  poll -> [claim] -> drain -> poll ...                    *)
(*                 receives plans and "done" notifications and sends every *)
(*                 reply;                                                  *)
(*   a prepare job per claimed plan, run by selective_prepare_executor:    *)
(*                 queued -> gather -> store -> await -> publish -> ok,    *)
(*                 with an exception at any lock section going to fail     *)
(*                 and from there to error.                                *)
(*                                                                         *)
(* An action is one lock section together with the code that runs up to    *)
(* the next one.  Time appears as two events per request: its lease        *)
(* deadline passes (overdue), and its tombstone's expiry passes (lapsed).  *)
(***************************************************************************)
EXTENDS SideChannel

VARIABLES
  \* The P scheduler and vLLM's use of the connector.
  sched,        \* request -> "active", "held" (delay_free_blocks) or "freed"
  reqs_to_send, \* finished requests the worker has not been told of
  engine,       \* where the engine's step is
  meta,         \* metadata.reqs_to_send still to be registered this step
  doneSending,  \* the requests get_finished() just reported
  overwritten,  \* freed requests whose blocks a later forward has reused
  overdue,      \* held requests whose expiration_time has passed
  \* The worker's tables, all under _producer_state_lock.
  reqs_wait_pull,     \* request -> "absent", "timed" or "finished" (-1)
  kept,               \* the KV that its reqs_wait_pull entry keeps alive
  reqs_pending_pull,  \* registered, not yet taken by a prepare job
  uuid_map,           \* kv_pull_uuid_to_req_id_map
  preparing,          \* selective_pulls_preparing
  ready,              \* selective_pulls_ready
  pull_errors,        \* tombstones: "none", "live", "lapsed" (not yet pruned)
  \* The listener, the prepare jobs and the transfer server.
  listener,     \* "poll", "claim" or "drain"
  claim,        \* the plan the listener is claiming (at most one)
  prep,         \* request -> stage of its prepare job
  prepPlan,     \* request -> the plan its job was submitted with
  gathered,     \* request -> the KV its job has gathered
  awaiting      \* request -> the KV given to kv_transfer_server.await_pull

schedVars   == <<sched, reqs_to_send, engine, meta, doneSending, overwritten>>
tableVars   == <<reqs_wait_pull, kept, reqs_pending_pull, uuid_map,
                 preparing, ready, pull_errors>>
jobVars     == <<prep, prepPlan, gathered, awaiting>>
listenVars  == <<listener, claim>>
producerVars == <<schedVars, overdue, tableVars, jobVars, listenVars>>
vars == <<channelVars, producerVars>>

-----------------------------------------------------------------------------

\* "original" is the KV the prefill computed; "stale" is what a gather reads
\* from the same block ids after another request has been given the blocks.
KV == {"none", "original", "stale"}

Stage == {"none", "queued", "gather", "store", "await", "publish",
          "fail", "ok", "error", "answered"}

TypeOK ==
  /\ ChannelTypeOK
  /\ sched \in [Req -> {"active", "held", "freed"}]
  /\ reqs_to_send \subseteq Req
  /\ engine \in {"schedule", "load", "finish", "update"}
  /\ meta \subseteq Req
  /\ doneSending \subseteq Req
  /\ overwritten \subseteq Req
  /\ overdue \subseteq Req
  /\ reqs_wait_pull \in [Req -> {"absent", "timed", "finished"}]
  /\ kept \in [Req -> KV]
  /\ reqs_pending_pull \subseteq Req
  /\ uuid_map \subseteq Req
  /\ preparing \subseteq Req
  /\ ready \subseteq Req
  /\ pull_errors \in [Req -> {"none", "live", "lapsed"}]
  /\ listener \in {"poll", "claim", "drain"}
  /\ claim \subseteq PlanMsg
  /\ prep \in [Req -> Stage]
  /\ prepPlan \in [Req -> Plan]
  /\ gathered \in [Req -> KV]
  /\ awaiting \in [Req -> KV]

ProducerInit ==
  /\ sched = [r \in Req |-> "active"]
  /\ reqs_to_send = {}
  /\ engine = "schedule"
  /\ meta = {}
  /\ doneSending = {}
  /\ overwritten = {}
  /\ overdue = {}
  /\ reqs_wait_pull = [r \in Req |-> "absent"]
  /\ kept = [r \in Req |-> "none"]
  /\ reqs_pending_pull = {}
  /\ uuid_map = {}
  /\ preparing = {}
  /\ ready = {}
  /\ pull_errors = [r \in Req |-> "none"]
  /\ listener = "poll"
  /\ claim = {}
  /\ prep = [r \in Req |-> "none"]
  /\ prepPlan = [r \in Req |-> CHOOSE p \in Plan : TRUE]
  /\ gathered = [r \in Req |-> "none"]
  /\ awaiting = [r \in Req |-> "none"]

Tracked == {r \in Req : reqs_wait_pull[r] # "absent"}

-----------------------------------------------------------------------------
(* The scheduler and the engine's step.                                    *)

\* build_connector_meta(): hand the finished prefills to the worker.
BuildConnectorMeta ==
  /\ engine = "schedule"
  /\ engine' = "load"
  /\ meta' = reqs_to_send
  /\ reqs_to_send' = {}
  /\ UNCHANGED <<channelVars, sched, doneSending, overwritten, overdue,
                 tableVars, jobVars, listenVars>>

\* _prepare_kv_and_wait(), selective branch, for one entry of reqs_to_send.
PrepareKVAndWait(r) ==
  /\ engine = "load"
  /\ r \in meta
  /\ meta' = meta \ {r}
  /\ reqs_wait_pull' = [reqs_wait_pull EXCEPT ![r] = "timed"]
  /\ kept' = [kept EXCEPT ![r] = "none"]
  /\ reqs_pending_pull' = reqs_pending_pull \cup {r}
  /\ uuid_map' = uuid_map \cup {r}
  /\ pull_errors' = [pull_errors EXCEPT ![r] = "none"]
  /\ UNCHANGED <<channelVars, sched, reqs_to_send, engine, doneSending,
                 overwritten, overdue, preparing, ready, jobVars, listenVars>>

\* The model's forward (or kv_connector_no_forward), under kv_cache_lock:
\* blocks that were freed before this step may be written for others.
Forward(reused) ==
  /\ engine = "load"
  /\ meta = {}
  /\ engine' = "finish"
  /\ reused \subseteq {r \in Req : sched[r] = "freed"}
  /\ overwritten' = overwritten \cup reused
  /\ UNCHANGED <<channelVars, sched, reqs_to_send, meta, doneSending, overdue,
                 tableVars, jobVars, listenVars>>

\* Mutant: every entry is swept, whatever its expires.
ExpiredAlways == Tracked

\* The entries whose expires is behind the clock: -1, or the lease deadline.
Expired == {r \in Req : \/ reqs_wait_pull[r] = "finished"
                        \/ reqs_wait_pull[r] = "timed" /\ r \in overdue}

\* _prune_selective_pull_errors()
Pruned == [r \in Req |-> IF pull_errors[r] = "lapsed" THEN "none"
                                                      ELSE pull_errors[r]]

\* Mutant: the tables keyed by uuid are not cleaned with reqs_wait_pull.
SweptNothing == {}

\* The expired entries that a uuid still maps to.
Swept == Expired \cap uuid_map

\* Mutant: the early return looks at the plans instead of the leases.
NothingPending == reqs_pending_pull = {}

\* get_finished() has nothing to look at (P pulls nothing itself).
NothingRegistered == Tracked = {}

\* get_finished() with something registered: every expired entry goes, with
\* what its uuid maps to; a lease that ran out leaves a tombstone.
GetFinished ==
  LET timedOut == {r \in Swept : reqs_wait_pull[r] = "timed"} IN
  /\ engine = "finish"
  /\ ~ NothingRegistered
  /\ engine' = "update"
  /\ doneSending' = Expired
  /\ reqs_wait_pull' = [r \in Req |-> IF r \in Expired THEN "absent"
                                      ELSE reqs_wait_pull[r]]
  /\ kept' = [r \in Req |-> IF r \in Expired THEN "none" ELSE kept[r]]
  /\ uuid_map' = uuid_map \ Swept
  /\ reqs_pending_pull' = reqs_pending_pull \ Swept
  /\ preparing' = preparing \ Swept
  /\ ready' = ready \ Swept
  /\ pull_errors' = [r \in Req |-> IF r \in timedOut THEN "live"
                                                     ELSE Pruned[r]]
  /\ UNCHANGED <<channelVars, sched, reqs_to_send, meta, overwritten, overdue,
                 jobVars, listenVars>>

\* get_finished() returns early when nothing is registered.
GetFinishedEarlyReturn ==
  /\ engine = "finish"
  /\ NothingRegistered
  /\ engine' = "update"
  /\ doneSending' = {}
  /\ UNCHANGED <<channelVars, sched, reqs_to_send, meta, overwritten, overdue,
                 tableVars, jobVars, listenVars>>

\* request_finished(): a length-capped prefill with a full block delays the
\* release of its blocks and returns kv_transfer_params to the router.
RequestFinished(r) ==
  /\ engine = "update"
  /\ sched[r] = "active"
  /\ sched' = [sched EXCEPT ![r] = "held"]
  /\ reqs_to_send' = reqs_to_send \cup {r}
  /\ params' = params \cup {r}
  /\ UNCHANGED <<plans, dones, replies, engine, meta, doneSending,
                 overwritten, overdue, tableVars, jobVars, listenVars>>

\* request_finished() for an aborted prefill, or one with no full block.
RequestFinishedNoTransfer(r) ==
  /\ engine = "update"
  /\ sched[r] = "active"
  /\ sched' = [sched EXCEPT ![r] = "freed"]
  /\ UNCHANGED <<channelVars, reqs_to_send, engine, meta, doneSending,
                 overwritten, overdue, tableVars, jobVars, listenVars>>

\* vLLM frees the blocks of the requests that get_finished() reported.
FreeDoneSending ==
  /\ engine = "update"
  /\ engine' = "schedule"
  /\ sched' = [r \in Req |-> IF r \in doneSending THEN "freed" ELSE sched[r]]
  /\ doneSending' = {}
  /\ overdue' = overdue \ doneSending
  /\ UNCHANGED <<channelVars, reqs_to_send, meta, overwritten, tableVars,
                 jobVars, listenVars>>

-----------------------------------------------------------------------------
(* The listener thread.                                                    *)

Answer(r, status) == replies' = replies \cup {[req |-> r, status |-> status]}

\* _get_selective_plan_status(), after its prune.
PlanStatus(r) ==
  CASE Pruned[r] = "live"     -> "error"
    [] r \in ready            -> "ready"
    [] r \in preparing        -> "pending"
    [] r \in reqs_pending_pull -> "prepare"
    [] OTHER                  -> "pending"

NeedsClaim(r) == PlanStatus(r) = "prepare"

\* _dispatch_selective_plan() up to its status check, for one plan.
ReceivePlan(m) ==
  /\ listener = "poll"
  /\ m \in plans
  /\ plans' = plans \ {m}
  /\ IF m.plan = "malformed" THEN
       /\ Answer(m.req, "error")
       /\ listener' = "drain"
       /\ UNCHANGED <<claim, pull_errors>>
     ELSE
       /\ pull_errors' = Pruned
       /\ IF NeedsClaim(m.req)
          THEN /\ listener' = "claim"
               /\ claim' = {m}
               /\ UNCHANGED replies
          ELSE /\ listener' = "drain"
               /\ Answer(m.req, PlanStatus(m.req))
               /\ UNCHANGED claim
  /\ UNCHANGED <<params, dones, schedVars, overdue, reqs_wait_pull, kept,
                 reqs_pending_pull, uuid_map, preparing, ready, jobVars>>

\* The claim section finds that the request is still free to be prepared.
Claimable(r) == r \in reqs_pending_pull /\ r \notin preparing

\* Mutant: the job is submitted without claiming the uuid.
Unclaimed(r) == preparing

\* "Claim before submitting so duplicate plans cannot launch two gathers".
Claimed(r) == preparing \cup {r}

\* The second section of _dispatch_selective_plan(): claim and submit.
ClaimPlan(m) ==
  /\ listener = "claim"
  /\ m \in claim
  /\ Claimable(m.req)
  /\ preparing' = Claimed(m.req)
  /\ prep' = [prep EXCEPT ![m.req] = "queued"]
  /\ prepPlan' = [prepPlan EXCEPT ![m.req] = m.plan]
  /\ listener' = "drain"
  /\ claim' = {}
  /\ UNCHANGED <<channelVars, schedVars, overdue, reqs_wait_pull, kept,
                 reqs_pending_pull, uuid_map, ready, pull_errors, gathered,
                 awaiting>>

\* The same section when the engine swept the request in between.
ClaimLost(m) ==
  /\ listener = "claim"
  /\ m \in claim
  /\ ~ Claimable(m.req)
  /\ Answer(m.req, "pending")
  /\ listener' = "drain"
  /\ claim' = {}
  /\ UNCHANGED <<params, plans, dones, schedVars, overdue, tableVars, jobVars>>

\* _handle_pull_done(): a notification for a uuid P does not know is dropped.
HandlePullDone(r) ==
  /\ listener = "poll"
  /\ r \in dones
  /\ dones' = dones \ {r}
  /\ listener' = "drain"
  /\ IF r \in uuid_map /\ r \in Tracked
     THEN /\ reqs_wait_pull' = [reqs_wait_pull EXCEPT ![r] = "finished"]
          /\ reqs_pending_pull' = reqs_pending_pull \ {r}
          /\ uuid_map' = uuid_map \ {r}
          /\ preparing' = preparing \ {r}
          /\ ready' = ready \ {r}
     ELSE UNCHANGED <<reqs_wait_pull, reqs_pending_pull, uuid_map, preparing,
                      ready>>
  /\ UNCHANGED <<params, plans, replies, schedVars, overdue, kept, pull_errors,
                 jobVars, claim>>

\* Mutant: a job that raised never counts as done.
SettledOk == {r \in Req : prep[r] = "ok"}

\* The jobs whose future is done and whose reply is still owed.
Settled == {r \in Req : prep[r] \in {"ok", "error"}}

\* Mutant: future.result() is not called, so no exception is seen.
JobReplyUnchecked(r) == "ready"

JobReply(r) == IF prep[r] = "ok" THEN "ready" ELSE "error"

\* The loop over pending_responses, after a message or after a poll timeout.
DrainResponses ==
  /\ \/ listener = "drain"
     \/ listener = "poll" /\ plans = {} /\ dones = {} /\ Settled # {}
  /\ listener' = "poll"
  /\ replies' = replies \cup
       {[req |-> r, status |-> JobReply(r)] : r \in Settled}
  /\ prep' = [r \in Req |-> IF r \in Settled THEN "answered" ELSE prep[r]]
  /\ UNCHANGED <<params, plans, dones, schedVars, overdue, tableVars, prepPlan,
                 gathered, awaiting, claim>>

-----------------------------------------------------------------------------
(* A prepare job: _prepare_selective_kv().                                 *)

\* The first section: take the pending entry and check the plan.
TakePending(r) ==
  /\ prep[r] = "queued"
  /\ IF r \in reqs_pending_pull /\ prepPlan[r] # "empty"
     THEN /\ reqs_pending_pull' = reqs_pending_pull \ {r}
          /\ prep' = [prep EXCEPT ![r] = IF prepPlan[r] = "suffix"
                                         THEN "gather" ELSE "fail"]
     ELSE /\ prep' = [prep EXCEPT ![r] = "fail"]
          /\ UNCHANGED reqs_pending_pull
  /\ UNCHANGED <<channelVars, schedVars, overdue, reqs_wait_pull, kept,
                 uuid_map, preparing, ready, pull_errors, prepPlan, gathered,
                 awaiting, listenVars>>

\* _select_runner_kv(), under kv_cache_lock; it may raise.
GatherKV(r) ==
  /\ prep[r] = "gather"
  /\ \/ /\ gathered' = [gathered EXCEPT ![r] = IF r \in overwritten
                                               THEN "stale" ELSE "original"]
        /\ prep' = [prep EXCEPT ![r] = "store"]
     \/ /\ prep' = [prep EXCEPT ![r] = "fail"]
        /\ UNCHANGED gathered
  /\ UNCHANGED <<channelVars, schedVars, overdue, tableVars, prepPlan,
                 awaiting, listenVars>>

\* Mutant: the sections after the gather do not look at the lease again.
HeldUnchecked(r) == TRUE

\* The recheck of the second and third sections.
StillHeld(r) == r \in Tracked

\* The second section: the gather counts only if the request is still held.
StoreKV(r) ==
  /\ prep[r] = "store"
  /\ IF StillHeld(r)
     THEN /\ kept' = [kept EXCEPT ![r] = gathered[r]]
          /\ prep' = [prep EXCEPT ![r] = "await"]
     ELSE /\ prep' = [prep EXCEPT ![r] = "fail"]
          /\ UNCHANGED kept
  /\ UNCHANGED <<channelVars, schedVars, overdue, reqs_wait_pull,
                 reqs_pending_pull, uuid_map, preparing, ready, pull_errors,
                 prepPlan, gathered, awaiting, listenVars>>

\* kv_transfer_server.await_pull(uuid, kv); it may raise.
AwaitPull(r) ==
  /\ prep[r] = "await"
  /\ \/ /\ awaiting' = [awaiting EXCEPT ![r] = gathered[r]]
        /\ prep' = [prep EXCEPT ![r] = "publish"]
     \/ /\ prep' = [prep EXCEPT ![r] = "fail"]
        /\ UNCHANGED awaiting
  /\ UNCHANGED <<channelVars, schedVars, overdue, tableVars, prepPlan,
                 gathered, listenVars>>

\* The third section: publish the uuid as ready; the job's kv goes.
PublishReady(r) ==
  /\ prep[r] = "publish"
  /\ gathered' = [gathered EXCEPT ![r] = "none"]
  /\ IF StillHeld(r)
     THEN /\ preparing' = preparing \ {r}
          /\ ready' = ready \cup {r}
          /\ prep' = [prep EXCEPT ![r] = "ok"]
     ELSE /\ prep' = [prep EXCEPT ![r] = "fail"]
          /\ UNCHANGED <<preparing, ready>>
  /\ UNCHANGED <<channelVars, schedVars, overdue, reqs_wait_pull, kept,
                 reqs_pending_pull, uuid_map, pull_errors, prepPlan, awaiting,
                 listenVars>>

\* _fail_selective_pull(), then the exception reaches the future.
FailSelectivePull(r) ==
  /\ prep[r] = "fail"
  /\ prep' = [prep EXCEPT ![r] = "error"]
  /\ reqs_wait_pull' =
       [reqs_wait_pull EXCEPT ![r] =
          IF r \in uuid_map \cup reqs_pending_pull /\ r \in Tracked
          THEN "finished" ELSE @]
  /\ reqs_pending_pull' = reqs_pending_pull \ {r}
  /\ uuid_map' = uuid_map \ {r}
  /\ preparing' = preparing \ {r}
  /\ ready' = ready \ {r}
  /\ pull_errors' = [pull_errors EXCEPT ![r] = "live"]
  /\ gathered' = [gathered EXCEPT ![r] = "none"]
  /\ UNCHANGED <<channelVars, schedVars, overdue, kept, prepPlan, awaiting,
                 listenVars>>

-----------------------------------------------------------------------------
(* Time.                                                                   *)

\* time.perf_counter() passes the request's expiration_time.
LeaseDeadline(r) ==
  /\ sched[r] = "held"
  /\ r \notin overdue
  /\ overdue' = overdue \cup {r}
  /\ UNCHANGED <<channelVars, schedVars, tableVars, jobVars, listenVars>>

\* time.perf_counter() passes a tombstone's expiry; pruning comes later.
TombstoneLapse(r) ==
  /\ pull_errors[r] = "live"
  /\ pull_errors' = [pull_errors EXCEPT ![r] = "lapsed"]
  /\ UNCHANGED <<channelVars, schedVars, overdue, reqs_wait_pull, kept,
                 reqs_pending_pull, uuid_map, preparing, ready, jobVars,
                 listenVars>>

-----------------------------------------------------------------------------
(* An open environment: anybody may send any plan or notification.         *)

SendPlan(m) ==
  /\ plans' = plans \cup {m}
  /\ UNCHANGED <<params, dones, replies, producerVars>>

SendDone(r) ==
  /\ dones' = dones \cup {r}
  /\ UNCHANGED <<params, plans, replies, producerVars>>

TakeReply(m) ==
  /\ m \in replies
  /\ replies' = replies \ {m}
  /\ UNCHANGED <<params, plans, dones, producerVars>>

-----------------------------------------------------------------------------

Init == ChannelInit /\ ProducerInit

EngineStep ==
  \/ BuildConnectorMeta
  \/ \E r \in Req : PrepareKVAndWait(r)
  \/ \E reused \in SUBSET Req : Forward(reused)
  \/ GetFinished
  \/ GetFinishedEarlyReturn
  \/ FreeDoneSending

ListenerStep ==
  \/ \E m \in PlanMsg : ReceivePlan(m) \/ ClaimPlan(m) \/ ClaimLost(m)
  \/ \E r \in Req : HandlePullDone(r)
  \/ DrainResponses

JobStep(r) ==
  \/ TakePending(r)
  \/ GatherKV(r)
  \/ StoreKV(r)
  \/ AwaitPull(r)
  \/ PublishReady(r)
  \/ FailSelectivePull(r)

Finishing(r) == RequestFinished(r) \/ RequestFinishedNoTransfer(r)

Clock(r) == LeaseDeadline(r) \/ TombstoneLapse(r)

ProducerNext ==
  \/ EngineStep
  \/ ListenerStep
  \/ \E r \in Req : JobStep(r) \/ Finishing(r) \/ Clock(r)

EnvironmentNext ==
  \/ \E m \in PlanMsg : SendPlan(m)
  \/ \E r \in Req : SendDone(r)
  \/ \E m \in Reply : TakeReply(m)

Next == ProducerNext \/ EnvironmentNext

Spec == Init /\ [][Next]_vars

\* What the deployment provides: the engine keeps stepping (it is polled as
\* long as the instance serves), the clock moves, and every thread runs; the
\* ROUTER socket fair-queues its peers, so no message waits for ever.
ProducerFairness ==
  /\ WF_vars(EngineStep)
  /\ WF_vars(DrainResponses)
  /\ \A m \in PlanMsg : SF_vars(ReceivePlan(m)) /\ WF_vars(ClaimPlan(m))
                                                /\ WF_vars(ClaimLost(m))
  /\ \A r \in Req : /\ SF_vars(HandlePullDone(r))
                    /\ WF_vars(JobStep(r))
                    /\ WF_vars(LeaseDeadline(r))

FairSpec == Spec /\ ProducerFairness

-----------------------------------------------------------------------------
(* Properties.                                                             *)

\* KVProducer implements TransferLease: the lease of a request begins when its
\* prefill finishes and ends when get_finished() reports it, and its copy
\* counts as taken once the second section has seen the lease still there.
LeaseOf(r) ==
  IF sched[r] = "active" THEN "none"
  ELSE IF sched[r] = "freed" \/ r \in doneSending THEN "released"
  ELSE IF r \in overdue \/ reqs_wait_pull[r] = "finished" THEN "closing"
  ELSE "held"

Lease == INSTANCE TransferLease WITH
  lease  <- [r \in Req |-> LeaseOf(r)],
  copied <- {r \in Req : prep[r] = "await" \/ awaiting[r] # "none"},
  served <- {r \in Req : awaiting[r] # "none"}

\* Blocks leave the scheduler's hands only after D's notification, a failed
\* preparation or the deadline, and D is offered only what was copied before.
ImplementsLease == Lease!LeaseSpec

\* The transfer server only ever offers D the KV that the prefill computed,
\* although a lease may run out, and its blocks be written for another
\* request, between any two sections of _prepare_selective_kv().
ServedKVIsOriginal == \A r \in Req : awaiting[r] # "stale"

\* A uuid that is ready, or for which D was told "ready", has been given to
\* await_pull: D's conn.pull after a "ready" reply finds something to pull,
\* and while the lease runs reqs_wait_pull keeps those arrays alive.
ReadyIsServed ==
  /\ \A r \in ready : awaiting[r] # "none"
  /\ \A r \in ready \cap uuid_map : kept[r] = awaiting[r]
  /\ \A m \in replies : m.status = "ready" => awaiting[m.req] # "none"

\* The tables keyed by uuid never outlive the lease: what a plan can still
\* claim is mapped, and what is mapped is registered and not yet given up.
PeerTablesFollowLease ==
  /\ reqs_pending_pull \cup preparing \subseteq uuid_map
  /\ \A r \in uuid_map : reqs_wait_pull[r] = "timed"

\* A request is reported to the scheduler at most once, and only between
\* request_finished() and the release of its blocks: nothing is tracked
\* again, or still, after get_finished() has reported it.
NoDoubleRelease ==
  /\ Tracked \cap doneSending = {}
  /\ \A r \in Tracked \cup doneSending : sched[r] = "held"

\* Plans may be duplicated, but the gather of a request is launched once: a
\* second job would find nothing pending and tear down the healthy first one.
AtMostOnePreparation ==
  [][\A m \in PlanMsg : ClaimPlan(m) => prep[m.req] = "none"]_vars

\* Blocks whose release was delayed are released in the end, whatever D does.
HeldIsReleased ==
  \A r \in Req : sched[r] = "held" ~> sched[r] = "freed"

\* Whatever the listener receives as a plan it answers: D blocks on the reply.
EveryPlanAnswered ==
  \A r \in Req : (\E m \in plans : m.req = r) ~> (\E m \in replies : m.req = r)

=============================================================================
