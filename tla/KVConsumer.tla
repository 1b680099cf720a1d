----------------------------- MODULE KVConsumer -----------------------------
(***************************************************************************)
(* The decoder (D) side of a selective KV transfer: the consumer half of   *)
(* TPUConnectorScheduler and TPUConnectorWorker, with the vLLM scheduler   *)
(* that calls them.                                                        *)
(*                                                                         *)
(*   the engine      schedule -> load -> finish -> update -> schedule ...  *)
(*   a pull thread   per request, from pull_executor:                      *)
(*                   ask -> reply -> pull -> ok, or failed                 *)
(*                                                                         *)
(* A request that arrives with kv_transfer_params either hits D's prefix   *)
(* cache in full, and only notifies P, or has its missing blocks pulled.   *)
(* What a failed pull does to it is vLLM's kv_load_failure_policy, which   *)
(* scripts/serve_pd_worker.sh sets.                                        *)
(***************************************************************************)
EXTENDS SideChannel

CONSTANTS
  LoadFailurePolicy,  \* "fail" or "recompute"
  MayAbort            \* whether clients abort requests while they load

ASSUME ConsumerAssumption ==
  /\ LoadFailurePolicy \in {"fail", "recompute"}
  /\ MayAbort \in BOOLEAN
  /\ "suffix" \in Plan

VARIABLES
  \* The D scheduler.
  dsched,         \* request -> its state in vLLM's scheduler
  remotePrefill,  \* requests whose params still say do_remote_prefill
  reqs_to_load,   \* request -> "none", "pull" or "notify" (no remote blocks)
  dengine,        \* where the engine's step is
  dmeta,          \* metadata.reqs_to_load still to be processed this step
  doneRecving,    \* the requests get_finished() just reported
  failedLoads,    \* requests whose blocks are in failed_load_block_ids
  \* The D worker.
  reqs_pulling,   \* request -> "absent", "pending" (no kv yet) or "done"
  pull,           \* request -> stage of its pull thread
  pulled,         \* request -> the KV that conn.pull returned
  cache           \* request -> what D's cache holds of its prompt

dschedVars == <<dsched, remotePrefill, reqs_to_load, failedLoads, doneRecving>>
pullVars   == <<pull, pulled>>
consumerVars == <<dschedVars, dengine, dmeta, reqs_pulling, pullVars, cache>>

LoadKind == {"none", "pull", "notify"}

\* "local" is KV that D computed or cached itself, "retained" what comes of a
\* recomputation from "stale TPU runner state".
ConsumerTypeOK ==
  /\ dsched \in [Req -> {"absent", "waiting", "loading", "loaded", "running",
                         "failed", "aborted"}]
  /\ remotePrefill \subseteq Req
  /\ reqs_to_load \in [Req -> LoadKind]
  /\ dengine \in {"schedule", "load", "finish", "update"}
  /\ dmeta \in [Req -> LoadKind]
  /\ doneRecving \subseteq Req
  /\ failedLoads \subseteq Req
  /\ reqs_pulling \in [Req -> {"absent", "pending", "done"}]
  /\ pull \in [Req -> {"none", "ask", "reply", "pull", "ok", "failed"}]
  /\ pulled \in [Req -> {"none", "original", "stale"}]
  /\ cache \in [Req -> {"none", "original", "stale", "local", "retained"}]

ConsumerInit ==
  /\ dsched = [r \in Req |-> "absent"]
  /\ remotePrefill = {}
  /\ reqs_to_load = [r \in Req |-> "none"]
  /\ dengine = "schedule"
  /\ dmeta = [r \in Req |-> "none"]
  /\ doneRecving = {}
  /\ failedLoads = {}
  /\ reqs_pulling = [r \in Req |-> "absent"]
  /\ pull = [r \in Req |-> "none"]
  /\ pulled = [r \in Req |-> "none"]
  /\ cache = [r \in Req |-> "none"]

-----------------------------------------------------------------------------
(* The scheduler.                                                          *)

\* The router forwards the params of a finished prefill to D.
Arrive(r) ==
  /\ r \in params
  /\ dsched[r] = "absent"
  /\ dsched' = [dsched EXCEPT ![r] = "waiting"]
  /\ remotePrefill' = remotePrefill \cup {r}
  /\ UNCHANGED <<channelVars, reqs_to_load, failedLoads, doneRecving, dengine,
                 dmeta, reqs_pulling, pullVars, cache>>

\* Mutant: do_remote_prefill is left as it was.
StillRemote(r) == remotePrefill

\* "Only trigger 1 KV transfer per request."
OneTransfer(r) == remotePrefill \ {r}

\* get_num_new_matched_tokens() finds blocks that D lacks, and
\* update_state_after_alloc() plans to pull them; the request waits for it.
SchedulePull(r) ==
  /\ dengine = "schedule"
  /\ dsched[r] \in {"waiting", "loaded"}
  /\ r \in remotePrefill
  /\ reqs_to_load' = [reqs_to_load EXCEPT ![r] = "pull"]
  /\ remotePrefill' = OneTransfer(r)
  /\ dsched' = [dsched EXCEPT ![r] = "loading"]
  /\ UNCHANGED <<channelVars, failedLoads, doneRecving, dengine, dmeta,
                 reqs_pulling, pullVars, cache>>

\* Nothing to pull: D's cache covers every full block of the prompt.
ScheduleFullHit(r) ==
  /\ dengine = "schedule"
  /\ dsched[r] = "waiting"
  /\ r \in remotePrefill
  /\ reqs_to_load' = [reqs_to_load EXCEPT ![r] = "notify"]
  /\ remotePrefill' = OneTransfer(r)
  /\ dsched' = [dsched EXCEPT ![r] = "running"]
  /\ cache' = [cache EXCEPT ![r] = "local"]
  /\ UNCHANGED <<channelVars, failedLoads, doneRecving, dengine, dmeta,
                 reqs_pulling, pullVars>>

\* A request that vLLM schedules again for its recomputation may get its KV
\* right or not: "Reusing vLLM's same request for recompute can retain stale
\* TPU runner state" (scripts/remote/serve_pd_worker.sh).
Recomputed == {"local", "retained"}

\* The second allocation, after the pull is done or has failed: the KV that
\* did not come is recomputed by the forward of this step.
ScheduleLoaded(r) ==
  /\ dengine = "schedule"
  /\ dsched[r] = "loaded"
  /\ r \notin remotePrefill
  /\ reqs_to_load' = [reqs_to_load EXCEPT ![r] = "notify"]
  /\ dsched' = [dsched EXCEPT ![r] = "running"]
  /\ IF r \in failedLoads
     THEN \E kv \in Recomputed : cache' = [cache EXCEPT ![r] = kv]
     ELSE UNCHANGED cache
  /\ failedLoads' = failedLoads \ {r}
  /\ UNCHANGED <<channelVars, remotePrefill, doneRecving, dengine, dmeta,
                 reqs_pulling, pullVars>>

\* build_connector_meta(), decoder branch.
DBuildConnectorMeta ==
  /\ dengine = "schedule"
  /\ dengine' = "load"
  /\ dmeta' = reqs_to_load
  /\ reqs_to_load' = [r \in Req |-> "none"]
  /\ UNCHANGED <<channelVars, dsched, remotePrefill, failedLoads, doneRecving,
                 reqs_pulling, pullVars, cache>>

\* vLLM takes the reports of get_finished(): a request whose blocks failed to
\* load ends with an error, or goes on to recompute them.
TakeReports ==
  /\ dengine = "update"
  /\ dengine' = "schedule"
  /\ dsched' = [r \in Req |->
       IF r \in doneRecving /\ dsched[r] = "loading"
       THEN IF r \in failedLoads /\ LoadFailurePolicy = "fail" THEN "failed"
                                                               ELSE "loaded"
       ELSE dsched[r]]
  /\ failedLoads' =
       IF LoadFailurePolicy = "fail" THEN {}
       ELSE {r \in failedLoads : dsched[r] \in {"loading", "loaded"}}
  /\ doneRecving' = {}
  /\ UNCHANGED <<channelVars, remotePrefill, reqs_to_load, dmeta,
                 reqs_pulling, pullVars, cache>>

\* The client goes away; request_finished() is a no-op for D.
Abort(r) ==
  /\ MayAbort
  /\ dengine = "update"
  /\ dsched[r] \in {"waiting", "loading", "loaded"}
  /\ dsched' = [dsched EXCEPT ![r] = "aborted"]
  /\ UNCHANGED <<channelVars, remotePrefill, reqs_to_load, failedLoads,
                 doneRecving, dengine, dmeta, reqs_pulling, pullVars, cache>>

-----------------------------------------------------------------------------
(* The worker: process_send_load(), the forward and get_finished().        *)

Processed(r) == dmeta' = [dmeta EXCEPT ![r] = "none"]

\* An entry with remote blocks: submit the pull (once).
LoadPull(r) ==
  /\ dengine = "load"
  /\ dmeta[r] = "pull"
  /\ Processed(r)
  /\ IF reqs_pulling[r] = "absent"
     THEN /\ reqs_pulling' = [reqs_pulling EXCEPT ![r] = "pending"]
          /\ pull' = [pull EXCEPT ![r] = "ask"]
     ELSE UNCHANGED <<reqs_pulling, pull>>
  /\ UNCHANGED <<channelVars, dschedVars, dengine, pulled, cache>>

\* Mutant: only a request that did not pull tells P that it is done.
NotifyFullHit(r) ==
  IF reqs_pulling[r] = "absent" THEN dones \cup {r} ELSE dones

\* _notify_pull_done(): "Notify it in both cases".
Notify(r) == dones \cup {r}

\* An entry without remote blocks: insert what was pulled, then notify P.
LoadNotify(r) ==
  /\ dengine = "load"
  /\ dmeta[r] = "notify"
  /\ Processed(r)
  /\ IF reqs_pulling[r] = "absent" THEN UNCHANGED <<reqs_pulling, cache>>
     ELSE /\ reqs_pulling' = [reqs_pulling EXCEPT ![r] = "absent"]
          /\ cache' = [cache EXCEPT ![r] = pulled[r]]
  /\ dones' = Notify(r)
  /\ UNCHANGED <<params, plans, replies, dschedVars, dengine, pullVars>>

DForward ==
  /\ dengine = "load"
  /\ \A r \in Req : dmeta[r] = "none"
  /\ dengine' = "finish"
  /\ UNCHANGED <<channelVars, dschedVars, dmeta, reqs_pulling, pullVars,
                 cache>>

\* Mutant: an entry is reported before its future is done.
PullReturnedAny(r) == reqs_pulling[r] = "pending"

\* Mutant: a pull that failed is not reported.
PullReturnedOk(r) == reqs_pulling[r] = "pending" /\ pull[r] = "ok"

\* The pull is in flight as far as get_finished() knows, and its future done.
PullReturned(r) == reqs_pulling[r] = "pending" /\ pull[r] \in {"ok", "failed"}

\* Mutant: the blocks of a failed pull are not remembered.
FailuresForgotten(failed) == failedLoads

\* get_block_ids_with_load_errors() hands them over in the same step.
FailuresRemembered(failed) == failedLoads \cup failed

\* get_finished(): report the pulls that returned, with or without their KV.
DGetFinished ==
  LET returned == {r \in Req : PullReturned(r)}
      failed   == {r \in returned : pull[r] = "failed"}
  IN
  /\ dengine = "finish"
  /\ dengine' = "update"
  /\ doneRecving' = returned
  /\ reqs_pulling' = [r \in Req |-> IF r \in failed THEN "absent"
                                    ELSE IF r \in returned THEN "done"
                                    ELSE reqs_pulling[r]]
  /\ failedLoads' = FailuresRemembered(failed)
  /\ UNCHANGED <<channelVars, dsched, remotePrefill, reqs_to_load, dmeta,
                 pullVars, cache>>

-----------------------------------------------------------------------------
(* A pull thread: _pull_kv() and _request_selective_pull_plan().           *)

\* Ask P to prepare the missing suffix of the request's blocks.
AskPlan(r) ==
  /\ pull[r] = "ask"
  /\ pull' = [pull EXCEPT ![r] = "reply"]
  /\ plans' = plans \cup {[req |-> r, plan |-> "suffix"]}
  /\ UNCHANGED <<params, dones, replies, dschedVars, dengine, dmeta,
                 reqs_pulling, pulled, cache>>

\* What a reply makes of the pull: "pending" is asked again after a pause.
AfterReply(status) ==
  CASE status = "ready"   -> "pull"
    [] status = "pending" -> "ask"
    [] OTHER              -> "failed"

PlanReply(m) ==
  /\ m \in replies
  /\ pull[m.req] = "reply"
  /\ replies' = replies \ {m}
  /\ pull' = [pull EXCEPT ![m.req] = AfterReply(m.status)]
  /\ UNCHANGED <<params, plans, dones, dschedVars, dengine, dmeta,
                 reqs_pulling, pulled, cache>>

\* A reply to a socket that D has closed is dropped by the ROUTER.
DropReply(m) ==
  /\ m \in replies
  /\ pull[m.req] \notin {"ask", "reply"}
  /\ replies' = replies \ {m}
  /\ UNCHANGED <<params, plans, dones, consumerVars>>

\* Mutant: the loop has no deadline of its own while P says "pending".
TimeoutOnReplyOnly(r) == pull[r] = "pull"

\* Where a pull thread is under a deadline: the registration deadline while
\* it asks, and tpu_p2p_wait_pull_timeout while it pulls.
UnderDeadline(r) == pull[r] \in {"ask", "reply", "pull"}

PullTimeout(r) ==
  /\ UnderDeadline(r)
  /\ pull' = [pull EXCEPT ![r] = "failed"]
  /\ UNCHANGED <<channelVars, dschedVars, dengine, dmeta, reqs_pulling,
                 pulled, cache>>

\* conn.pull(uuid) returns the KV that P's transfer server offers.
PullKV(r, kv) ==
  /\ pull[r] = "pull"
  /\ kv # "none"
  /\ pulled' = [pulled EXCEPT ![r] = kv]
  /\ pull' = [pull EXCEPT ![r] = "ok"]
  /\ UNCHANGED <<channelVars, dschedVars, dengine, dmeta, reqs_pulling, cache>>

-----------------------------------------------------------------------------

DEngineStep ==
  \/ DBuildConnectorMeta
  \/ \E r \in Req : LoadPull(r) \/ LoadNotify(r)
  \/ DForward
  \/ DGetFinished
  \/ TakeReports

Scheduling(r) == SchedulePull(r) \/ ScheduleFullHit(r) \/ ScheduleLoaded(r)

PullStep(r, kv) ==
  \/ AskPlan(r)
  \/ \E m \in Reply : m.req = r /\ PlanReply(m)
  \/ PullTimeout(r)
  \/ PullKV(r, kv)

\* The request's KV came out of a recomputation after a failed load, which
\* only the policy "recompute" asks for.
RecomputedKV(r) ==
  /\ LoadFailurePolicy = "recompute"
  /\ pull[r] = "failed"
  /\ cache[r] = "retained"

\* What request r may decode with.
HasKV(r) == cache[r] \in {"original", "local"} \/ RecomputedKV(r)

-----------------------------------------------------------------------------
(* The decoder's inductive invariant, whatever the producer and the kind   *)
(* of transfer: all that it asks of them is that the KV that a pull        *)
(* returns is the one that the prefill computed.                           *)

Active == {"ask", "reply", "pull"}

\* Metadata is built in schedule and used up in load; reports are made in
\* finish and taken in update.
Phases ==
  /\ dengine # "schedule" => \A r \in Req : reqs_to_load[r] = "none"
  /\ dengine # "load" => \A r \in Req : dmeta[r] = "none"
  /\ dengine # "update" => doneRecving = {}

\* A request has one transfer: until it is scheduled there is no trace of
\* it, and an entry to pull belongs to a pull that has not begun.
OneTransferInv ==
  \A r \in Req :
    /\ dsched[r] \in {"absent", "waiting"} \/ r \in remotePrefill
         => /\ reqs_to_load[r] = "none" /\ dmeta[r] = "none"
            /\ pull[r] = "none" /\ r \notin failedLoads
    /\ dsched[r] = "absent" => r \notin remotePrefill
    /\ r \in remotePrefill => dsched[r] \in {"waiting", "aborted"}
    /\ "pull" \in {reqs_to_load[r], dmeta[r]}
         => pull[r] = "none" /\ dsched[r] \in {"loading", "aborted"}
    /\ "notify" \in {reqs_to_load[r], dmeta[r]}
         => dsched[r] = "running" /\ reqs_pulling[r] # "pending"
    /\ r \in dones => dsched[r] = "running"

\* A pull thread, its entry in reqs_pulling and what it pulled.
PullInv ==
  \A r \in Req :
    /\ pull[r] \in Active => reqs_pulling[r] = "pending"
    /\ reqs_pulling[r] # "absent" => pull[r] # "none"
    /\ reqs_pulling[r] = "pending" => dsched[r] \in {"loading", "aborted"}
    /\ reqs_pulling[r] = "done" => pull[r] = "ok"
    /\ pull[r] = "ok" => pulled[r] = "original"
    /\ r \in failedLoads => pull[r] = "failed" /\ reqs_pulling[r] = "absent"
    /\ r \in doneRecving => dsched[r] \in {"loading", "aborted"}

\* A request whose pull was reported has its KV at hand or on record as
\* failed, until the step that inserts it or schedules its recomputation.
LoadedInv ==
  \A r \in Req :
    /\ r \in doneRecving => r \in failedLoads \/ reqs_pulling[r] = "done"
    /\ dsched[r] = "loaded"
         => \/ reqs_pulling[r] = "done"
            \/ r \in failedLoads /\ LoadFailurePolicy = "recompute"
    /\ dsched[r] = "running"
         => \/ HasKV(r)
            \/ /\ "notify" \in {reqs_to_load[r], dmeta[r]}
               /\ reqs_pulling[r] = "done"

CInv ==
  /\ ConsumerTypeOK
  /\ Phases
  /\ OneTransferInv
  /\ PullInv
  /\ LoadedInv

=============================================================================
