--------------------------- MODULE DirectTransfer ---------------------------
(***************************************************************************)
(* A producer with selective pull off, composed with a decoder: P offers   *)
(* every finished prefill at once, directly or through a host buffer, and  *)
(* D pulls by uuid without asking for a plan.  The side channel carries    *)
(* only notifications.                                                     *)
(*                                                                         *)
(* The producer is DirectProducer, whose environment (SendDone) is         *)
(* replaced by the decoder of KVConsumer.                                  *)
(***************************************************************************)
EXTENDS KVConsumer

CONSTANTS Modes, Buffer, NoBuffer, Workers

VARIABLES
  d2h, sched, reqs_to_send, engine, meta, doneSending, overdue,
  reqs_wait_pull, buffer_index, uuid_map, pool, stage, taken, offered

P == INSTANCE DirectProducer

leaseVars == <<d2h, sched, reqs_to_send, engine, meta, doneSending, overdue,
               reqs_wait_pull, buffer_index, uuid_map, pool, stage, taken,
               offered>>
restVars == <<plans, replies, consumerVars>>
dtVars == <<leaseVars, channelVars, consumerVars>>

DTInit == P!Init /\ ChannelInit /\ ConsumerInit

-----------------------------------------------------------------------------
(* The producer.                                                           *)

\* A step of P that answers nothing to the router.
Inside(A) == A /\ UNCHANGED <<params, restVars>>

\* request_finished() returns the kv_transfer_params of a held request.
RequestFinished(r) ==
  /\ P!RequestFinished(r)
  /\ params' = params \cup {r}
  /\ UNCHANGED restVars

ProducerStep ==
  \/ Inside(P!EngineStep)
  \/ \E r \in Req :
       \/ RequestFinished(r)
       \/ Inside(P!RequestFinishedNoTransfer(r))
       \/ Inside(P!StartJob(r))
       \/ Inside(P!JobStep(r))
       \/ Inside(P!HandlePullDone(r))
       \/ Inside(P!LeaseDeadline(r))

-----------------------------------------------------------------------------
(* A pull thread of D without selective pull.                              *)

\* What P's transfer server has for a uuid.
OfferedKV(r) == IF r \in offered THEN "original" ELSE "none"

\* selective_pull is off: no plan is asked for.
StartPull(r) ==
  /\ pull[r] = "ask"
  /\ pull' = [pull EXCEPT ![r] = "pull"]
  /\ UNCHANGED <<channelVars, dschedVars, dengine, dmeta, reqs_pulling,
                 pulled, cache>>

DirectPullStep(r) ==
  \/ StartPull(r)
  \/ pull[r] = "pull" /\ PullTimeout(r)
  \/ PullKV(r, OfferedKV(r))

DecoderStep ==
  /\ \/ DEngineStep
     \/ \E r \in Req : Arrive(r) \/ Scheduling(r) \/ Abort(r)
                         \/ DirectPullStep(r)
  /\ UNCHANGED leaseVars

DTNext == ProducerStep \/ DecoderStep

DTSpec == DTInit /\ [][DTNext]_dtVars

-----------------------------------------------------------------------------

\* P's threads run, but nothing waits for the clock.
DTProducerFairness ==
  /\ WF_dtVars(Inside(P!EngineStep))
  /\ \A r \in Req :
       /\ SF_dtVars(Inside(P!StartJob(r)))
       /\ SF_dtVars(Inside(P!JobStep(r)))
       /\ SF_dtVars(Inside(P!HandlePullDone(r)))

\* As for PDTransfer: D's engine steps, its queues starve nobody, its pull
\* threads run and reach their deadline.
DTConsumerFairness ==
  /\ WF_dtVars(DEngineStep /\ UNCHANGED leaseVars)
  /\ \A r \in Req :
       /\ WF_dtVars(Arrive(r) /\ UNCHANGED leaseVars)
       /\ SF_dtVars(Scheduling(r) /\ UNCHANGED leaseVars)
       /\ WF_dtVars(DirectPullStep(r) /\ UNCHANGED leaseVars)

DTFairSpec == DTSpec /\ DTProducerFairness /\ DTConsumerFairness

-----------------------------------------------------------------------------
(* Properties.                                                             *)

\* Also without plans, a request decodes with the KV that P offered or that D
\* had in its own cache; only one whose pull has failed, and only under the
\* policy "recompute", has what the recomputation made of it, which may be
\* wrong (get_finished(), D side).  No request decodes with neither.
DecodesWithOfferedKV ==
  dengine = "finish" =>
    \A r \in Req : dsched[r] = "running" => HasKV(r)

\* Every request that reaches D decodes or ends with an error, although P
\* may offer its KV late or never (_pull_kv()).
DecoderResolvesDirect ==
  \A r \in Req :
    dsched[r] = "waiting" ~> dsched[r] \in {"running", "failed", "aborted"}

\* Once D has inserted what it pulled, P frees the blocks, and with them the
\* host buffer, without waiting for the deadline: D's notification finds the
\* request registered, because nothing is offered before that.
PulledIsReleasedDirect ==
  \A r \in Req :
    cache[r] = "original" ~>
      sched[r] = "freed" /\ pool = (IF d2h THEN Buffer ELSE {})

=============================================================================
