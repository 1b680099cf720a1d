----------------------------- MODULE PDTransfer -----------------------------
(***************************************************************************)
(* One producer and one decoder, composed: a request is prefilled on P,    *)
(* its kv_transfer_params reach D through the router, D pulls what it      *)
(* lacks and notifies P, and P releases the blocks.  The open environment  *)
(* of KVProducer is replaced by the decoder, whose pull threads are the    *)
(* only senders of plans and whose engine is the only sender of            *)
(* notifications.                                                          *)
(***************************************************************************)
EXTENDS KVProducer, KVConsumer

pdVars == <<vars, consumerVars>>

PDTypeOK == TypeOK /\ ConsumerTypeOK

PDInit == Init /\ ConsumerInit

ProducerStep == ProducerNext /\ UNCHANGED consumerVars

ConsumerNext ==
  \/ DEngineStep
  \/ \E r \in Req : Arrive(r) \/ Scheduling(r) \/ Abort(r)
                       \/ PullStep(r, awaiting[r])
  \/ \E m \in Reply : DropReply(m)

\* What the decoder reads of P is only what the transfer server offers.
ConsumerStep == ConsumerNext /\ UNCHANGED producerVars

PDNext == ProducerStep \/ ConsumerStep

PDSpec == PDInit /\ [][PDNext]_pdVars

\* The producer's fairness, over the composed state.
PFairness ==
  /\ WF_pdVars(EngineStep /\ UNCHANGED consumerVars)
  /\ WF_pdVars(DrainResponses /\ UNCHANGED consumerVars)
  /\ \A r \in Req :
       LET Receive(m) == ReceivePlan(m) /\ UNCHANGED consumerVars
           Claim(m)   == /\ ClaimPlan(m) \/ ClaimLost(m)
                         /\ UNCHANGED consumerVars
           Done       == HandlePullDone(r) /\ UNCHANGED consumerVars
           Job        == JobStep(r) /\ UNCHANGED consumerVars
           m0         == [req |-> r, plan |-> "suffix"]
       IN SF_pdVars(Receive(m0)) /\ WF_pdVars(Claim(m0))
            /\ SF_pdVars(Done) /\ WF_pdVars(Job)

\* The decoder's: its engine steps, vLLM's queues starve nobody, its threads
\* run, and a thread under a deadline reaches it.
CFairness ==
  /\ WF_pdVars(DEngineStep /\ UNCHANGED producerVars)
  /\ \A r \in Req :
       /\ WF_pdVars(Arrive(r) /\ UNCHANGED producerVars)
       /\ SF_pdVars(Scheduling(r) /\ UNCHANGED producerVars)
       /\ WF_pdVars(PullStep(r, awaiting[r]) /\ UNCHANGED producerVars)
       /\ SF_pdVars(PullTimeout(r) /\ UNCHANGED producerVars)

\* No fairness on LeaseDeadline: what holds here does not wait for it.
PDFairSpec == PDSpec /\ PFairness /\ CFairness

-----------------------------------------------------------------------------
(* Properties.                                                             *)

\* By the time the forward of a step has run, every request that decodes has
\* its prompt's KV, pulled as P computed it or computed by D, whatever path
\* it took through pull and failure (get_finished(), D side).  Under the
\* policy "fail" there is no other way; under "recompute" a request whose load
\* failed has what the recomputation made of it, which nothing vouches for.
NoDecodeWithoutKV ==
  dengine = "finish" =>
    \A r \in Req : dsched[r] = "running" => HasKV(r)

\* D's notification, which lets P free the blocks, never overtakes D's own
\* pull of the same request (process_send_load() and get_finished()).
AckMeansDone ==
  \A r \in dones : pull[r] \notin {"ask", "reply", "pull"}

\* A uuid that P answers "ready" belongs to a lease that is still running:
\* selective_pulls_ready keeps nothing that no later sweep would find.
ReadyIsTracked == ready \subseteq uuid_map

\* "Only trigger 1 KV transfer per request": a pull is submitted once, also
\* when the request comes back to the scheduler after it (or its failure).
PullsOnce ==
  [][\A r \in Req : LoadPull(r) => pull[r] = "none"]_pdVars

\* A notification that reaches P before the lease has ended ends it, "so
\* blocks are released immediately instead of waiting for the transfer
\* timeout" (process_send_load(), about the full prefix hit).
AckEndsLease ==
  [][\A r \in Req :
       HandlePullDone(r) /\ sched[r] = "held" /\ r \notin doneSending
         => reqs_wait_pull'[r] = "finished"]_pdVars

\* A request that reaches D's scheduler is decoded or ends with an error:
\* no answer of P, and no lack of one, keeps it waiting for ever.
DecoderResolves ==
  \A r \in Req :
    dsched[r] = "waiting" ~> dsched[r] \in {"running", "failed", "aborted"}

\* Once D has inserted what it pulled, P frees the blocks without waiting for
\* the lease deadline (which PDFairSpec does not force to pass).
PulledIsReleased ==
  \A r \in Req : cache[r] = "original" ~> sched[r] = "freed"

=============================================================================
