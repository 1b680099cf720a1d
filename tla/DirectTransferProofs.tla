------------------------ MODULE DirectTransferProofs ------------------------
(***************************************************************************)
(* A producer without selective pull beside a decoder, for any number of   *)
(* requests, buffers and workers: the decoder is one of the environments   *)
(* that DirectProducer allows for, so what DirectProducerProofs proves of  *)
(* the producer holds here, and the decoder never decodes without KV.      *)
(***************************************************************************)
EXTENDS DirectTransfer, TLAPS

-----------------------------------------------------------------------------
(* The decoder's invariant, by groups of its actions.                      *)

\* The initial state satisfies the decoder's inductive invariant.
LEMMA InitCInv == ChannelInit /\ ConsumerInit => CInv
  BY DEF ChannelInit, ConsumerInit, CInv, ConsumerTypeOK, LoadKind, Phases,
     OneTransferInv, PullInv, LoadedInv, HasKV, RecomputedKV, Active

\* A step of somebody else can only take a notification off the channel.
LEMMA OthersKeepCInv ==
  ASSUME CInv, UNCHANGED consumerVars, dones' \subseteq dones PROVE CInv'
  BY DEF CInv, ConsumerTypeOK, Phases, OneTransferInv, PullInv, LoadedInv,
     HasKV, RecomputedKV, Active, consumerVars, dschedVars, pullVars

\* The steps of D's scheduler.
LEMMA SchedulingCInv ==
  ASSUME CInv, NEW r \in Req, Arrive(r) \/ Scheduling(r) \/ Abort(r)
  PROVE  CInv'
  <1> USE DEF CInv, ConsumerTypeOK, LoadKind, Phases, OneTransferInv, PullInv,
          LoadedInv, HasKV, RecomputedKV, Active, channelVars, pullVars
  <1>1. ASSUME Arrive(r) PROVE CInv'
    BY <1>1 DEF Arrive
  <1>2. ASSUME SchedulePull(r) PROVE CInv'
    BY <1>2 DEF SchedulePull, OneTransfer
  <1>3. ASSUME ScheduleFullHit(r) PROVE CInv'
    BY <1>3 DEF ScheduleFullHit, OneTransfer
  <1>4. ASSUME ScheduleLoaded(r) PROVE CInv'
    BY <1>4 DEF ScheduleLoaded, Recomputed
  <1>5. ASSUME Abort(r) PROVE CInv'
    BY <1>5 DEF Abort
  <1> QED
    BY <1>1, <1>2, <1>3, <1>4, <1>5 DEF Scheduling

\* The steps of D's engine.
LEMMA EngineCInv == ASSUME CInv, DEngineStep PROVE CInv'
  <1> USE DEF CInv, ConsumerTypeOK, LoadKind, Phases, OneTransferInv, PullInv,
          LoadedInv, HasKV, RecomputedKV, Active, channelVars, dschedVars,
          pullVars
  <1>1. ASSUME DBuildConnectorMeta PROVE CInv'
    BY <1>1 DEF DBuildConnectorMeta
  <1>2. ASSUME NEW r \in Req, LoadPull(r) PROVE CInv'
    BY <1>2 DEF LoadPull, Processed
  <1>3. ASSUME NEW r \in Req, LoadNotify(r) PROVE CInv'
    BY <1>3 DEF LoadNotify, Processed, Notify
  <1>4. ASSUME DForward PROVE CInv'
    BY <1>4 DEF DForward
  <1>5. ASSUME DGetFinished PROVE CInv'
    BY <1>5 DEF DGetFinished, PullReturned, FailuresRemembered
  <1>6. ASSUME TakeReports PROVE CInv'
    BY <1>6, ConsumerAssumption DEF TakeReports
  <1> QED
    BY <1>1, <1>2, <1>3, <1>4, <1>5, <1>6 DEF DEngineStep

\* A pull thread that goes on, without or with the KV of the prefill.
LEMMA PullCInv ==
  ASSUME CInv, NEW r \in Req,
         \/ pull[r] = "ask" /\ pull' = [pull EXCEPT ![r] = "reply"]
         \/ pull[r] = "ask" /\ pull' = [pull EXCEPT ![r] = "pull"]
         \/ /\ pull[r] = "reply"
            /\ \E status \in Status :
                 pull' = [pull EXCEPT ![r] = AfterReply(status)]
         \/ UnderDeadline(r) /\ pull' = [pull EXCEPT ![r] = "failed"],
         UNCHANGED <<dones, dschedVars, dengine, dmeta, reqs_pulling, pulled,
                     cache>>
  PROVE  CInv'
  BY DEF CInv, ConsumerTypeOK, Phases, OneTransferInv, PullInv, LoadedInv,
     HasKV, RecomputedKV, Active, dschedVars, AfterReply, Status,
     UnderDeadline

\* A pull that returns the KV of the prefill.
LEMMA PullKVCInv ==
  ASSUME CInv, NEW r \in Req, PullKV(r, "original") PROVE CInv'
  BY DEF CInv, ConsumerTypeOK, Phases, OneTransferInv, PullInv, LoadedInv,
     HasKV, RecomputedKV, Active, dschedVars, channelVars, PullKV

-----------------------------------------------------------------------------
(* The decoder as an environment of the producer.                          *)

\* D knows only requests whose prefill P has finished.
Known ==
  /\ sched \in [Req -> {"active", "held", "freed"}]
  /\ dsched \in [Req -> {"absent", "waiting", "loading", "loaded", "running",
                         "failed", "aborted"}]
  /\ params \subseteq Req
  /\ \A r \in Req : r \in params \/ dsched[r] # "absent"
                      => sched[r] # "active"

DInv == CInv /\ Known

\* The initial states satisfy the invariant.
LEMMA InitDInv == DTInit => DInv
  <1> SUFFICES ASSUME DTInit PROVE DInv
    OBVIOUS
  <1>1. CInv
    BY InitCInv DEF DTInit
  <1>2. Known
    BY DEF DTInit, P!Init, ChannelInit, ConsumerInit, Known
  <1> QED
    BY <1>1, <1>2 DEF DInv

\* No step of the producer makes a finished prefill active again, and its
\* params go out when it is finished.
LEMMA ProducerSched ==
  ASSUME Known, ProducerStep
  PROVE  /\ UNCHANGED consumerVars
         /\ dones' \subseteq dones
         /\ Known'
         /\ P!Next
  <1> USE DEF Known, restVars, P!engineVars
  <1>1. ASSUME NEW r \in Req, RequestFinished(r)
        PROVE  /\ UNCHANGED <<consumerVars, dones>> /\ Known'
               /\ P!Finishing(r)
    BY <1>1 DEF RequestFinished, P!RequestFinished, P!Finishing,
       consumerVars, dschedVars
  <1>2. ASSUME NEW r \in Req, Inside(P!RequestFinishedNoTransfer(r))
        PROVE  /\ UNCHANGED <<consumerVars, dones>> /\ Known'
               /\ P!Finishing(r)
    BY <1>2 DEF Inside, P!RequestFinishedNoTransfer, P!Finishing,
       consumerVars, dschedVars
  <1>3. ASSUME Inside(P!EngineStep)
        PROVE  UNCHANGED <<consumerVars, dones>> /\ Known'
    <2>1. UNCHANGED <<consumerVars, params>>
      BY <1>3 DEF Inside
    <2>2. CASE P!FreeDoneSending
      BY <2>1, <2>2 DEF P!FreeDoneSending, consumerVars, dschedVars
    <2>3. CASE ~ P!FreeDoneSending
      <3>1. UNCHANGED <<sched, dones>>
        BY <1>3, <2>3
        DEF Inside, P!EngineStep, P!BuildConnectorMeta, P!PrepareDirect,
            P!PrepareD2H, P!Forward, P!GetFinished, P!GetFinishedEarlyReturn
      <3> QED
        BY <2>1, <3>1 DEF consumerVars, dschedVars
    <2> QED
      BY <2>2, <2>3
  <1>4. ASSUME NEW r \in Req,
               \/ Inside(P!StartJob(r)) \/ Inside(P!JobStep(r))
               \/ Inside(P!HandlePullDone(r)) \/ Inside(P!LeaseDeadline(r))
        PROVE  UNCHANGED consumerVars /\ dones' \subseteq dones /\ Known'
    <2>1. UNCHANGED <<consumerVars, params>>
      BY <1>4 DEF Inside
    <2>2. UNCHANGED sched /\ dones' \subseteq dones
      BY <1>4 DEF Inside, P!StartJob, P!JobStep, P!GetBuffer, P!CopyToHost,
         P!CopyRaises, P!RegisterCopied, P!AwaitPull, P!HandlePullDone,
         P!LeaseDeadline
    <2> QED
      BY <2>1, <2>2 DEF consumerVars, dschedVars
  <1> QED
    BY <1>1, <1>2, <1>3, <1>4 DEF ProducerStep, Inside, P!Next

\* A step of the decoder notifies P or leaves it alone.
LEMMA DecoderIsEnvironment ==
  ASSUME DInv, DecoderStep PROVE Known' /\ (P!Next \/ UNCHANGED P!vars)
  <1> USE DEF Known, leaseVars, channelVars, dschedVars, consumerVars,
          P!vars, P!engineVars, P!entryVars, P!jobVars
  <1>0. UNCHANGED leaseVars
    BY DEF DecoderStep
  <1>1. ASSUME NEW r \in Req, LoadNotify(r)
        PROVE Known' /\ P!SendDone(r)
    <2>1. dsched[r] = "running"
      BY <1>1 DEF LoadNotify, DInv, CInv, ConsumerTypeOK, OneTransferInv
    <2>2. sched[r] # "active"
      BY <2>1 DEF DInv
    <2>3. dones' = dones \cup {r} /\ UNCHANGED <<dsched, params>>
      BY <1>1 DEF LoadNotify, Notify
    <2> QED
      BY <1>0, <2>2, <2>3 DEF P!SendDone, DInv
  <1>2. ASSUME NEW r \in Req, Arrive(r) \/ Scheduling(r) \/ Abort(r)
        PROVE Known' /\ UNCHANGED dones
    BY <1>0, <1>2 DEF Arrive, Scheduling, SchedulePull, ScheduleFullHit,
       ScheduleLoaded, Abort, DInv
  <1>3. ASSUME NEW r \in Req, LoadPull(r) \/ DirectPullStep(r)
        PROVE Known' /\ UNCHANGED dones
    BY <1>0, <1>3 DEF LoadPull, DirectPullStep, StartPull, PullTimeout,
       PullKV, DInv
  <1>4. ASSUME DBuildConnectorMeta \/ DForward \/ DGetFinished
        PROVE Known' /\ UNCHANGED dones
    BY <1>0, <1>4 DEF DBuildConnectorMeta, DForward, DGetFinished, DInv
  <1>5. ASSUME TakeReports PROVE Known' /\ UNCHANGED dones
    BY <1>0, <1>5 DEF TakeReports, DInv
  <1> QED
    BY <1>0, <1>1, <1>2, <1>3, <1>4, <1>5
    DEF DecoderStep, DEngineStep, P!Next

\* Every step keeps the decoder's invariant: a pull that returns has what P
\* has offered, which is the KV of the prefill.
LEMMA NextDInv == DInv /\ [DTNext]_dtVars => DInv'
  <1> SUFFICES ASSUME DInv, [DTNext]_dtVars PROVE DInv'
    OBVIOUS
  <1>1. CASE ProducerStep
    BY <1>1, ProducerSched, OthersKeepCInv DEF DInv
  <1>2. CASE UNCHANGED dtVars
    BY <1>2, OthersKeepCInv
    DEF dtVars, leaseVars, channelVars, consumerVars, dschedVars, DInv, Known
  <1>3. CASE DecoderStep
    <2>1. Known'
      BY <1>3, DecoderIsEnvironment
    <2>2. CASE DEngineStep
      BY <2>1, <2>2, EngineCInv DEF DInv
    <2>3. ASSUME NEW r \in Req, Arrive(r) \/ Scheduling(r) \/ Abort(r)
          PROVE CInv'
      BY <2>3, SchedulingCInv DEF DInv
    <2>4. ASSUME NEW r \in Req, StartPull(r) \/ PullTimeout(r) PROVE CInv'
      BY <2>4, PullCInv DEF StartPull, PullTimeout, channelVars, DInv
    <2>5. ASSUME NEW r \in Req, PullKV(r, OfferedKV(r)) PROVE CInv'
      <3>1. OfferedKV(r) = "original"
        BY <2>5 DEF PullKV, OfferedKV
      <3> QED
        BY <2>5, <3>1, PullKVCInv DEF DInv
    <2> QED
      BY <1>3, <2>1, <2>2, <2>3, <2>4, <2>5
      DEF DecoderStep, DirectPullStep, DInv
  <1> QED
    BY <1>1, <1>2, <1>3 DEF DTNext

\* The invariant holds in every reachable state of the composition.
THEOREM DTInvariant == DTSpec => []DInv
  BY InitDInv, NextDInv, PTL DEF DTSpec

\* The composition refines DirectProducer with its open environment: whatever
\* holds of P against any peer holds against this decoder.
THEOREM DTImplementsProducer == DTSpec => P!Spec
  <1>1. DTInit => P!Init
    BY DEF DTInit
  <1>2. DInv /\ [DTNext]_dtVars => [P!Next]_(P!vars)
    <2> SUFFICES ASSUME DInv, [DTNext]_dtVars PROVE [P!Next]_(P!vars)
      OBVIOUS
    <2>1. CASE ProducerStep
      BY <2>1, ProducerSched DEF DInv
    <2>2. CASE DecoderStep
      BY <2>2, DecoderIsEnvironment
    <2>3. CASE UNCHANGED dtVars
      BY <2>3 DEF dtVars, leaseVars, channelVars, P!vars, P!engineVars,
         P!entryVars, P!jobVars
    <2> QED
      BY <2>1, <2>2, <2>3 DEF DTNext
  <1> QED
    BY <1>1, <1>2, DTInvariant, PTL DEF DTSpec, P!Spec

\* Without plans, too, no request decodes without the KV of its prompt, but
\* for what a recomputation under the policy "recompute" may have got wrong
\* (get_finished(), D side).
THEOREM DecodesWithKVDirect == DTSpec => []DecodesWithOfferedKV
  <1>1. DInv => DecodesWithOfferedKV
    BY DEF DInv, CInv, Phases, LoadedInv, ConsumerTypeOK, DecodesWithOfferedKV
  <1> QED
    BY <1>1, DTInvariant, PTL

=============================================================================
