-------------------------- MODULE PDTransferProofs --------------------------
(***************************************************************************)
(* Proofs about KVProducer, for every set of requests, every set of plan   *)
(* kinds and every bound on the messages in flight; then about its         *)
(* composition with a decoder, for every set of requests: the decoder is   *)
(* one of the environments that KVProducer allows for, so the producer's   *)
(* theorems carry over; and the decoder's own safety properties, which     *)
(* rest on them.                                                           *)
(***************************************************************************)
EXTENDS PDTransfer, TLAPS

-----------------------------------------------------------------------------
(* The producer.                                                           *)

\* Where a request is in the hand-over from the scheduler to the worker and
\* back: nowhere, in exactly one of four places while it is held, or freed.
HandOver ==
  /\ \A r \in reqs_to_send \cup meta \cup doneSending \cup Tracked :
       sched[r] = "held"
  /\ reqs_to_send \cap meta = {}
  /\ (reqs_to_send \cup meta) \cap doneSending = {}
  /\ (reqs_to_send \cup meta \cup doneSending) \cap Tracked = {}
  /\ engine # "update" => doneSending = {}
  /\ \A r \in overwritten : sched[r] = "freed"
  /\ \A r \in Req : sched[r] = "active" => r \notin overdue

\* What a prepare job holds at each stage.
JobKV ==
  \A r \in Req :
    /\ gathered[r] = "stale" => sched[r] = "freed"
    /\ prep[r] = "store" => gathered[r] # "none"
    /\ prep[r] \in {"await", "publish"} => gathered[r] = "original"
    /\ prep[r] \in {"publish", "ok"} => awaiting[r] # "none"
    /\ prep[r] \in {"await", "publish"} /\ r \in uuid_map
         => kept[r] = "original"
    /\ r \in ready => prep[r] \in {"ok", "answered"}

\* A request that has a job is pending only until the job takes the entry,
\* and all that time it is claimed; before registration it has no job.
JobClaim ==
  \A r \in Req :
    /\ r \in reqs_pending_pull /\ prep[r] # "none"
         => r \in preparing /\ prep[r] \in {"queued", "fail"}
    /\ sched[r] = "active" \/ r \in reqs_to_send \cup meta => prep[r] = "none"

IInv ==
  /\ TypeOK
  /\ HandOver
  /\ JobKV
  /\ JobClaim
  /\ ServedKVIsOriginal
  /\ ReadyIsServed
  /\ PeerTablesFollowLease

USE DEF PlanMsg, Reply, Status, Stage, KV, channelVars, schedVars, tableVars,
        jobVars, listenVars, producerVars, vars

\* The initial state satisfies the inductive invariant.
LEMMA InitIInv == Init => IInv
  <1> USE PlanAssumption
  <1>1. ASSUME Plan # {} PROVE (CHOOSE p \in Plan : TRUE) \in Plan
    BY <1>1
  <1> QED
    BY <1>1 DEF Init, ChannelInit, ProducerInit, IInv, TypeOK, ChannelTypeOK,
       HandOver, JobKV, JobClaim, ServedKVIsOriginal, ReadyIsServed,
       PeerTablesFollowLease, Tracked

\* Every step keeps the inductive invariant: one step of the proof per action.
LEMMA NextIInv == IInv /\ [Next]_vars => IInv'
  <1> SUFFICES ASSUME IInv, [Next]_vars PROVE IInv'
    OBVIOUS
  <1> USE DEF IInv, TypeOK, ChannelTypeOK, HandOver, JobKV, JobClaim,
          ServedKVIsOriginal, ReadyIsServed, PeerTablesFollowLease, Tracked
  <1>1. ASSUME BuildConnectorMeta PROVE IInv'
    BY <1>1 DEF BuildConnectorMeta
  <1>2. ASSUME NEW r \in Req, PrepareKVAndWait(r) PROVE IInv'
    BY <1>2 DEF PrepareKVAndWait
  <1>3. ASSUME NEW S \in SUBSET Req, Forward(S) PROVE IInv'
    BY <1>3 DEF Forward
  <1>4. ASSUME GetFinished PROVE IInv'
    BY <1>4 DEF GetFinished, Expired, Swept, Pruned, NothingRegistered
  <1>5. ASSUME GetFinishedEarlyReturn PROVE IInv'
    BY <1>5 DEF GetFinishedEarlyReturn, NothingRegistered
  <1>6. ASSUME FreeDoneSending PROVE IInv'
    BY <1>6 DEF FreeDoneSending
  <1>7. ASSUME NEW r \in Req, RequestFinished(r) PROVE IInv'
    BY <1>7 DEF RequestFinished
  <1>8. ASSUME NEW r \in Req, RequestFinishedNoTransfer(r) PROVE IInv'
    BY <1>8 DEF RequestFinishedNoTransfer
  <1>9. ASSUME NEW m \in PlanMsg, ReceivePlan(m) PROVE IInv'
    BY <1>9 DEF ReceivePlan, Answer, NeedsClaim, PlanStatus, Pruned
  <1>10. ASSUME NEW m \in PlanMsg, ClaimPlan(m) PROVE IInv'
    BY <1>10 DEF ClaimPlan, Claimable, Claimed
  <1>11. ASSUME NEW m \in PlanMsg, ClaimLost(m) PROVE IInv'
    BY <1>11 DEF ClaimLost, Claimable, Answer
  <1>12. ASSUME NEW r \in Req, HandlePullDone(r) PROVE IInv'
    BY <1>12 DEF HandlePullDone
  <1>13. ASSUME DrainResponses PROVE IInv'
    BY <1>13 DEF DrainResponses, Settled, JobReply
  <1>14. ASSUME NEW r \in Req, TakePending(r) PROVE IInv'
    BY <1>14 DEF TakePending
  <1>15. ASSUME NEW r \in Req, GatherKV(r) PROVE IInv'
    BY <1>15 DEF GatherKV
  <1>16. ASSUME NEW r \in Req, StoreKV(r) PROVE IInv'
    BY <1>16 DEF StoreKV, StillHeld
  <1>17. ASSUME NEW r \in Req, AwaitPull(r) PROVE IInv'
    BY <1>17 DEF AwaitPull
  <1>18. ASSUME NEW r \in Req, PublishReady(r) PROVE IInv'
    BY <1>18 DEF PublishReady, StillHeld
  <1>19. ASSUME NEW r \in Req, FailSelectivePull(r) PROVE IInv'
    BY <1>19 DEF FailSelectivePull
  <1>20. ASSUME NEW r \in Req, LeaseDeadline(r) PROVE IInv'
    BY <1>20 DEF LeaseDeadline
  <1>21. ASSUME NEW r \in Req, TombstoneLapse(r) PROVE IInv'
    BY <1>21 DEF TombstoneLapse
  <1>22. ASSUME NEW m \in PlanMsg, SendPlan(m) PROVE IInv'
    BY <1>22 DEF SendPlan
  <1>23. ASSUME NEW r \in Req, SendDone(r) PROVE IInv'
    BY <1>23 DEF SendDone
  <1>24. ASSUME NEW m \in Reply, TakeReply(m) PROVE IInv'
    BY <1>24 DEF TakeReply
  <1>25. CASE UNCHANGED vars
    BY <1>25
  <1> QED
    BY <1>1, <1>2, <1>3, <1>4, <1>5, <1>6, <1>7, <1>8, <1>9, <1>10, <1>11,
       <1>12, <1>13, <1>14, <1>15, <1>16, <1>17, <1>18, <1>19, <1>20, <1>21,
       <1>22, <1>23, <1>24, <1>25
    DEF Next, ProducerNext, EnvironmentNext, EngineStep, ListenerStep, JobStep,
        Finishing, Clock

\* The inductive invariant holds in every reachable state.
THEOREM SpecIInv == Spec => []IInv
  <1>1. Init => IInv
    BY InitIInv
  <1>2. IInv /\ [Next]_vars => IInv'
    BY NextIInv
  <1> QED
    BY <1>1, <1>2, PTL DEF Spec

\* The variables of the producer and of the side channel keep their types.
THEOREM TypeCorrect == Spec => []TypeOK
  <1>1. IInv => TypeOK
    BY DEF IInv
  <1> QED
    BY <1>1, SpecIInv, PTL

\* D is never offered a block that was reused for another request, however the
\* engine's sweep, the listener and the prepare jobs interleave.
THEOREM ServedOriginal == Spec => []ServedKVIsOriginal
  <1>1. IInv => ServedKVIsOriginal
    BY DEF IInv
  <1> QED
    BY <1>1, SpecIInv, PTL

\* A "ready" uuid, and a "ready" reply, has an await_pull behind it.
THEOREM ReadyServed == Spec => []ReadyIsServed
  <1>1. IInv => ReadyIsServed
    BY DEF IInv
  <1> QED
    BY <1>1, SpecIInv, PTL

\* The uuid tables never outlive the lease they were filled for.
THEOREM TablesFollowLease == Spec => []PeerTablesFollowLease
  <1>1. IInv => PeerTablesFollowLease
    BY DEF IInv
  <1> QED
    BY <1>1, SpecIInv, PTL

\* No request is reported to the scheduler twice, or outside its hold.
THEOREM ReleasedOnce == Spec => []NoDoubleRelease
  <1>1. IInv => NoDoubleRelease
    BY DEF IInv, HandOver, NoDoubleRelease
  <1> QED
    BY <1>1, SpecIInv, PTL

\* Duplicate plans never launch a second gather.
THEOREM PreparedOnce == Spec => AtMostOnePreparation
  <1> DEFINE Step == \A m \in PlanMsg : ClaimPlan(m) => prep[m.req] = "none"
  <1>1. IInv => Step
    BY DEF IInv, TypeOK, JobClaim, ClaimPlan, Claimable
  <1>2. IInv /\ [Next]_vars => [Step]_vars
    BY <1>1
  <1> QED
    BY <1>2, SpecIInv, PTL DEF Spec, AtMostOnePreparation

-----------------------------------------------------------------------------
(* KVProducer implements TransferLease.                                    *)

\* The initial states are initial states of the lease.
LEMMA InitLease == Init => Lease!LeaseInit
  BY DEF Init, ProducerInit, Lease!LeaseInit, LeaseOf

LeaseFn == [r \in Req |-> LeaseOf(r)]
CopiedSet == {r \in Req : prep[r] = "await" \/ awaiting[r] # "none"}
ServedSet == {r \in Req : awaiting[r] # "none"}

\* A step that moves nothing the lease is made of is a stutter of the lease.
LEMMA Stutter ==
  ASSUME LeaseFn' = LeaseFn, CopiedSet' = CopiedSet, ServedSet' = ServedSet
  PROVE  UNCHANGED Lease!leaseVars
  BY DEF LeaseFn, CopiedSet, ServedSet, Lease!leaseVars

\* What changes the lease of one request is an EXCEPT on the mapped function.
LEMMA OneLease ==
  ASSUME NEW r \in Req, NEW v,
         LeaseOf(r)' = v, \A s \in Req \ {r} : LeaseOf(s)' = LeaseOf(s)
  PROVE  LeaseFn' = [LeaseFn EXCEPT ![r] = v]
  BY DEF LeaseFn

\* What changes the lease of a set of requests, likewise.
LEMMA SomeLeases ==
  ASSUME NEW S \in SUBSET Req, NEW v,
         \A s \in S : LeaseOf(s)' = v,
         \A s \in Req \ S : LeaseOf(s)' = LeaseOf(s)
  PROVE  LeaseFn' = [s \in Req |-> IF s \in S THEN v ELSE LeaseFn[s]]
  BY DEF LeaseFn

\* Every step of the producer is a step of the lease, or leaves it unchanged.
LEMMA NextLease ==
  IInv /\ [Next]_vars => [Lease!LeaseNext]_(Lease!leaseVars)
  <1> SUFFICES ASSUME IInv, [Next]_vars
               PROVE  [Lease!LeaseNext]_(Lease!leaseVars)
    OBVIOUS
  <1> USE DEF IInv, TypeOK, HandOver, JobKV, JobClaim, PeerTablesFollowLease,
          Tracked, LeaseOf, LeaseFn, CopiedSet, ServedSet
  <1> DEFINE LeaseStep == [Lease!LeaseNext]_(Lease!leaseVars)
  <1>1. ASSUME BuildConnectorMeta PROVE LeaseStep
    BY <1>1, Stutter DEF BuildConnectorMeta
  <1>2. ASSUME NEW r \in Req, PrepareKVAndWait(r) PROVE LeaseStep
    BY <1>2, Stutter DEF PrepareKVAndWait
  <1>3. ASSUME NEW S \in SUBSET Req, Forward(S) PROVE LeaseStep
    BY <1>3, Stutter DEF Forward
  <1>4. ASSUME GetFinished PROVE LeaseStep
    <2>1. CASE Expired # {}
      <3>1. Lease!Release(Expired)
        <4>1. \A r \in Expired :
                LeaseOf(r) = "closing" /\ LeaseOf(r)' = "released"
          BY <1>4 DEF GetFinished, Expired
        <4>2. \A r \in Req \ Expired : LeaseOf(r)' = LeaseOf(r)
          BY <1>4 DEF GetFinished, Expired
        <4>3. CopiedSet' = CopiedSet /\ ServedSet' = ServedSet
          BY <1>4 DEF GetFinished
        <4>4. Expired \in SUBSET Req
          BY DEF Expired
        <4>5. LeaseFn' = [r \in Req |-> IF r \in Expired THEN "released"
                                                      ELSE LeaseFn[r]]
          BY <4>1, <4>2, <4>4, SomeLeases
        <4> HIDE DEF LeaseOf
        <4> QED
          BY <2>1, <4>1, <4>3, <4>4, <4>5 DEF Lease!Release
      <3>2. Expired \in SUBSET Req
        BY DEF Expired
      <3>3. \E S \in SUBSET Req : Lease!Release(S)
        <4> HIDE DEF LeaseOf
        <4> QED
          BY <3>1, <3>2 DEF Lease!Release
      <3> QED
        BY <3>3 DEF Lease!LeaseNext
    <2>2. CASE Expired = {}
      BY <1>4, <2>2, Stutter
      DEF GetFinished, Expired, Swept, Pruned, NothingRegistered
    <2> QED
      BY <2>1, <2>2
  <1>5. ASSUME GetFinishedEarlyReturn PROVE LeaseStep
    BY <1>5, Stutter DEF GetFinishedEarlyReturn, NothingRegistered
  <1>6. ASSUME FreeDoneSending PROVE LeaseStep
    BY <1>6, Stutter DEF FreeDoneSending
  <1>7. ASSUME NEW r \in Req, RequestFinished(r) PROVE LeaseStep
    <2>1. Lease!Grant(r)
      <3>1. LeaseOf(r) = "none" /\ LeaseOf(r)' = "held"
        BY <1>7 DEF RequestFinished
      <3>2. \A s \in Req \ {r} : LeaseOf(s)' = LeaseOf(s)
        BY <1>7 DEF RequestFinished
      <3>3. CopiedSet' = CopiedSet /\ ServedSet' = ServedSet
        BY <1>7 DEF RequestFinished
      <3>4. LeaseFn' = [LeaseFn EXCEPT ![r] = "held"]
        BY <3>1, <3>2, OneLease
      <3> HIDE DEF LeaseOf
      <3> QED
        BY <3>1, <3>3, <3>4 DEF Lease!Grant
    <2> QED
      BY <2>1 DEF Lease!LeaseNext
  <1>8. ASSUME NEW r \in Req, RequestFinishedNoTransfer(r) PROVE LeaseStep
    <2>1. Lease!Decline(r)
      <3>1. LeaseOf(r) = "none" /\ LeaseOf(r)' = "released"
        BY <1>8 DEF RequestFinishedNoTransfer
      <3>2. \A s \in Req \ {r} : LeaseOf(s)' = LeaseOf(s)
        BY <1>8 DEF RequestFinishedNoTransfer
      <3>3. CopiedSet' = CopiedSet /\ ServedSet' = ServedSet
        BY <1>8 DEF RequestFinishedNoTransfer
      <3>4. LeaseFn' = [LeaseFn EXCEPT ![r] = "released"]
        BY <3>1, <3>2, OneLease
      <3> HIDE DEF LeaseOf
      <3> QED
        BY <3>1, <3>3, <3>4 DEF Lease!Decline
    <2> QED
      BY <2>1 DEF Lease!LeaseNext
  <1>9. ASSUME NEW m \in PlanMsg, ReceivePlan(m) PROVE LeaseStep
    BY <1>9, Stutter DEF ReceivePlan, Answer, NeedsClaim, PlanStatus, Pruned
  <1>10. ASSUME NEW m \in PlanMsg, ClaimPlan(m) PROVE LeaseStep
    BY <1>10, Stutter DEF ClaimPlan, Claimable, Claimed
  <1>11. ASSUME NEW m \in PlanMsg, ClaimLost(m) PROVE LeaseStep
    BY <1>11, Stutter DEF ClaimLost, Claimable, Answer
  <1>12. ASSUME NEW r \in Req, HandlePullDone(r) PROVE LeaseStep
    <2>1. CASE LeaseOf(r) = "held" /\ LeaseOf(r)' = "closing"
      <3>1. Lease!Close(r)
        <4>1. LeaseOf(r) = "held" /\ LeaseOf(r)' = "closing"
          BY <1>12, <2>1 DEF HandlePullDone
        <4>2. \A s \in Req \ {r} : LeaseOf(s)' = LeaseOf(s)
          BY <1>12, <2>1 DEF HandlePullDone
        <4>3. CopiedSet' = CopiedSet /\ ServedSet' = ServedSet
          BY <1>12, <2>1 DEF HandlePullDone
        <4>4. LeaseFn' = [LeaseFn EXCEPT ![r] = "closing"]
          BY <4>1, <4>2, OneLease
        <4> HIDE DEF LeaseOf
        <4> QED
          BY <4>1, <4>3, <4>4 DEF Lease!Close
      <3> QED
        BY <3>1 DEF Lease!LeaseNext
    <2>2. CASE LeaseOf(r)' = LeaseOf(r)
      BY <1>12, <2>2, Stutter DEF HandlePullDone
    <2> QED
      BY <1>12, <2>1, <2>2 DEF HandlePullDone
  <1>13. ASSUME DrainResponses PROVE LeaseStep
    BY <1>13, Stutter DEF DrainResponses, Settled, JobReply
  <1>14. ASSUME NEW r \in Req, TakePending(r) PROVE LeaseStep
    BY <1>14, Stutter DEF TakePending
  <1>15. ASSUME NEW r \in Req, GatherKV(r) PROVE LeaseStep
    BY <1>15, Stutter DEF GatherKV
  <1>16. ASSUME NEW r \in Req, StoreKV(r) PROVE LeaseStep
    <2>1. CASE r \in Tracked
      <3>1. Lease!Copy(r)
        BY <1>16, <2>1 DEF StoreKV, StillHeld, Lease!Copy
      <3> QED
        BY <3>1 DEF Lease!LeaseNext
    <2>2. CASE r \notin Tracked
      BY <1>16, <2>2, Stutter DEF StoreKV, StillHeld
    <2> QED
      BY <2>1, <2>2
  <1>17. ASSUME NEW r \in Req, AwaitPull(r) PROVE LeaseStep
    <2>1. CASE UNCHANGED awaiting /\ prep' = [prep EXCEPT ![r] = "fail"]
      <3>1. CASE awaiting[r] = "none"
        <4>1. Lease!Discard(r)
          BY <1>17, <2>1, <3>1 DEF AwaitPull, Lease!Discard
        <4> QED
          BY <4>1 DEF Lease!LeaseNext
      <3>2. CASE awaiting[r] # "none"
        BY <1>17, <2>1, <3>2, Stutter DEF AwaitPull
      <3> QED
        BY <3>1, <3>2
    <2>2. CASE prep' = [prep EXCEPT ![r] = "publish"]
      <3>1. Lease!Serve(r)
        BY <1>17, <2>2 DEF AwaitPull, Lease!Serve
      <3> QED
        BY <3>1 DEF Lease!LeaseNext
    <2> QED
      BY <1>17, <2>1, <2>2 DEF AwaitPull
  <1>18. ASSUME NEW r \in Req, PublishReady(r) PROVE LeaseStep
    BY <1>18, Stutter DEF PublishReady, StillHeld
  <1>19. ASSUME NEW r \in Req, FailSelectivePull(r) PROVE LeaseStep
    <2>1. CASE LeaseOf(r) = "held" /\ LeaseOf(r)' = "closing"
      <3>1. Lease!Close(r)
        <4>1. LeaseOf(r) = "held" /\ LeaseOf(r)' = "closing"
          BY <1>19, <2>1 DEF FailSelectivePull
        <4>2. \A s \in Req \ {r} : LeaseOf(s)' = LeaseOf(s)
          BY <1>19, <2>1 DEF FailSelectivePull
        <4>3. CopiedSet' = CopiedSet /\ ServedSet' = ServedSet
          BY <1>19, <2>1 DEF FailSelectivePull
        <4>4. LeaseFn' = [LeaseFn EXCEPT ![r] = "closing"]
          BY <4>1, <4>2, OneLease
        <4> HIDE DEF LeaseOf
        <4> QED
          BY <4>1, <4>3, <4>4 DEF Lease!Close
      <3> QED
        BY <3>1 DEF Lease!LeaseNext
    <2>2. CASE LeaseOf(r)' = LeaseOf(r)
      BY <1>19, <2>2, Stutter DEF FailSelectivePull
    <2> QED
      BY <1>19, <2>1, <2>2 DEF FailSelectivePull
  <1>20. ASSUME NEW r \in Req, LeaseDeadline(r) PROVE LeaseStep
    <2>1. CASE LeaseOf(r) = "held" /\ LeaseOf(r)' = "closing"
      <3>1. Lease!Close(r)
        <4>1. LeaseOf(r) = "held" /\ LeaseOf(r)' = "closing"
          BY <1>20, <2>1 DEF LeaseDeadline
        <4>2. \A s \in Req \ {r} : LeaseOf(s)' = LeaseOf(s)
          BY <1>20, <2>1 DEF LeaseDeadline
        <4>3. CopiedSet' = CopiedSet /\ ServedSet' = ServedSet
          BY <1>20, <2>1 DEF LeaseDeadline
        <4>4. LeaseFn' = [LeaseFn EXCEPT ![r] = "closing"]
          BY <4>1, <4>2, OneLease
        <4> HIDE DEF LeaseOf
        <4> QED
          BY <4>1, <4>3, <4>4 DEF Lease!Close
      <3> QED
        BY <3>1 DEF Lease!LeaseNext
    <2>2. CASE LeaseOf(r)' = LeaseOf(r)
      BY <1>20, <2>2, Stutter DEF LeaseDeadline
    <2> QED
      BY <1>20, <2>1, <2>2 DEF LeaseDeadline
  <1>21. ASSUME NEW r \in Req, TombstoneLapse(r) PROVE LeaseStep
    BY <1>21, Stutter DEF TombstoneLapse
  <1>22. ASSUME NEW m \in PlanMsg, SendPlan(m) PROVE LeaseStep
    BY <1>22, Stutter DEF SendPlan
  <1>23. ASSUME NEW r \in Req, SendDone(r) PROVE LeaseStep
    BY <1>23, Stutter DEF SendDone
  <1>24. ASSUME NEW m \in Reply, TakeReply(m) PROVE LeaseStep
    BY <1>24, Stutter DEF TakeReply
  <1>25. CASE UNCHANGED vars
    BY <1>25, Stutter
  <1> QED
    BY <1>1, <1>2, <1>3, <1>4, <1>5, <1>6, <1>7, <1>8, <1>9, <1>10, <1>11,
       <1>12, <1>13, <1>14, <1>15, <1>16, <1>17, <1>18, <1>19, <1>20, <1>21,
       <1>22, <1>23, <1>24, <1>25
    DEF Next, ProducerNext, EnvironmentNext, EngineStep, ListenerStep, JobStep,
        Finishing, Clock

\* The producer implements the lease: blocks are released only after D's
\* notification, a failed preparation or the deadline, and D is offered only
\* a copy that was taken while they were held.
THEOREM LeaseImplemented == Spec => ImplementsLease
  <1>1. Init => Lease!LeaseInit
    BY InitLease
  <1>2. IInv /\ [Next]_vars => [Lease!LeaseNext]_(Lease!leaseVars)
    BY NextLease
  <1> QED
    BY <1>1, <1>2, SpecIInv, PTL DEF Spec, ImplementsLease, Lease!LeaseSpec

HIDE DEF PlanMsg, Reply, Status, Stage, KV, channelVars, schedVars, tableVars,
         jobVars, listenVars, producerVars, vars

-----------------------------------------------------------------------------
(* The decoder as an environment of the producer.                          *)

\* A step of the decoder is a plan sent, a notification sent or a reply
\* taken, or it leaves the producer and the channel alone.
LEMMA ConsumerIsEnvironment ==
  ConsumerStep => EnvironmentNext \/ UNCHANGED vars
  <1> SUFFICES ASSUME ConsumerStep PROVE EnvironmentNext \/ UNCHANGED vars
    OBVIOUS
  <1> USE DEF channelVars, vars, consumerVars, EnvironmentNext
  <1>0. UNCHANGED producerVars
    BY DEF ConsumerStep
  <1>1. ASSUME NEW r \in Req, LoadNotify(r) PROVE SendDone(r)
    BY <1>0, <1>1 DEF LoadNotify, Notify, SendDone
  <1>2. ASSUME NEW r \in Req, AskPlan(r)
        PROVE \E m \in PlanMsg : SendPlan(m)
    <2> DEFINE m == [req |-> r, plan |-> "suffix"]
    <2>1. m \in PlanMsg
      BY ConsumerAssumption DEF PlanMsg
    <2>2. SendPlan(m)
      BY <1>0, <1>2 DEF AskPlan, SendPlan
    <2> QED
      BY <2>1, <2>2
  <1>3. ASSUME NEW m \in Reply, PlanReply(m) \/ DropReply(m) PROVE TakeReply(m)
    BY <1>0, <1>3 DEF PlanReply, DropReply, TakeReply
  <1>4. CASE UNCHANGED channelVars
    BY <1>0, <1>4
  <1>5. ASSUME NEW r \in Req,
               \/ Arrive(r) \/ Scheduling(r) \/ Abort(r) \/ LoadPull(r)
               \/ PullTimeout(r) \/ PullKV(r, awaiting[r])
        PROVE UNCHANGED channelVars
    BY <1>5 DEF Arrive, Scheduling, SchedulePull, ScheduleFullHit,
       ScheduleLoaded, Abort, LoadPull, PullTimeout, PullKV
  <1>6. ASSUME DBuildConnectorMeta \/ DForward \/ DGetFinished \/ TakeReports
        PROVE UNCHANGED channelVars
    BY <1>6 DEF DBuildConnectorMeta, DForward, DGetFinished, TakeReports
  <1> QED
    BY <1>1, <1>2, <1>3, <1>4, <1>5, <1>6
    DEF ConsumerStep, ConsumerNext, DEngineStep, PullStep

\* Every step of the composition is a step of KVProducer.
LEMMA PDNextIsNext == [PDNext]_pdVars => [Next]_vars
  BY ConsumerIsEnvironment DEF PDNext, ProducerStep, Next, pdVars

\* The composition refines KVProducer with its open environment: whatever
\* holds of P against any peer holds against this decoder.
THEOREM PDImplementsProducer == PDSpec => Spec
  BY PDNextIsNext, PTL DEF PDSpec, PDInit, Spec

\* In the composition, too, the transfer server offers D only the KV that the
\* prefill computed (the rechecks in _prepare_selective_kv()).
THEOREM PDServedOriginal == PDSpec => []ServedKVIsOriginal
  BY PDImplementsProducer, ServedOriginal, PTL

-----------------------------------------------------------------------------
(* The decoder's invariant, by groups of its actions.                      *)

\* The initial state satisfies the decoder's inductive invariant.
LEMMA InitCInv == ChannelInit /\ ConsumerInit => CInv
  BY DEF ChannelInit, ConsumerInit, CInv, ConsumerTypeOK, LoadKind, Phases,
     OneTransferInv, PullInv, LoadedInv, HasKV, RecomputedKV, Active

\* A step of somebody else can only take a notification off the channel.
LEMMA OthersKeepCInv ==
  ASSUME CInv, UNCHANGED consumerVars, dones' \subseteq dones PROVE CInv'
  BY DEF CInv, ConsumerTypeOK, Phases, OneTransferInv, PullInv, LoadedInv,
     HasKV, RecomputedKV, Active, consumerVars, dschedVars, pullVars

\* The steps of D's scheduler.
LEMMA SchedulingCInv ==
  ASSUME CInv, NEW r \in Req, Arrive(r) \/ Scheduling(r) \/ Abort(r)
  PROVE  CInv'
  <1> USE DEF CInv, ConsumerTypeOK, LoadKind, Phases, OneTransferInv, PullInv,
          LoadedInv, HasKV, RecomputedKV, Active, channelVars, pullVars
  <1>1. ASSUME Arrive(r) PROVE CInv'
    BY <1>1 DEF Arrive
  <1>2. ASSUME SchedulePull(r) PROVE CInv'
    BY <1>2 DEF SchedulePull, OneTransfer
  <1>3. ASSUME ScheduleFullHit(r) PROVE CInv'
    BY <1>3 DEF ScheduleFullHit, OneTransfer
  <1>4. ASSUME ScheduleLoaded(r) PROVE CInv'
    BY <1>4 DEF ScheduleLoaded, Recomputed
  <1>5. ASSUME Abort(r) PROVE CInv'
    BY <1>5 DEF Abort
  <1> QED
    BY <1>1, <1>2, <1>3, <1>4, <1>5 DEF Scheduling

\* The steps of D's engine.
LEMMA EngineCInv == ASSUME CInv, DEngineStep PROVE CInv'
  <1> USE DEF CInv, ConsumerTypeOK, LoadKind, Phases, OneTransferInv, PullInv,
          LoadedInv, HasKV, RecomputedKV, Active, channelVars, dschedVars,
          pullVars
  <1>1. ASSUME DBuildConnectorMeta PROVE CInv'
    BY <1>1 DEF DBuildConnectorMeta
  <1>2. ASSUME NEW r \in Req, LoadPull(r) PROVE CInv'
    BY <1>2 DEF LoadPull, Processed
  <1>3. ASSUME NEW r \in Req, LoadNotify(r) PROVE CInv'
    BY <1>3 DEF LoadNotify, Processed, Notify
  <1>4. ASSUME DForward PROVE CInv'
    BY <1>4 DEF DForward
  <1>5. ASSUME DGetFinished PROVE CInv'
    BY <1>5 DEF DGetFinished, PullReturned, FailuresRemembered
  <1>6. ASSUME TakeReports PROVE CInv'
    BY <1>6, ConsumerAssumption DEF TakeReports
  <1> QED
    BY <1>1, <1>2, <1>3, <1>4, <1>5, <1>6 DEF DEngineStep

\* A pull thread that goes on, without or with the KV of the prefill.
LEMMA PullCInv ==
  ASSUME CInv, NEW r \in Req,
         \/ pull[r] = "ask" /\ pull' = [pull EXCEPT ![r] = "reply"]
         \/ pull[r] = "ask" /\ pull' = [pull EXCEPT ![r] = "pull"]
         \/ /\ pull[r] = "reply"
            /\ \E status \in Status :
                 pull' = [pull EXCEPT ![r] = AfterReply(status)]
         \/ UnderDeadline(r) /\ pull' = [pull EXCEPT ![r] = "failed"],
         UNCHANGED <<dones, dschedVars, dengine, dmeta, reqs_pulling, pulled,
                     cache>>
  PROVE  CInv'
  BY DEF CInv, ConsumerTypeOK, Phases, OneTransferInv, PullInv, LoadedInv,
     HasKV, RecomputedKV, Active, dschedVars, AfterReply, Status,
     UnderDeadline

\* A pull that returns the KV of the prefill.
LEMMA PullKVCInv ==
  ASSUME CInv, NEW r \in Req, PullKV(r, "original") PROVE CInv'
  BY DEF CInv, ConsumerTypeOK, Phases, OneTransferInv, PullInv, LoadedInv,
     HasKV, RecomputedKV, Active, dschedVars, channelVars, PullKV

-----------------------------------------------------------------------------
(* The decoder's invariant beside this producer.                           *)

\* A step of the producer can only take a notification off the channel.
LEMMA ProducerKeepsDecoder ==
  ASSUME ProducerStep PROVE UNCHANGED consumerVars /\ dones' \subseteq dones
  <1>1. ProducerNext /\ UNCHANGED consumerVars
    BY DEF ProducerStep
  <1> USE DEF channelVars
  <1>2. EngineStep => dones' = dones
    BY DEF EngineStep, BuildConnectorMeta, PrepareKVAndWait, Forward,
       GetFinished, GetFinishedEarlyReturn, FreeDoneSending
  <1>3. ListenerStep => dones' \subseteq dones
    BY DEF ListenerStep, ReceivePlan, ClaimPlan, ClaimLost, HandlePullDone,
       DrainResponses
  <1>4. ASSUME NEW r \in Req, JobStep(r) PROVE dones' = dones
    BY <1>4 DEF JobStep, TakePending, GatherKV, StoreKV, AwaitPull,
       PublishReady, FailSelectivePull
  <1>5. ASSUME NEW r \in Req, Finishing(r) \/ Clock(r) PROVE dones' = dones
    BY <1>5 DEF Finishing, Clock, RequestFinished, RequestFinishedNoTransfer,
       LeaseDeadline, TombstoneLapse
  <1> QED
    BY <1>1, <1>2, <1>3, <1>4, <1>5 DEF ProducerNext

\* Every step keeps the decoder's invariant, given what the producer serves.
LEMMA NextCInv == IInv /\ CInv /\ [PDNext]_pdVars => CInv'
  <1> SUFFICES ASSUME IInv, CInv, [PDNext]_pdVars PROVE CInv'
    OBVIOUS
  <1>1. CASE ProducerStep
    BY <1>1, ProducerKeepsDecoder, OthersKeepCInv
  <1>2. CASE UNCHANGED pdVars
    BY <1>2, OthersKeepCInv DEF pdVars, vars, channelVars
  <1>3. CASE DEngineStep
    BY <1>3, EngineCInv
  <1>4. ASSUME NEW r \in Req, Arrive(r) \/ Scheduling(r) \/ Abort(r)
        PROVE CInv'
    BY <1>4, SchedulingCInv
  <1>5. ASSUME NEW r \in Req, AskPlan(r) \/ PullTimeout(r) PROVE CInv'
    BY <1>5, PullCInv DEF AskPlan, PullTimeout, channelVars
  <1>6. ASSUME NEW m \in Reply, PlanReply(m) PROVE CInv'
    BY <1>6, PullCInv DEF PlanReply, Reply
  <1>7. ASSUME NEW m \in Reply, DropReply(m) PROVE CInv'
    BY <1>7, OthersKeepCInv DEF DropReply
  <1>8. ASSUME NEW r \in Req, PullKV(r, awaiting[r]) PROVE CInv'
    <2>1. awaiting[r] = "original"
      BY <1>8 DEF PullKV, IInv, TypeOK, ServedKVIsOriginal, KV
    <2> QED
      BY <1>8, <2>1, PullKVCInv
  <1> QED
    BY <1>1, <1>2, <1>3, <1>4, <1>5, <1>6, <1>7, <1>8
    DEF PDNext, ConsumerStep, ConsumerNext, PullStep

\* Both invariants hold in every reachable state of the composition.
THEOREM PDInvariants == PDSpec => [](IInv /\ CInv)
  <1>1. PDInit => CInv
    BY InitCInv DEF PDInit, Init
  <1>2. IInv /\ CInv /\ [PDNext]_pdVars => CInv'
    BY NextCInv
  <1>3. PDSpec => []IInv
    BY PDImplementsProducer, SpecIInv, PTL
  <1> QED
    BY <1>1, <1>2, <1>3, PTL DEF PDSpec

\* The variables of both sides keep their types.
THEOREM PDTypeCorrect == PDSpec => []PDTypeOK
  <1>1. IInv /\ CInv => PDTypeOK
    BY DEF IInv, CInv, PDTypeOK
  <1> QED
    BY <1>1, PDInvariants, PTL

\* No request decodes without the KV of its prompt, whatever path it took
\* through pull, failure and abort (get_finished(), D side); under the policy
\* "recompute" all that is excepted is what a recomputation may have got wrong.
THEOREM DecodesWithKV == PDSpec => []NoDecodeWithoutKV
  <1>1. CInv => NoDecodeWithoutKV
    BY DEF CInv, Phases, LoadedInv, ConsumerTypeOK, NoDecodeWithoutKV
  <1> QED
    BY <1>1, PDInvariants, PTL

\* The notification that lets P free the blocks never overtakes D's own pull
\* of them (process_send_load() and get_finished()).
THEOREM AckNeverEarly == PDSpec => []AckMeansDone
  <1>1. IInv /\ CInv => AckMeansDone
    BY DEF IInv, TypeOK, ChannelTypeOK, CInv, ConsumerTypeOK, OneTransferInv,
       PullInv, Active, AckMeansDone
  <1> QED
    BY <1>1, PDInvariants, PTL

\* A request's pull is submitted once (update_state_after_alloc() and
\* process_send_load()).
THEOREM PulledOnce == PDSpec => PullsOnce
  <1> DEFINE Step == \A r \in Req : LoadPull(r) => pull[r] = "none"
  <1>1. CInv => Step
    BY DEF CInv, OneTransferInv, LoadPull
  <1>2. CInv /\ [PDNext]_pdVars => [Step]_pdVars
    BY <1>1
  <1> QED
    BY <1>2, PDInvariants, PTL DEF PDSpec, PullsOnce

-----------------------------------------------------------------------------
(* Under kv_load_failure_policy "fail" a ready uuid belongs to a lease.    *)

\* P prepares only what D asked for, and D pulls only what P has prepared.
PeerInv ==
  \A r \in Req :
    /\ pull[r] = "none" => /\ \A m \in plans \cup claim : m.req # r
                           /\ prep[r] = "none"
    /\ pull[r] \in {"pull", "ok"}
         \/ [req |-> r, status |-> "ready"] \in replies
         => prep[r] \in {"ok", "answered"}

\* A request that decodes, and may notify P, did not pull or pulled it all.
FailInv ==
  LoadFailurePolicy = "fail" =>
    \A r \in Req : dsched[r] \in {"running", "loaded"}
                    => pull[r] \in {"none", "ok"}

\* So no notification arrives while the request is being prepared, and the
\* uuid of a preparation stays mapped as long as its lease is registered.
MappedInv ==
  LoadFailurePolicy = "fail" =>
    /\ ready \subseteq uuid_map
    /\ \A r \in Tracked :
         prep[r] \in {"queued", "gather", "store", "await", "publish"}
           => r \in uuid_map

\* The initial state satisfies these three.
LEMMA InitPeerInv == PDInit => PeerInv /\ FailInv /\ MappedInv
  BY DEF PDInit, Init, ChannelInit, ProducerInit, ConsumerInit, PeerInv,
     FailInv, MappedInv, Tracked

\* A step of the decoder keeps the first two, and cannot touch the third.
LEMMA ConsumerPeerInv ==
  ASSUME IInv, CInv, PeerInv, FailInv, ConsumerStep PROVE PeerInv' /\ FailInv'
  <1> USE DEF IInv, TypeOK, ChannelTypeOK, CInv, ConsumerTypeOK, LoadKind,
          OneTransferInv, PullInv, LoadedInv, Active, PeerInv, FailInv,
          PlanMsg, Reply, Status, channelVars, dschedVars, pullVars,
          consumerVars
  <1> DEFINE Goal == PeerInv' /\ FailInv'
  <1>0. UNCHANGED <<claim, prep, awaiting>>
    BY DEF ConsumerStep, producerVars, jobVars, listenVars
  <1>1. ASSUME NEW r \in Req, Arrive(r) \/ Scheduling(r) \/ Abort(r)
        PROVE Goal
    BY <1>0, <1>1
    DEF Arrive, Scheduling, SchedulePull, ScheduleFullHit, ScheduleLoaded,
        Recomputed, OneTransfer, Abort
  <1>2. ASSUME NEW r \in Req, LoadPull(r) \/ LoadNotify(r) PROVE Goal
    BY <1>0, <1>2 DEF LoadPull, LoadNotify, Processed, Notify
  <1>3. ASSUME DBuildConnectorMeta \/ DForward \/ DGetFinished PROVE Goal
    BY <1>0, <1>3 DEF DBuildConnectorMeta, DForward, DGetFinished
  <1>4. ASSUME TakeReports PROVE Goal
    BY <1>0, <1>4 DEF TakeReports
  <1>5. ASSUME NEW r \in Req, AskPlan(r) PROVE Goal
    BY <1>0, <1>5 DEF AskPlan
  <1>6. ASSUME NEW m \in Reply, PlanReply(m) \/ DropReply(m) PROVE Goal
    BY <1>0, <1>6 DEF PlanReply, AfterReply, DropReply
  <1>7. ASSUME NEW r \in Req, PullTimeout(r) \/ PullKV(r, awaiting[r])
        PROVE Goal
    BY <1>0, <1>7 DEF PullTimeout, UnderDeadline, PullKV
  <1> QED
    BY <1>1, <1>2, <1>3, <1>4, <1>5, <1>6, <1>7
    DEF ConsumerStep, ConsumerNext, DEngineStep, PullStep

\* A step of the producer keeps them too.
LEMMA ProducerPeerInv ==
  ASSUME IInv, CInv, PeerInv, ProducerStep PROVE PeerInv'
  <1> USE DEF IInv, TypeOK, ChannelTypeOK, CInv, ConsumerTypeOK, PeerInv,
          PlanMsg, Reply, Status, channelVars, jobVars, listenVars
  <1>0. pull' = pull
    BY DEF ProducerStep, consumerVars, pullVars
  <1>a. ASSUME UNCHANGED <<plans, claim, replies, prep>> PROVE PeerInv'
    BY <1>0, <1>a
  <1>1. ASSUME EngineStep PROVE UNCHANGED <<plans, claim, replies, prep>>
    BY <1>1 DEF EngineStep, BuildConnectorMeta, PrepareKVAndWait, Forward,
       GetFinished, GetFinishedEarlyReturn, FreeDoneSending
  <1>2. ASSUME NEW m \in PlanMsg, ReceivePlan(m) PROVE PeerInv'
    <2>1. prep' = prep /\ plans' \cup claim' \subseteq plans \cup claim
      BY <1>2 DEF ReceivePlan
    <2>2. ASSUME NEW r \in Req,
                 [req |-> r, status |-> "ready"] \in replies' \ replies
          PROVE  prep[r] \in {"ok", "answered"}
      <3>1. r \in ready
        BY <1>2, <2>2 DEF ReceivePlan, Answer, NeedsClaim, PlanStatus
      <3> QED
        BY <3>1 DEF JobKV
    <2> QED
      BY <1>0, <2>1, <2>2
  <1>3. ASSUME NEW m \in PlanMsg, ClaimPlan(m) PROVE PeerInv'
    <2>1. m \in claim /\ prep[m.req] = "none" /\ m.req \in Req
      BY <1>3 DEF ClaimPlan, Claimable, JobClaim
    <2>2. /\ UNCHANGED <<plans, replies>> /\ claim' = {}
          /\ \A s \in Req \ {m.req} : prep'[s] = prep[s]
      BY <1>3 DEF ClaimPlan
    <2>3. /\ pull[m.req] \notin {"none", "pull", "ok"}
          /\ [req |-> m.req, status |-> "ready"] \notin replies
      BY <2>1
    <2>4. ASSUME NEW s \in Req, pull'[s] = "none"
          PROVE  /\ \A n \in plans' \cup claim' : n.req # s
                 /\ prep'[s] = "none"
      BY <1>0, <2>2, <2>3, <2>4
    <2>5. ASSUME NEW s \in Req,
                 pull'[s] \in {"pull", "ok"}
                   \/ [req |-> s, status |-> "ready"] \in replies'
          PROVE  prep'[s] \in {"ok", "answered"}
      BY <1>0, <2>2, <2>3, <2>5
    <2> QED
      BY <2>4, <2>5
  <1>4. ASSUME NEW m \in PlanMsg, ClaimLost(m) PROVE PeerInv'
    <2>1. UNCHANGED <<plans, prep>> /\ claim' = {}
      BY <1>4 DEF ClaimLost
    <2>2. replies' = replies \cup {[req |-> m.req, status |-> "pending"]}
      BY <1>4 DEF ClaimLost, Answer
    <2>3. \A s \in Req : [req |-> s, status |-> "ready"] \in replies' =>
            [req |-> s, status |-> "ready"] \in replies
      BY <2>2
    <2> QED
      BY <1>0, <2>1, <2>3
  <1>5. ASSUME NEW r \in Req, HandlePullDone(r) PROVE PeerInv'
    BY <1>0, <1>5 DEF HandlePullDone
  <1>6. ASSUME DrainResponses PROVE PeerInv'
    <2>1. /\ UNCHANGED <<plans, claim>>
          /\ \A r \in Req : prep'[r] = IF r \in Settled THEN "answered"
                                                       ELSE prep[r]
          /\ replies' = replies \cup
               {[req |-> r, status |-> JobReply(r)] : r \in Settled}
      BY <1>6 DEF DrainResponses
    <2>2. ASSUME NEW r \in Req,
                 [req |-> r, status |-> "ready"] \in replies' \ replies
          PROVE  r \in Settled
      <3>1. PICK q \in Settled : [req |-> r, status |-> "ready"] =
                                 [req |-> q, status |-> JobReply(q)]
        BY <2>1, <2>2
      <3> QED
        BY <3>1
    <2>3. \A r \in Settled : prep[r] # "none"
      BY DEF Settled
    <2> QED
      BY <1>0, <2>1, <2>2, <2>3
  <1>7. ASSUME NEW r \in Req, JobStep(r) PROVE PeerInv'
    <2>1. /\ UNCHANGED <<plans, claim, replies>>
          /\ \A s \in Req \ {r} : prep'[s] = prep[s]
          /\ prep[r] \notin {"none", "ok", "answered"}
      BY <1>7 DEF JobStep, TakePending, GatherKV, StoreKV, AwaitPull,
         PublishReady, FailSelectivePull
    <2> QED
      BY <1>0, <2>1
  <1>8. ASSUME NEW r \in Req, Finishing(r) \/ Clock(r)
        PROVE UNCHANGED <<plans, claim, replies, prep>>
    BY <1>8 DEF Finishing, Clock, RequestFinished, RequestFinishedNoTransfer,
       LeaseDeadline, TombstoneLapse
  <1> QED
    BY <1>a, <1>1, <1>2, <1>3, <1>4, <1>5, <1>6, <1>7, <1>8
    DEF ProducerStep, ProducerNext, ListenerStep

\* Where a preparation and a notification meet, the decoder's invariants say
\* that they do not, and the producer's tables stay together.
LEMMA ProducerMapped ==
  ASSUME IInv, CInv, PeerInv, FailInv, MappedInv, ProducerStep
  PROVE  MappedInv'
  <1> SUFFICES ASSUME LoadFailurePolicy = "fail" PROVE MappedInv'
    BY DEF MappedInv
  <1> USE DEF IInv, TypeOK, ChannelTypeOK, HandOver, JobKV, JobClaim,
          PeerTablesFollowLease, MappedInv, Tracked, PlanMsg, Stage,
          channelVars, schedVars, tableVars, jobVars, listenVars
  <1>1. ASSUME BuildConnectorMeta \/ GetFinishedEarlyReturn \/ FreeDoneSending
        PROVE MappedInv'
    BY <1>1 DEF BuildConnectorMeta, GetFinishedEarlyReturn, FreeDoneSending
  <1>2. ASSUME NEW r \in Req, PrepareKVAndWait(r) PROVE MappedInv'
    BY <1>2 DEF PrepareKVAndWait
  <1>3. ASSUME NEW S \in SUBSET Req, Forward(S) PROVE MappedInv'
    BY <1>3 DEF Forward
  <1>4. ASSUME GetFinished PROVE MappedInv'
    BY <1>4 DEF GetFinished, Expired, Swept
  <1>5. ASSUME NEW m \in PlanMsg, ReceivePlan(m) \/ ClaimLost(m)
        PROVE MappedInv'
    BY <1>5 DEF ReceivePlan, ClaimLost
  <1>6. ASSUME NEW m \in PlanMsg, ClaimPlan(m) PROVE MappedInv'
    BY <1>6 DEF ClaimPlan, Claimable
  <1>7. ASSUME NEW r \in Req, HandlePullDone(r) PROVE MappedInv'
    <2>1. prep[r] \in {"none", "ok", "answered"}
      BY <1>7 DEF HandlePullDone, CInv, OneTransferInv, FailInv, PeerInv
    <2> QED
      BY <1>7, <2>1 DEF HandlePullDone
  <1>8. ASSUME DrainResponses PROVE MappedInv'
    BY <1>8 DEF DrainResponses, Settled
  <1>9. ASSUME NEW r \in Req, TakePending(r) \/ GatherKV(r) \/ StoreKV(r)
        PROVE MappedInv'
    BY <1>9 DEF TakePending, GatherKV, StoreKV
  <1>10. ASSUME NEW r \in Req, AwaitPull(r) PROVE MappedInv'
    BY <1>10 DEF AwaitPull
  <1>11. ASSUME NEW r \in Req, PublishReady(r) PROVE MappedInv'
    BY <1>11 DEF PublishReady, StillHeld
  <1>12. ASSUME NEW r \in Req, FailSelectivePull(r) PROVE MappedInv'
    BY <1>12 DEF FailSelectivePull
  <1>13. ASSUME NEW r \in Req, Finishing(r) \/ Clock(r) PROVE MappedInv'
    BY <1>13 DEF Finishing, Clock, RequestFinished, RequestFinishedNoTransfer,
       LeaseDeadline, TombstoneLapse
  <1> QED
    BY <1>1, <1>2, <1>3, <1>4, <1>5, <1>6, <1>7, <1>8, <1>9, <1>10, <1>11,
       <1>12, <1>13
    DEF ProducerStep, ProducerNext, EngineStep, ListenerStep, JobStep

\* Neither side's steps break any of the three.
LEMMA NextPeerInv ==
  IInv /\ CInv /\ PeerInv /\ FailInv /\ MappedInv /\ [PDNext]_pdVars
    => PeerInv' /\ FailInv' /\ MappedInv'
  <1> SUFFICES ASSUME IInv, CInv, PeerInv, FailInv, MappedInv, [PDNext]_pdVars
               PROVE  PeerInv' /\ FailInv' /\ MappedInv'
    OBVIOUS
  <1>1. CASE ProducerStep
    <2>1. FailInv'
      BY <1>1 DEF FailInv, ProducerStep, consumerVars, dschedVars, pullVars
    <2> QED
      BY <1>1, <2>1, ProducerPeerInv, ProducerMapped
  <1>2. CASE ConsumerStep
    <2>1. MappedInv'
      BY <1>2 DEF MappedInv, Tracked, ConsumerStep, producerVars, tableVars,
         jobVars
    <2> QED
      BY <1>2, <2>1, ConsumerPeerInv
  <1>3. CASE UNCHANGED pdVars
    BY <1>3 DEF pdVars, vars, channelVars, producerVars, tableVars, jobVars,
       listenVars, consumerVars, dschedVars, pullVars, PeerInv, FailInv,
       MappedInv, Tracked
  <1> QED
    BY <1>1, <1>2, <1>3 DEF PDNext

\* With policy "fail" selective_pulls_ready keeps nothing that no later sweep
\* would find (get_finished(), P side, removes by uuid).
THEOREM ReadyTracked ==
  ASSUME LoadFailurePolicy = "fail" PROVE PDSpec => []ReadyIsTracked
  <1>1. MappedInv => ReadyIsTracked
    BY DEF MappedInv, ReadyIsTracked
  <1>2. PDInit => PeerInv /\ FailInv /\ MappedInv
    BY InitPeerInv
  <1>3. IInv /\ CInv /\ PeerInv /\ FailInv /\ MappedInv /\ [PDNext]_pdVars
          => PeerInv' /\ FailInv' /\ MappedInv'
    BY NextPeerInv
  <1> QED
    BY <1>1, <1>2, <1>3, PDInvariants, PTL DEF PDSpec

=============================================================================
