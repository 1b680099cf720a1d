------------------------ MODULE DirectProducerProofs ------------------------
(***************************************************************************)
(* What holds of the direct and the D2H producer for any set of requests,  *)
(* any host pool and any number of workers.                                *)
(*                                                                         *)
(* Who owns a buffer is settled by Owned and Reachable: jobs and entries   *)
(* name different buffers, none of the pool, and every buffer outside the  *)
(* pool is named.  When a lease ends is settled by Phases, which ties the  *)
(* tables of the scheduler, the worker and the job to one another.         *)
(***************************************************************************)
EXTENDS DirectProducer, FiniteSetTheorems, TLAPS

\* Where a request can be between its last token and the end of its lease.
Phases ==
  /\ \A r \in Req : sched[r] = "active" =>
       r \notin reqs_to_send \cup meta \cup overdue /\ stage[r] = "none"
  /\ \A r \in reqs_to_send \cup meta : sched[r] = "held" /\ stage[r] = "none"
  /\ reqs_to_send \cap meta = {}
  /\ \A r \in Tracked \cup doneSending :
       sched[r] = "held" /\ stage[r] \in {"await", "over"}
  /\ \A r \in Req : stage[r] \notin {"none", "await", "over"}
                      => sched[r] = "held"
  /\ uuid_map \subseteq Tracked
  /\ Tracked \cap doneSending = {}
  /\ \A r \in offered : stage[r] = "over"
  /\ engine # "update" => doneSending = {}

\* Who names a buffer: a job from get_buffer() to the registration, or once
\* its copy has raised, and an entry that waits for D.
Named ==
  /\ \A r \in Req : taken[r] # NoBuffer
                      <=> stage[r] \in {"copy", "register", "raised"}
  /\ \A r \in Req : buffer_index[r] # NoBuffer => reqs_wait_pull[r] = "timed"

\* No buffer is named twice, and none of the pool is named.
Owned ==
  /\ \A r \in Req : taken[r] \notin pool /\ buffer_index[r] \notin pool
  /\ \A r, s \in Req : taken[r] # NoBuffer => taken[r] # buffer_index[s]
  /\ \A r, s \in Req : r # s /\ taken[r] # NoBuffer => taken[r] # taken[s]
  /\ \A r, s \in Req : r # s /\ buffer_index[r] # NoBuffer
                         => buffer_index[r] # buffer_index[s]

\* Every buffer outside the pool is named.
Reachable ==
  d2h => \A b \in Buffer \ pool :
           \E r \in Req : taken[r] = b \/ buffer_index[r] = b

IInv == TypeOK /\ Phases /\ Named /\ Owned /\ Reachable

-----------------------------------------------------------------------------

\* The initial states satisfy the inductive invariant.
LEMMA InitIInv == Init => IInv
  BY DirectAssumption
  DEF Init, IInv, TypeOK, Stage, Phases, Named, Owned, Reachable, Tracked

\* Every step keeps the inductive invariant: one step of the proof per action.
LEMMA NextIInv == IInv /\ [Next]_vars => IInv'
  <1> SUFFICES ASSUME IInv, [Next]_vars PROVE IInv'
    OBVIOUS
  <1> USE DirectAssumption
      DEF IInv, TypeOK, Stage, Phases, Named, Owned, Reachable, Tracked,
          engineVars, entryVars, jobVars, vars
  <1>1. ASSUME BuildConnectorMeta PROVE IInv'
    BY <1>1 DEF BuildConnectorMeta
  <1>2. ASSUME NEW r \in Req, PrepareDirect(r) PROVE IInv'
    BY <1>2 DEF PrepareDirect, Register
  <1>3. ASSUME NEW r \in Req, PrepareD2H(r) PROVE IInv'
    BY <1>3 DEF PrepareD2H
  <1>4. ASSUME Forward PROVE IInv'
    BY <1>4 DEF Forward
  <1>5. ASSUME GetFinished PROVE IInv'
    BY <1>5 DEF GetFinished, NothingRegistered, Expired, Returned, BuffersOf
  <1>6. ASSUME GetFinishedEarlyReturn PROVE IInv'
    BY <1>6 DEF GetFinishedEarlyReturn, NothingRegistered
  <1>7. ASSUME FreeDoneSending PROVE IInv'
    BY <1>7 DEF FreeDoneSending
  <1>8. ASSUME NEW r \in Req, RequestFinished(r) PROVE IInv'
    BY <1>8 DEF RequestFinished
  <1>9. ASSUME NEW r \in Req, RequestFinishedNoTransfer(r) PROVE IInv'
    BY <1>9 DEF RequestFinishedNoTransfer
  <1>10. ASSUME NEW r \in Req, StartJob(r) PROVE IInv'
    BY <1>10 DEF StartJob
  <1>11. ASSUME NEW r \in Req, GetBuffer(r) PROVE IInv'
    BY <1>11 DEF GetBuffer
  <1>12. ASSUME NEW r \in Req, CopyToHost(r) PROVE IInv'
    BY <1>12 DEF CopyToHost
  <1>13. ASSUME NEW r \in Req, CopyRaises(r) PROVE IInv'
    BY <1>13 DEF CopyRaises
  <1>14. ASSUME NEW r \in Req, RegisterCopied(r) PROVE IInv'
    BY <1>14 DEF RegisterCopied, Register
  <1>15. ASSUME NEW r \in Req, AwaitPull(r) PROVE IInv'
    BY <1>15 DEF AwaitPull
  <1>16. ASSUME NEW r \in Req, HandlePullDone(r) PROVE IInv'
    BY <1>16 DEF HandlePullDone, IndexCleared, BuffersOf
  <1>17. ASSUME NEW r \in Req, LeaseDeadline(r) PROVE IInv'
    BY <1>17 DEF LeaseDeadline
  <1>18. ASSUME NEW r \in Req, SendDone(r) PROVE IInv'
    BY <1>18 DEF SendDone
  <1>19. CASE UNCHANGED vars
    BY <1>19
  <1> QED
    BY <1>1, <1>2, <1>3, <1>4, <1>5, <1>6, <1>7, <1>8, <1>9, <1>10, <1>11,
       <1>12, <1>13, <1>14, <1>15, <1>16, <1>17, <1>18, <1>19
    DEF Next, EngineStep, JobStep, Finishing

\* The inductive invariant holds in every reachable state.
THEOREM SpecIInv == Spec => []IInv
  <1>1. Init => IInv
    BY InitIInv
  <1>2. IInv /\ [Next]_vars => IInv'
    BY NextIInv
  <1> QED
    BY <1>1, <1>2, PTL DEF Spec

\* The variables of the producer keep their types.
THEOREM TypeCorrect == Spec => []TypeOK
  <1>1. IInv => TypeOK
    BY DEF IInv
  <1> QED
    BY <1>1, SpecIInv, PTL

\* A request is reported to the scheduler once, while its blocks are held,
\* although its job may register it after its deadline or its notification.
THEOREM ReleasedOnce == Spec => []NoDoubleRelease
  <1>1. IInv => NoDoubleRelease
    BY DEF IInv, Phases, NoDoubleRelease
  <1> QED
    BY <1>1, SpecIInv, PTL

\* A set in which there are no two members has at most one.
LEMMA AtMostOne ==
  ASSUME NEW S, \A x, y \in S : x = y
  PROVE  Cardinality(S) = 0 \/ Cardinality(S) = 1
  <1>1. CASE S = {}
    BY <1>1, FS_EmptySet
  <1>2. CASE S # {}
    <2>1. PICK x \in S : S = {x}
      BY <1>2
    <2> QED
      BY <2>1, FS_Singleton
  <1> QED
    BY <1>1, <1>2

\* A host buffer has one owner: the pool, one job or one entry.
THEOREM OneOwner == Spec => []BufferHasOneOwner
  <1>1. IInv => BufferHasOneOwner
    <2> SUFFICES ASSUME IInv, NEW b \in Buffer
        PROVE Cardinality({r \in Req : taken[r] = b})
              + Cardinality({r \in Tracked : buffer_index[r] = b})
              + Cardinality({b} \cap pool) <= 1
      BY DEF BufferHasOneOwner
    <2> DEFINE Jobs    == {r \in Req : taken[r] = b}
               Entries == {r \in Tracked : buffer_index[r] = b}
               Free    == {b} \cap pool
    <2> USE DirectAssumption DEF IInv, Owned, Tracked
    <2>1. \A x, y \in Jobs : x = y
      OBVIOUS
    <2>2. \A x, y \in Entries : x = y
      OBVIOUS
    <2>3. \A x, y \in Free : x = y
      OBVIOUS
    <2>4. /\ Jobs # {} => Entries = {} /\ Free = {}
          /\ Entries # {} => Free = {}
      OBVIOUS
    <2>5. Cardinality({}) = 0
      BY FS_EmptySet
    <2>6. Cardinality(Jobs) = 0 \/ Cardinality(Jobs) = 1
      BY <2>1, AtMostOne
    <2>7. Cardinality(Entries) = 0 \/ Cardinality(Entries) = 1
      BY <2>2, AtMostOne
    <2>8. Cardinality(Free) = 0 \/ Cardinality(Free) = 1
      BY <2>3, AtMostOne
    <2> HIDE DEF Jobs, Entries, Free
    <2>9. Cardinality(Jobs) + Cardinality(Entries) + Cardinality(Free) <= 1
      BY <2>4, <2>5, <2>6, <2>7, <2>8
    <2> QED
      BY <2>9 DEF Jobs, Entries, Free
  <1> QED
    BY <1>1, SpecIInv, PTL

\* No buffer is lost, unless a copy raised: a buffer outside the pool belongs
\* to a job or to an entry, and will come back with either.
THEOREM BuffersKept == Spec => []NoBufferLost
  <1>1. IInv => NoBufferLost
    BY DirectAssumption
    DEF IInv, TypeOK, Phases, Named, Reachable, NoBufferLost, Running, Raised,
        BuffersOf, Tracked
  <1> QED
    BY <1>1, SpecIInv, PTL

-----------------------------------------------------------------------------
(* DirectProducer implements TransferLease, in both modes.                 *)

\* The initial states are initial states of the lease.
LEMMA InitLease == Init => Lease!LeaseInit
  BY DEF Init, Lease!LeaseInit, LeaseOf

LeaseFn == [r \in Req |-> LeaseOf(r)]
CopiedSet == {r \in Req : stage[r] # "none"}

\* A step that moves nothing the lease is made of is a stutter of the lease.
LEMMA Stutter ==
  ASSUME LeaseFn' = LeaseFn, CopiedSet' = CopiedSet, offered' = offered
  PROVE  UNCHANGED Lease!leaseVars
  BY DEF LeaseFn, CopiedSet, Lease!leaseVars

\* What changes the lease of one request is an EXCEPT on the mapped function.
LEMMA OneLease ==
  ASSUME NEW r \in Req, NEW v,
         LeaseOf(r)' = v, \A s \in Req \ {r} : LeaseOf(s)' = LeaseOf(s)
  PROVE  LeaseFn' = [LeaseFn EXCEPT ![r] = v]
  BY DEF LeaseFn

\* What changes the lease of a set of requests, likewise.
LEMMA SomeLeases ==
  ASSUME NEW S \in SUBSET Req, NEW v,
         \A s \in S : LeaseOf(s)' = v,
         \A s \in Req \ S : LeaseOf(s)' = LeaseOf(s)
  PROVE  LeaseFn' = [s \in Req |-> IF s \in S THEN v ELSE LeaseFn[s]]
  BY DEF LeaseFn

\* A step that closes the lease of one request, or had it closed already.
LEMMA CloseOrStutter ==
  ASSUME NEW r \in Req,
         \/ LeaseOf(r) = "held" /\ LeaseOf(r)' = "closing"
         \/ LeaseOf(r)' = LeaseOf(r),
         \A s \in Req \ {r} : LeaseOf(s)' = LeaseOf(s),
         CopiedSet' = CopiedSet, offered' = offered
  PROVE  [Lease!LeaseNext]_(Lease!leaseVars)
  <1>1. CASE LeaseOf(r) = "held" /\ LeaseOf(r)' = "closing"
    <2>1. LeaseFn' = [LeaseFn EXCEPT ![r] = "closing"] /\ LeaseFn[r] = "held"
      BY <1>1, OneLease DEF LeaseFn
    <2>2. Lease!Close(r)
      BY <2>1 DEF Lease!Close, LeaseFn, CopiedSet
    <2> QED
      BY <2>2 DEF Lease!LeaseNext
  <1>2. CASE LeaseOf(r)' = LeaseOf(r)
    <2>1. LeaseFn' = LeaseFn
      BY <1>2 DEF LeaseFn
    <2> QED
      BY <2>1, Stutter
  <1> QED
    BY <1>1, <1>2

\* Preparing the KV of a request copies it, once and while it is held.
LEMMA CopyStep ==
  ASSUME NEW r \in Req, LeaseOf(r) \in {"held", "closing"}, LeaseFn' = LeaseFn,
         CopiedSet' = CopiedSet \cup {r}, offered' = offered
  PROVE  [Lease!LeaseNext]_(Lease!leaseVars)
  <1>1. Lease!Copy(r)
    BY DEF Lease!Copy, LeaseFn, CopiedSet
  <1> QED
    BY <1>1 DEF Lease!LeaseNext

\* Every step of the producer is a step of the lease, or leaves it unchanged.
LEMMA NextLease ==
  IInv /\ [Next]_vars => [Lease!LeaseNext]_(Lease!leaseVars)
  <1> SUFFICES ASSUME IInv, [Next]_vars
               PROVE  [Lease!LeaseNext]_(Lease!leaseVars)
    OBVIOUS
  <1> USE DEF IInv, TypeOK, Phases, Tracked, LeaseOf, LeaseFn, CopiedSet,
          engineVars, entryVars, jobVars, vars
  <1> DEFINE LeaseStep == [Lease!LeaseNext]_(Lease!leaseVars)
  <1>1. ASSUME BuildConnectorMeta PROVE LeaseStep
    BY <1>1, Stutter DEF BuildConnectorMeta
  <1>2. ASSUME NEW r \in Req, PrepareDirect(r) PROVE LeaseStep
    <2>1. LeaseOf(r) \in {"held", "closing"} /\ LeaseFn' = LeaseFn
      BY <1>2 DEF PrepareDirect, Register
    <2>2. CopiedSet' = CopiedSet \cup {r} /\ offered' = offered
      BY <1>2 DEF PrepareDirect
    <2> HIDE DEF LeaseOf, LeaseFn, CopiedSet
    <2> QED
      BY <2>1, <2>2, CopyStep
  <1>3. ASSUME NEW r \in Req, PrepareD2H(r) PROVE LeaseStep
    <2>1. LeaseOf(r) \in {"held", "closing"} /\ LeaseFn' = LeaseFn
      BY <1>3 DEF PrepareD2H
    <2>2. CopiedSet' = CopiedSet \cup {r} /\ offered' = offered
      BY <1>3 DEF PrepareD2H
    <2> HIDE DEF LeaseOf, LeaseFn, CopiedSet
    <2> QED
      BY <2>1, <2>2, CopyStep
  <1>4. ASSUME Forward PROVE LeaseStep
    BY <1>4, Stutter DEF Forward
  <1>5. ASSUME GetFinished PROVE LeaseStep
    <2> USE DEF Expired
    <2>1. CASE Expired # {}
      <3>1. \A r \in Expired :
              LeaseOf(r) = "closing" /\ LeaseOf(r)' = "released"
        BY <1>5 DEF GetFinished
      <3>2. \A r \in Req \ Expired : LeaseOf(r)' = LeaseOf(r)
        BY <1>5 DEF GetFinished
      <3>3. CopiedSet' = CopiedSet /\ offered' = offered
        BY <1>5 DEF GetFinished
      <3>4. Expired \in SUBSET Req
        OBVIOUS
      <3> HIDE DEF LeaseOf, Expired
      <3>5. LeaseFn' = [r \in Req |-> IF r \in Expired THEN "released"
                                                    ELSE LeaseFn[r]]
        BY <3>1, <3>2, <3>4, SomeLeases
      <3>6. Lease!Release(Expired)
        BY <2>1, <3>1, <3>3, <3>4, <3>5 DEF Lease!Release
      <3> QED
        BY <3>4, <3>6 DEF Lease!LeaseNext
    <2>2. CASE Expired = {}
      BY <1>5, <2>2, Stutter DEF GetFinished
    <2> QED
      BY <2>1, <2>2
  <1>6. ASSUME GetFinishedEarlyReturn PROVE LeaseStep
    BY <1>6, Stutter DEF GetFinishedEarlyReturn
  <1>7. ASSUME FreeDoneSending PROVE LeaseStep
    BY <1>7, Stutter DEF FreeDoneSending
  <1>8. ASSUME NEW r \in Req, RequestFinished(r) PROVE LeaseStep
    <2>1. LeaseOf(r) = "none" /\ LeaseOf(r)' = "held"
      BY <1>8 DEF RequestFinished
    <2>2. \A s \in Req \ {r} : LeaseOf(s)' = LeaseOf(s)
      BY <1>8 DEF RequestFinished
    <2>3. CopiedSet' = CopiedSet /\ offered' = offered
      BY <1>8 DEF RequestFinished
    <2> HIDE DEF LeaseOf
    <2>4. Lease!Grant(r)
      BY <2>1, <2>2, <2>3, OneLease DEF Lease!Grant
    <2> QED
      BY <2>4 DEF Lease!LeaseNext
  <1>9. ASSUME NEW r \in Req, RequestFinishedNoTransfer(r) PROVE LeaseStep
    <2>1. LeaseOf(r) = "none" /\ LeaseOf(r)' = "released"
      BY <1>9 DEF RequestFinishedNoTransfer
    <2>2. \A s \in Req \ {r} : LeaseOf(s)' = LeaseOf(s)
      BY <1>9 DEF RequestFinishedNoTransfer
    <2>3. CopiedSet' = CopiedSet /\ offered' = offered
      BY <1>9 DEF RequestFinishedNoTransfer
    <2> HIDE DEF LeaseOf
    <2>4. Lease!Decline(r)
      BY <2>1, <2>2, <2>3, OneLease DEF Lease!Decline
    <2> QED
      BY <2>4 DEF Lease!LeaseNext
  <1>10. ASSUME NEW r \in Req, StartJob(r) PROVE LeaseStep
    BY <1>10, Stutter DEF StartJob
  <1>11. ASSUME NEW r \in Req, GetBuffer(r) PROVE LeaseStep
    BY <1>11, Stutter DEF GetBuffer
  <1>12. ASSUME NEW r \in Req, CopyToHost(r) PROVE LeaseStep
    BY <1>12, Stutter DEF CopyToHost
  <1>13. ASSUME NEW r \in Req, CopyRaises(r) PROVE LeaseStep
    BY <1>13, Stutter DEF CopyRaises
  <1>14. ASSUME NEW r \in Req, RegisterCopied(r) PROVE LeaseStep
    BY <1>14, Stutter DEF RegisterCopied, Register
  <1>15. ASSUME NEW r \in Req, AwaitPull(r) PROVE LeaseStep
    <2>1. LeaseFn' = LeaseFn /\ CopiedSet' = CopiedSet
      BY <1>15 DEF AwaitPull
    <2>2. r \in CopiedSet /\ offered' = offered \cup {r}
      BY <1>15 DEF AwaitPull
    <2> HIDE DEF LeaseOf
    <2>3. Lease!Serve(r)
      BY <2>1, <2>2 DEF Lease!Serve
    <2> QED
      BY <2>3 DEF Lease!LeaseNext
  <1>16. ASSUME NEW r \in Req, HandlePullDone(r) PROVE LeaseStep
    <2>1. \/ LeaseOf(r) = "held" /\ LeaseOf(r)' = "closing"
          \/ LeaseOf(r)' = LeaseOf(r)
      BY <1>16 DEF HandlePullDone
    <2>2. \A s \in Req \ {r} : LeaseOf(s)' = LeaseOf(s)
      BY <1>16 DEF HandlePullDone
    <2>3. CopiedSet' = CopiedSet /\ offered' = offered
      BY <1>16 DEF HandlePullDone
    <2> HIDE DEF LeaseOf, LeaseFn, CopiedSet
    <2> QED
      BY <2>1, <2>2, <2>3, CloseOrStutter
  <1>17. ASSUME NEW r \in Req, LeaseDeadline(r) PROVE LeaseStep
    <2>1. \/ LeaseOf(r) = "held" /\ LeaseOf(r)' = "closing"
          \/ LeaseOf(r)' = LeaseOf(r)
      BY <1>17 DEF LeaseDeadline
    <2>2. \A s \in Req \ {r} : LeaseOf(s)' = LeaseOf(s)
      BY <1>17 DEF LeaseDeadline
    <2>3. CopiedSet' = CopiedSet /\ offered' = offered
      BY <1>17 DEF LeaseDeadline
    <2> HIDE DEF LeaseOf, LeaseFn, CopiedSet
    <2> QED
      BY <2>1, <2>2, <2>3, CloseOrStutter
  <1>18. ASSUME NEW r \in Req, SendDone(r) PROVE LeaseStep
    BY <1>18, Stutter DEF SendDone
  <1>19. CASE UNCHANGED vars
    BY <1>19, Stutter
  <1> QED
    BY <1>1, <1>2, <1>3, <1>4, <1>5, <1>6, <1>7, <1>8, <1>9, <1>10, <1>11,
       <1>12, <1>13, <1>14, <1>15, <1>16, <1>17, <1>18, <1>19
    DEF Next, EngineStep, JobStep, Finishing

\* The producer implements the abstract lease, in both modes: copies are taken
\* while the blocks are held and released only for a reason.
THEOREM LeaseImplemented == Spec => ImplementsLease
  <1>1. Init => Lease!LeaseInit
    BY InitLease
  <1>2. IInv /\ [Next]_vars => [Lease!LeaseNext]_(Lease!leaseVars)
    BY NextLease
  <1> QED
    BY <1>1, <1>2, SpecIInv, PTL DEF Spec, ImplementsLease, Lease!LeaseSpec

=============================================================================
