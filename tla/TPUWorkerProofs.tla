--------------------------- MODULE TPUWorkerProofs ---------------------------
(***************************************************************************)
(* Theorems about TPUWorker, for any number of engines, stages, chips and  *)
(* steps and any batches.                                                  *)
(*                                                                         *)
(* Chips: a worker's chips follow from the deployment alone, so what is to *)
(* be shown is arithmetic.  Pipeline: a stage may be ahead of or behind    *)
(* the stage before it, so the invariant relates the two through what the  *)
(* one has executed, what it offers, and what the other's device waits for.*)
(***************************************************************************)
EXTENDS TPUWorker, BatchLayoutProofs

-----------------------------------------------------------------------------
(* Chips.                                                                  *)

\* The multiples of c are c apart.
LEMMA Apart ==
  ASSUME NEW a \in Nat, NEW b \in Nat, NEW c \in Nat, a < b
  PROVE  a * c + c <= b * c
<1>1. PICK d \in Nat : b = a + 1 + d  BY SMT
<1>2. b * c = a * c + c + d * c  BY <1>1, SMT
<1>3. d * c \in Nat /\ a * c \in Nat  BY SMT
<1> QED  BY <1>2, <1>3, SMT

\* Blocks of c numbers that start at different multiples of c are disjoint.
LEMMA BlocksDisjoint ==
  ASSUME NEW a \in Nat, NEW b \in Nat, NEW c \in Nat, a # b
  PROVE  ChipRange(a * c, c) \cap ChipRange(b * c, c) = {}
<1>1. a * c \in Nat /\ b * c \in Nat  BY SMT
<1>2. CASE a < b  BY <1>1, <1>2, Apart DEF ChipRange
<1>3. CASE b < a  BY <1>1, <1>3, Apart DEF ChipRange
<1> QED  BY <1>2, <1>3

\* A block has as many chips as it says.
LEMMA BlockSize ==
  ASSUME NEW a \in Nat, NEW c \in Nat \ {0}
  PROVE  ChipRange(a, c) # {} /\ Cardinality(ChipRange(a, c)) = c
<1>1. a \in Int /\ a + c - 1 \in Int /\ a <= a + c - 1  BY SMT
<1>2. a \in ChipRange(a, c)  BY <1>1 DEF ChipRange
<1>3. Cardinality(a .. a + c - 1) = a + c - 1 - a + 1  BY <1>1, FS_Interval
<1>4. Cardinality(ChipRange(a, c)) = c  BY <1>3, SMT DEF ChipRange
<1> QED  BY <1>2, <1>4

\* The chips for tp cores have at least tp cores, and are at least one.
LEMMA ChipsSuffice ==
  ASSUME NEW tp \in Nat \ {0}
  PROVE  ChipsFor(tp) \in Nat \ {0} /\ Cores * ChipsFor(tp) >= tp
<1>1. Cores \in Nat \ {0}  BY WorkerAssumption DEF WorkerAssumption
<1> DEFINE x == tp + Cores - 1
           q == x \div Cores
<1>2. x \in Nat  BY <1>1
<1>3. q \in Int /\ Cores * q <= x /\ x < Cores * q + Cores
  BY <1>1, <1>2, SMT
<1> QED  BY <1>1, <1>3, SMT DEF ChipsFor, CeilDiv

\* The deployment is one of those allowed, and a worker has no chips yet or
\* those that follow from the deployment.
ChipsInv ==
  /\ deploy \in Deployments
  /\ DOMAIN chips = Workers /\ DOMAIN bounds = Workers
  /\ \A w \in Workers :
       chips[w] # None => chips[w] = Visible(w) /\ bounds[w] = Bounds(w)

\* What the deployments have in common.
LEMMA Kinds ==
  ASSUME deploy \in Deployments
  PROVE  /\ deploy.kind \in {"colocated", "dp", "pp", "ray"}
         /\ deploy.tp \in Nat \ {0}
         /\ \A e \in Engine :
              /\ deploy.assigned[e] \subseteq Chips
              /\ deploy.preset[e] \subseteq Chips
         /\ Sensible(deploy)
<1>1. deploy \in Deployment /\ Sensible(deploy)
  BY WorkerAssumption DEF WorkerAssumption
<1> QED  BY <1>1 DEF Deployment

\* What a worker finds after the affinity has been restored was given to its
\* engine, which has nothing only if it was given nothing.
LEMMA RestoredGiven ==
  ASSUME deploy \in Deployments, NEW w \in Workers
  PROVE  /\ w[1] \in Engine
         /\ Restored(w) \subseteq Given(deploy, w[1])
         /\ Restored(w) = {} <=> Given(deploy, w[1]) = {}
         /\ Restored(w) # {} =>
              Cardinality(Restored(w)) >= ChipsFor(deploy.tp)
<1>1. 1 \in Engine  BY WorkerAssumption DEF WorkerAssumption
<1>2. w[1] \in Engine  BY <1>1 DEF Workers
<1>3. Restored(w) \in {deploy.assigned[w[1]], deploy.preset[w[1]]}
  BY DEF Restored
<1>4. Restored(w) # {} => Cardinality(Restored(w)) >= ChipsFor(deploy.tp)
  BY <1>2, <1>3, Kinds DEF Sensible
<1> QED  BY <1>2, <1>4 DEF Restored, Given

\* What a worker sees: the chips of its rank, those that its engine was given,
\* or those of its stage.
LEMMA VisibleIs ==
  ASSUME deploy \in Deployments, NEW w \in Workers
  PROVE  /\ deploy.kind = "dp" /\ DPChips(w) # {} => Visible(w) = DPChips(w)
         /\ deploy.kind # "dp" /\ Given(deploy, w[1]) # {} =>
              Visible(w) = Restored(w)
         /\ InPipeline /\ Given(deploy, w[1]) = {} /\ StageChips(w) # {} =>
              Visible(w) = StageChips(w)
<1>1. CASE deploy.kind = "dp"
  BY <1>1 DEF Visible, InPipeline
<1>2. CASE deploy.kind # "dp" /\ Given(deploy, w[1]) # {}
  <2>1. Restored(w) # {}  BY <1>2, RestoredGiven
  <2> QED  BY <1>2, <2>1 DEF Visible
<1>3. CASE InPipeline /\ Given(deploy, w[1]) = {}
  <2>1. Restored(w) = {} /\ deploy.kind # "dp"
    BY <1>3, RestoredGiven DEF InPipeline
  <2> QED  BY <1>3, <2>1 DEF Visible
<1> QED  BY <1>1, <1>2, <1>3 DEF InPipeline

\* The chips of a rank and of a stage are as many as their cores need.
LEMMA OwnBlock ==
  ASSUME deploy \in Deployments, NEW w \in Workers
  PROVE  /\ deploy.kind = "dp" =>
              /\ w[1] - 1 \in Nat
              /\ DPChips(w) # {}
              /\ Cardinality(DPChips(w)) = ChipsFor(deploy.tp)
         /\ InPipeline =>
              /\ w[1] = 1 /\ w[2] \in Nat
              /\ StageChips(w) # {}
              /\ Cardinality(StageChips(w)) = ChipsFor(deploy.tp)
<1> DEFINE c == ChipsFor(deploy.tp)
<1>1. c \in Nat \ {0}  BY Kinds, ChipsSuffice
<1> HIDE DEF c
<1>2. ASSUME deploy.kind = "dp"
      PROVE  w[1] - 1 \in Nat /\ (w[1] - 1) * c \in Nat
  <2>1. w[1] \in Engine  BY RestoredGiven
  <2>2. w[1] - 1 \in Nat  BY <2>1, WorkerAssumption DEF WorkerAssumption
  <2> QED  BY <1>1, <2>2
<1>3. deploy.kind = "dp" => DPChips(w) # {} /\ Cardinality(DPChips(w)) = c
  BY <1>1, <1>2, BlockSize DEF DPChips, c
<1>4. ASSUME InPipeline
      PROVE  /\ w[1] = 1 /\ w[2] \in Nat
             /\ (IF deploy.kind = "ray" THEN 0 ELSE w[2] * c) \in Nat
  <2>1. w[1] = 1 /\ w[2] \in Stage  BY <1>4 DEF Workers
  <2>2. w[2] \in Nat  BY <2>1, WorkerAssumption DEF WorkerAssumption
  <2> QED  BY <1>1, <2>1, <2>2
<1>5. InPipeline => StageChips(w) # {} /\ Cardinality(StageChips(w)) = c
  BY <1>1, <1>4, BlockSize DEF StageChips, c
<1> QED  BY <1>2, <1>3, <1>4, <1>5 DEF c

\* A worker sees as many chips as its cores need, and has the bounds of what
\* it sees, of what was set before, or of its stage.
LEMMA VisibleSize ==
  ASSUME deploy \in Deployments, NEW w \in Workers
  PROVE  /\ Cardinality(Visible(w)) \in Nat
         /\ Cardinality(Visible(w)) >= ChipsFor(deploy.tp)
         /\ \/ Bounds(w) = Cardinality(Visible(w))
            \/ deploy.kind = "colocated" /\ Bounds(w) = deploy.bounds
            \/ InPipeline /\ Given(deploy, 1) # {}
<1> DEFINE c == ChipsFor(deploy.tp)
<1>1. c \in Nat \ {0}  BY Kinds, ChipsSuffice
<1>2. ASSUME Given(deploy, w[1]) # {}, deploy.kind # "dp"
      PROVE  /\ Visible(w) = Restored(w)
             /\ Cardinality(Visible(w)) \in Nat
             /\ Cardinality(Visible(w)) >= c
  <2>1. Visible(w) = Restored(w)  BY <1>2, VisibleIs
  <2>2. Restored(w) # {} /\ Cardinality(Restored(w)) >= c
    BY <1>2, RestoredGiven
  <2>3. Restored(w) \subseteq Chips  BY Kinds, RestoredGiven DEF Restored
  <2>4. IsFiniteSet(Restored(w))
    BY <2>3, FS_Subset, WorkerAssumption DEF WorkerAssumption
  <2> QED  BY <2>1, <2>2, <2>4, FS_CardinalityType
<1>3. CASE deploy.kind = "dp"
  <2>1. Cardinality(Visible(w)) = c  BY <1>3, OwnBlock, VisibleIs
  <2> QED  BY <1>1, <1>3, <2>1 DEF Bounds
<1>4. CASE InPipeline
  <2>1. w[1] = 1 /\ deploy.kind # "dp"
    BY <1>4, OwnBlock DEF InPipeline
  <2>2. CASE Given(deploy, 1) # {}  BY <1>2, <1>4, <2>1, <2>2
  <2>3. CASE Given(deploy, 1) = {}
    <3>1. Cardinality(Visible(w)) = c
      BY <1>4, <2>1, <2>3, OwnBlock, VisibleIs
    <3> QED  BY <1>1, <1>4, <3>1 DEF Bounds
  <2> QED  BY <2>2, <2>3
<1>5. CASE deploy.kind = "colocated"
  <2>1. Given(deploy, w[1]) # {}  BY <1>5, Kinds, RestoredGiven DEF Sensible
  <2>2. Bounds(w) \in {Cardinality(Visible(w)), deploy.bounds}
    BY <1>5 DEF Bounds, InPipeline
  <2> QED  BY <1>2, <1>5, <2>1, <2>2
<1> QED  BY <1>3, <1>4, <1>5, Kinds DEF InPipeline

\* Two workers of a host see different chips, unless they are the stages of a
\* pipeline that was given chips.
LEMMA VisibleDisjoint ==
  ASSUME deploy \in Deployments, deploy.kind # "ray",
         NEW v \in Workers, NEW w \in Workers, v # w
  PROVE  \/ Visible(v) \cap Visible(w) = {}
         \/ InPipeline /\ Given(deploy, 1) # {}
<1> DEFINE c == ChipsFor(deploy.tp)
<1>1. c \in Nat \ {0}  BY Kinds, ChipsSuffice
<1> HIDE DEF c
<1>2. CASE deploy.kind = "dp"
  <2>1. /\ v[1] - 1 \in Nat /\ w[1] - 1 \in Nat
        /\ v[1] \in Engine /\ w[1] \in Engine /\ v[1] # w[1]
    BY <1>2, OwnBlock, RestoredGiven DEF Workers, InPipeline
  <2>2. v[1] - 1 # w[1] - 1
    <3>1. v[1] \in Int /\ w[1] \in Int
      BY <2>1, WorkerAssumption DEF WorkerAssumption
    <3> QED  BY <2>1, <3>1
  <2>3. DPChips(v) \cap DPChips(w) = {}
    BY <1>1, <2>1, <2>2, BlocksDisjoint DEF DPChips, c
  <2> QED  BY <1>2, <2>3, OwnBlock, VisibleIs
<1>3. CASE deploy.kind = "pp"
  <2>1. InPipeline  BY <1>3 DEF InPipeline
  <2>2. /\ v[1] = 1 /\ w[1] = 1 /\ v[2] \in Nat /\ w[2] \in Nat
        /\ v[2] # w[2]
    BY <2>1, OwnBlock DEF Workers
  <2>3. StageChips(v) \cap StageChips(w) = {}
    BY <1>1, <1>3, <2>2, BlocksDisjoint DEF StageChips, c
  <2> QED  BY <2>1, <2>2, <2>3, OwnBlock, VisibleIs
<1>4. CASE deploy.kind = "colocated"
  <2>1. v[1] \in Engine /\ w[1] \in Engine /\ v[1] # w[1]
    BY <1>4, RestoredGiven DEF Workers, InPipeline
  <2>2. /\ Given(deploy, v[1]) \cap Given(deploy, w[1]) = {}
        /\ Given(deploy, v[1]) # {} /\ Given(deploy, w[1]) # {}
    BY <1>4, <2>1, Kinds DEF Sensible
  <2>3. Visible(v) = Restored(v) /\ Visible(w) = Restored(w)
    BY <1>4, <2>2, VisibleIs
  <2> QED  BY <2>2, <2>3, RestoredGiven
<1> QED  BY <1>2, <1>3, <1>4, Kinds

\* Bringing a device up keeps the invariant, and nothing else changes it.
LEMMA StepChipsInv ==
  ChipsInv /\ [Next]_vars => ChipsInv'
<1> SUFFICES ASSUME ChipsInv, [Next]_vars PROVE ChipsInv'  OBVIOUS
<1>1. CASE UNCHANGED initVars
  <2>1. UNCHANGED <<deploy, chips, bounds>>  BY <1>1 DEF initVars
  <2>2. Workers' = Workers  BY <2>1 DEF Workers, InPipeline
  <2>3. \A u : Visible(u)' = Visible(u) /\ Bounds(u)' = Bounds(u)
    BY <2>1 DEF Visible, Bounds, InPipeline, DPChips, StageChips, Restored
  <2> QED  BY <2>1, <2>2, <2>3 DEF ChipsInv
<1>2. CASE \E w \in Workers : InitDevice(w)
  <2>1. PICK w \in Workers : InitDevice(w)  BY <1>2
  <2>2. deploy' = deploy /\ Workers' = Workers
    BY <2>1 DEF InitDevice, Workers, InPipeline
  <2>3. \A u : Visible(u)' = Visible(u) /\ Bounds(u)' = Bounds(u)
    BY <2>2 DEF Visible, Bounds, InPipeline, DPChips, StageChips, Restored
  <2> QED  BY <2>1, <2>2, <2>3 DEF ChipsInv, InitDevice
<1> QED
  BY <1>1, <1>2 DEF Next, vars, SendStep, ExecuteModel, RunForward

\* Workers of a host have chips of their own, as many as they need, but for the
\* stages of a pipeline that was given chips, which share them.
THEOREM OwnChips == Spec => []ChipsAreOwn
<1>1. Init => ChipsInv  BY DEF Init, ChipsInv
<1>2. ChipsInv => ChipsAreOwn
  <2> SUFFICES ASSUME ChipsInv PROVE ChipsAreOwn  OBVIOUS
  <2>1. /\ ChipsFor(deploy.tp) \in Nat \ {0} /\ deploy.tp \in Nat
        /\ Cores * ChipsFor(deploy.tp) >= deploy.tp
    BY Kinds, ChipsSuffice DEF ChipsInv
  <2>2. ASSUME NEW w \in Workers, chips[w] # None
        PROVE  Cores * Cardinality(chips[w]) >= deploy.tp
    <3>1. PICK n \in Nat : n = Cardinality(chips[w])
      BY <2>2, VisibleSize DEF ChipsInv
    <3>2. n >= ChipsFor(deploy.tp)  BY <2>2, <3>1, VisibleSize DEF ChipsInv
    <3>3. Cores \in Nat  BY WorkerAssumption DEF WorkerAssumption
    <3>4. PICK c \in Nat : c = ChipsFor(deploy.tp)  BY <2>1
    <3>5. PICK k \in Nat : k = n - c  BY <3>2, <3>4
    <3>6. n = c + k  BY <3>4, <3>5
    <3>7. Cores * n = Cores * c + Cores * k  BY <3>3, <3>4, <3>6
    <3>8. Cores * k \in Nat /\ Cores * c \in Nat  BY <3>3, <3>4
    <3>9. Cores * c >= deploy.tp  BY <2>1, <3>4
    <3> QED  BY <2>1, <3>1, <3>7, <3>8, <3>9
  <2>3. ASSUME NEW w \in Workers, chips[w] # None
        PROVE  \/ bounds[w] = Cardinality(chips[w])
               \/ deploy.kind = "colocated" /\ bounds[w] = deploy.bounds
               \/ InPipeline /\ Given(deploy, 1) # {}
    BY <2>3, VisibleSize DEF ChipsInv
  <2>4. ASSUME NEW v \in Workers, NEW w \in Workers, v # w,
               deploy.kind # "ray", None \notin {chips[v], chips[w]}
        PROVE  \/ chips[v] \cap chips[w] = {}
               \/ InPipeline /\ Given(deploy, 1) # {}
    BY <2>4, VisibleDisjoint DEF ChipsInv
  <2> QED  BY <2>2, <2>3, <2>4 DEF ChipsAreOwn
<1> QED  BY <1>1, <1>2, StepChipsInv, PTL DEF Spec

-----------------------------------------------------------------------------
(* The pipeline.                                                           *)

\* What execute_model() dispatches and offers for step k of batch b.
JobOf(b, s, k) ==
  [k |-> k, pull |-> IF s = 0 THEN <<>> ELSE <<Uuid(b, s - 1, k - 1)>>,
   rows |-> IF s = 0 THEN 0 ELSE SpecRows[b]]

TensorOf(b, s, k) ==
  [uuid |-> Uuid(b, s, k - 1), k |-> k, rows |-> Rows[b]]

Job == {JobOf(b, s, k) : b \in Batch, s \in Stage, k \in Nat}

RunOf == [k : Nat, from : Nat, fits : BOOLEAN]

\* The device of a stage has yet to run step k.
Waits(s, k) == \E i \in DOMAIN device[s] : device[s][i].k = k

PipeType ==
  /\ log \in Seq(Batch)
  /\ executed \in [Stage -> Nat]
  /\ step = executed
  /\ \A s \in Stage : executed[s] <= Len(log)
  /\ device \in [Stage -> Seq(Job)]
  /\ DOMAIN offered = Stage
  /\ ran \in [Stage -> Seq(RunOf)]

\* What is dispatched belongs to a step that has been executed.
JobsInv ==
  \A s \in Stage : \A i \in DOMAIN device[s] :
    \E k \in 1 .. executed[s] : device[s][i] = JobOf(log[k], s, k)

\* So does what is offered, and it is for a stage that exists.
OffersInv ==
  \A s \in Stage : \A t \in offered[s] :
    /\ s # LastStage
    /\ \E k \in 1 .. executed[s] :
         log[k] # <<>> /\ t = TensorOf(log[k], s, k)

\* The next stage has not executed the step, or its device waits for it.
AwaitedInv ==
  \A s \in Stage \ {0} : \A t \in offered[s - 1] :
    t.k > executed[s] \/ Waits(s, t.k)

\* A stage that is ahead of the one before it waits for its input.
AheadInv ==
  \A s \in Stage \ {0} : \A k \in executed[s - 1] + 1 .. executed[s] :
    log[k] = <<>> \/ Waits(s, k)

RanInv ==
  \A s \in Stage : \A i \in DOMAIN ran[s] :
    /\ ran[s][i].from = ran[s][i].k
    /\ ran[s][i].fits

PipeInv ==
  /\ PipeType /\ JobsInv /\ OffersInv /\ AwaitedInv /\ AheadInv /\ RanInv

\* The sender adds up the rows of its batch; the receiver has those that the
\* scheduler counted for each rank, or the average on a single rank: both come
\* to the same shapes.
LEMMA RowsAgree == Rows = SpecRows
<1>1. ASSUME NEW b \in Batch \ {<<>>}
      PROVE  PaddedTokens(SetToSeq(DOMAIN b), b, FALSE)
               = PaddedLen(FullestRank(b))
  <2> DEFINE q == SetToSeq(DOMAIN b)
             Count(ranks) == MapThenSumSet(LAMBDA r : b[r],
                               {r \in DOMAIN b : Rank[r] \in ranks})
  <2>1. /\ DOMAIN b \in SUBSET Req
        /\ \A r \in DOMAIN b : b[r] \in Nat
    BY WorkerAssumption DEF WorkerAssumption
  <2>2. IsBatch(q) /\ ToSet(q) = DOMAIN b  BY <2>1, SetToSeqIs
  <2> HIDE DEF q
  <2>3. \A d : TokensOnRank(q, b, d)
                 = Total(b, {r \in ToSet(q) : Rank[r] = d})
    BY <2>1, <2>2, RankTotal
  <2>4. ASSUME NEW d PROVE TokensOnRank(q, b, d) = Count({d})
    <3>1. {r \in ToSet(q) : Rank[r] = d} = {r \in DOMAIN b : Rank[r] \in {d}}
      BY <2>2
    <3> QED  BY <2>3, <3>1 DEF Total
  <2>5. \A d : TokensOnRank(q, b, d) \in Int
    <3>1. IsFiniteSet(DOMAIN b)
      BY <2>1, FS_Subset, LayoutAssumption DEF LayoutAssumption
    <3>2. \A r \in DOMAIN b : b[r] \in Int  BY <2>1
    <3>3. \A S \in SUBSET DOMAIN b : Total(b, S) \in Int
      BY <3>1, <3>2, TotalRemove
    <3> QED  BY <2>2, <2>3, <3>3
  <2>6. FullestRank(b) = IF DP > 1 THEN Max({Count({d}) : d \in 0 .. DP - 1})
                         ELSE CeilDiv(Count(0 .. DP - 1), DP)
    BY DEF FullestRank
  <2> HIDE DEF Count
  <2>7. {TokensOnRank(q, b, d) : d \in 0 .. DP - 1}
          = {Count({d}) : d \in 0 .. DP - 1}
    BY <2>4
  <2>8. FullestRank(b) = Max({Count({d}) : d \in 0 .. DP - 1})
    <3>1. CASE DP > 1  BY <2>6, <3>1
    <3>2. CASE DP = 1
      <4>1. 0 .. DP - 1 = {0}  BY <3>2
      <4>2. {Count({d}) : d \in 0 .. DP - 1} = {Count({0})}  BY <4>1
      <4>3. PICK n \in Int : n = Count({0})  BY <2>4, <2>5
      <4>4. Max({n}) = n  BY DEF Max
      <4>5. CeilDiv(n, 1) = n  BY DEF CeilDiv
      <4> QED  BY <2>6, <3>2, <4>1, <4>2, <4>3, <4>4, <4>5
    <3> QED  BY <3>1, <3>2, LayoutAssumption DEF LayoutAssumption
  <2>9. PaddedTokens(q, b, FALSE) = PaddedLen(FullestRank(b))
    BY <2>7, <2>8 DEF PaddedTokens
  <2> QED  BY <2>9 DEF q
<1> QED  BY <1>1 DEF Rows, SpecRows

\* What Append and Tail leave in their places.
LEMMA AppendFacts ==
  ASSUME NEW S, NEW q \in Seq(S), NEW e \in S
  PROVE  /\ Append(q, e) \in Seq(S)
         /\ \A i \in DOMAIN q :
              i \in DOMAIN Append(q, e) /\ Append(q, e)[i] = q[i]
         /\ Len(q) + 1 \in DOMAIN Append(q, e)
         /\ Append(q, e)[Len(q) + 1] = e
         /\ \A i \in DOMAIN Append(q, e) :
              i \in DOMAIN q \/ Append(q, e)[i] = e
OBVIOUS

LEMMA NonEmpty == \A x : <<x>> # <<>>
OBVIOUS

LEMMA TailFacts ==
  ASSUME NEW S, NEW q \in Seq(S), q # <<>>
  PROVE  /\ Tail(q) \in Seq(S)
         /\ 1 \in DOMAIN q /\ Head(q) = q[1]
         /\ \A i \in DOMAIN Tail(q) :
              i + 1 \in DOMAIN q /\ Tail(q)[i] = q[i + 1]
         /\ \A i \in DOMAIN q : i = 1 \/
              (i - 1 \in DOMAIN Tail(q) /\ Tail(q)[i - 1] = q[i])
OBVIOUS

\* The ranks are consecutive, so every stage but the last has a next one.
LEMMA NextStage ==
  /\ Stage \subseteq Nat /\ 0 \in Stage
  /\ \A s \in Stage \ {0} : s - 1 \in Stage
  /\ \A s \in Stage : s # LastStage => s + 1 \in Stage \ {0}
<1>1. PICK pp \in Nat \ {0} : Stage = 0 .. pp - 1
  BY WorkerAssumption DEF WorkerAssumption
<1>2. LastStage = pp - 1
  <2>1. pp - 1 \in Stage /\ \A s \in Stage : pp - 1 >= s  BY <1>1
  <2>2. LastStage \in Stage /\ \A s \in Stage : LastStage >= s
    BY <2>1 DEF LastStage, Max
  <2> QED  BY <1>1, <2>1, <2>2
<1> QED  BY <1>1, <1>2

\* A tensor on offer names a step that its sender has executed.
LEMMA OfferedSteps ==
  ASSUME PipeInv, NEW s \in Stage, NEW t \in offered[s]
  PROVE  t.k \in Nat /\ t.k <= executed[s] /\ log[t.k] # <<>>
<1>1. PICK k \in 1 .. executed[s] :
        log[k] # <<>> /\ t = TensorOf(log[k], s, k)
  BY DEF PipeInv, OffersInv
<1>2. t.k = k  BY <1>1 DEF TensorOf
<1>3. executed[s] \in Nat  BY DEF PipeInv, PipeType
<1> QED  BY <1>1, <1>2, <1>3

LEMMA InitPipeInv == Init => PipeInv
BY NextStage DEF Init, PipeInv, PipeType, JobsInv, OffersInv, AwaitedInv,
  AheadInv, RanInv

\* The log only grows.
LEMMA SendStepPipeInv ==
  ASSUME PipeInv, SendStep
  PROVE  PipeInv'
<1>1. PICK b \in Batch : log' = Append(log, b)  BY DEF SendStep
<1>2. /\ log' \in Seq(Batch) /\ Len(log') = Len(log) + 1
      /\ \A k \in 1 .. Len(log) : log'[k] = log[k]
  BY <1>1 DEF PipeInv, PipeType
<1>3. UNCHANGED <<executed, step, device, offered, ran>>  BY DEF SendStep
<1>4. PipeType'  BY <1>2, <1>3 DEF PipeInv, PipeType
<1>5. \A s \in Stage : \A k \in 1 .. executed[s] : log'[k] = log[k]
  BY <1>2 DEF PipeInv, PipeType
<1>6. JobsInv'  BY <1>3, <1>5 DEF PipeInv, JobsInv
<1>7. OffersInv'  BY <1>3, <1>5 DEF PipeInv, OffersInv
<1>8. AwaitedInv'  BY <1>3 DEF PipeInv, AwaitedInv, Waits
<1>9. AheadInv'
  <2>1. \A s \in Stage \ {0} : \A k \in executed[s - 1] + 1 .. executed[s] :
          k \in 1 .. executed[s]
    BY NextStage DEF PipeInv, PipeType
  <2> QED  BY <1>3, <1>5, <2>1 DEF PipeInv, AheadInv, Waits
<1>10. RanInv'  BY <1>3 DEF PipeInv, RanInv
<1> QED  BY <1>4, <1>6, <1>7, <1>8, <1>9, <1>10 DEF PipeInv

\* A stage executes the next step.
LEMMA ExecuteModelPipeInv ==
  ASSUME PipeInv, NEW s \in Stage, ExecuteModel(s),
         NEW k, k = executed[s] + 1, NEW b, b = log[k]
  PROVE  PipeInv'
<1>1. /\ log \in Seq(Batch) /\ k \in 1 .. Len(log) /\ b \in Batch
      /\ k \in Nat /\ executed[s] \in Nat /\ step[s] = k - 1
  BY DEF PipeInv, PipeType, ExecuteModel
<1>2. /\ executed' = [executed EXCEPT ![s] = k]
      /\ step' = [step EXCEPT ![s] = k]
      /\ UNCHANGED <<log, ran>>
  <2>1. step[s] + 1 = k  BY <1>1
  <2> QED  BY <2>1 DEF ExecuteModel, NextCounter
<1>3. /\ b = <<>> => device' = device
      /\ b # <<>> => device' = [device EXCEPT ![s] = Append(@, JobOf(b, s, k))]
  BY <1>1 DEF ExecuteModel, JobOf
<1>4. /\ ~ Offers(s, b) => offered' = offered
      /\ Offers(s, b) =>
           offered' = [offered EXCEPT ![s] = @ \cup {TensorOf(b, s, k)}]
  BY <1>1 DEF ExecuteModel, TensorOf
<1>5. JobOf(b, s, k) \in Job /\ JobOf(b, s, k).k = k
  <2>1. JobOf(b, s, k) \in Job  BY <1>1 DEF Job
  <2>2. JobOf(b, s, k).k = k  BY DEF JobOf
  <2> QED  BY <2>1, <2>2
<1>6. \A u \in Stage : device[u] \in Seq(Job)  BY DEF PipeInv, PipeType
<1> DEFINE job == JobOf(b, s, k)
<1> HIDE DEF job
<1>6a. b # <<>> =>
         /\ device' = [device EXCEPT ![s] = Append(@, job)]
         /\ device'[s] = Append(device[s], job)
         /\ \A u \in Stage : u # s => device'[u] = device[u]
  BY <1>3 DEF job, PipeInv, PipeType
<1>6b. job \in Job /\ job.k = k  BY <1>5 DEF job
<1>7. PipeType'
  <2>1. device' \in [Stage -> Seq(Job)]
    <3>1. b # <<>> => Append(device[s], job) \in Seq(Job)
      BY <1>6, <1>6b, AppendFacts
    <3>2. device \in [Stage -> Seq(Job)]  BY DEF PipeInv, PipeType
    <3> QED  BY <1>3, <1>6a, <3>1, <3>2
  <2>2. /\ executed' \in [Stage -> Nat] /\ step' = executed'
        /\ \A u \in Stage : executed'[u] <= Len(log)
    BY <1>1, <1>2 DEF PipeInv, PipeType
  <2>3. DOMAIN offered' = Stage  BY <1>4 DEF PipeInv, PipeType
  <2> QED  BY <1>2, <2>1, <2>2, <2>3 DEF PipeInv, PipeType
<1>8. \A u \in Stage : executed'[u] \in Nat /\ executed[u] \in Nat
                       /\ executed[u] <= executed'[u]
                       /\ (u # s => executed'[u] = executed[u])
  BY <1>1, <1>2 DEF PipeInv, PipeType
<1>9. JobsInv'
  <2> SUFFICES ASSUME NEW u \in Stage, NEW i \in DOMAIN device'[u]
               PROVE  \E j \in 1 .. executed'[u] :
                        device'[u][i] = JobOf(log[j], u, j)
    <3>1. log' = log  BY <1>2
    <3> QED  BY <3>1 DEF JobsInv, JobOf, Uuid
  <2>1. CASE i \in DOMAIN device[u] /\ device'[u][i] = device[u][i]
    BY <1>8, <2>1 DEF PipeInv, JobsInv
  <2>2. CASE u = s /\ device'[u][i] = JobOf(b, s, k)
    <3>1. k \in 1 .. executed'[s]  BY <1>1, <1>2 DEF PipeInv, PipeType
    <3> QED  BY <2>2, <3>1
  <2>3. CASE b # <<>> /\ u = s
    BY <1>6, <1>6a, <1>6b, <2>1, <2>2, <2>3, AppendFacts DEF job
  <2>4. CASE b = <<>> \/ u # s  BY <1>3, <1>6a, <2>1, <2>4
  <2> QED  BY <2>3, <2>4
<1>10. OffersInv'
  <2> SUFFICES ASSUME NEW u \in Stage, NEW t \in offered'[u]
               PROVE  /\ u # LastStage
                      /\ \E j \in 1 .. executed'[u] :
                           log[j] # <<>> /\ t = TensorOf(log[j], u, j)
    BY <1>2 DEF OffersInv, TensorOf, Uuid
  <2>1. CASE t \in offered[u]  BY <1>8, <2>1 DEF PipeInv, OffersInv
  <2>2. CASE u = s /\ Offers(s, b) /\ t = TensorOf(b, s, k)
    <3>1. k \in 1 .. executed'[s]  BY <1>1, <1>2 DEF PipeInv, PipeType
    <3> QED  BY <2>2, <3>1 DEF Offers
  <2> QED  BY <1>4, <2>1, <2>2 DEF PipeInv, PipeType
<1>11. \A u \in Stage, j \in Nat : Waits(u, j) => Waits(u, j)'
  <2>1. \A u \in Stage : \A i \in DOMAIN device[u] :
          i \in DOMAIN device'[u] /\ device'[u][i] = device[u][i]
    BY <1>3, <1>6, <1>6a, <1>6b, AppendFacts
  <2> QED  BY <2>1 DEF Waits
<1>12. b # <<>> => Waits(s, k)'
  <2> SUFFICES ASSUME b # <<>> PROVE Waits(s, k)'  OBVIOUS
  <2>1. /\ Len(device[s]) + 1 \in DOMAIN device'[s]
        /\ device'[s][Len(device[s]) + 1] = job
    BY <1>6, <1>6a, <1>6b, AppendFacts
  <2> QED  BY <1>6b, <2>1 DEF Waits
<1>13. \A u \in Stage : \A t \in offered[u] :
         t.k \in Nat /\ t.k <= executed[u] /\ log[t.k] # <<>>
  BY OfferedSteps
<1>14. AwaitedInv'
  <2> SUFFICES ASSUME NEW u \in Stage \ {0}, NEW t \in offered'[u - 1]
               PROVE  t.k > executed'[u] \/ Waits(u, t.k)'
    BY DEF AwaitedInv
  <2>1. u - 1 \in Stage  BY NextStage
  <2>2. CASE t \in offered[u - 1]
    <3>1. t.k \in Nat /\ log[t.k] # <<>>  BY <1>8, <1>13, <2>1, <2>2
    <3>2. t.k > executed[u] \/ Waits(u, t.k)
      BY <2>2 DEF PipeInv, AwaitedInv
    <3>3. CASE Waits(u, t.k)  BY <1>11, <3>1, <3>3
    <3>4. CASE t.k > executed[u] /\ u # s  BY <1>8, <3>4
    <3>5. CASE t.k > executed[u] /\ u = s
      <4>1. t.k = k \/ t.k > k  BY <1>1, <3>1, <3>5
      <4>2. executed'[s] = k  BY <1>2 DEF PipeInv, PipeType
      <4>3. t.k = k => Waits(u, t.k)'
        <5> SUFFICES ASSUME t.k = k PROVE Waits(u, t.k)'  OBVIOUS
        <5>1. b # <<>>  BY <3>1
        <5> QED  BY <1>12, <3>5, <5>1
      <4> QED  BY <3>5, <4>1, <4>2, <4>3
    <3> QED  BY <3>2, <3>3, <3>4, <3>5
  <2>3. CASE u - 1 = s /\ Offers(s, b) /\ t = TensorOf(b, s, k)
    <3>1. t.k = k /\ b # <<>>  BY <2>3 DEF TensorOf, Offers
    <3>2. u # s  BY <2>3, NextStage
    <3>3. executed'[u] = executed[u] /\ executed[u] \in Nat  BY <1>8, <3>2
    <3>4. k > executed[u] \/ k \in executed[u - 1] + 1 .. executed[u]
      BY <1>1, <2>3, <3>3
    <3>5. k > executed[u] \/ Waits(u, k)
      BY <3>1, <3>4 DEF PipeInv, AheadInv
    <3> QED  BY <1>1, <1>11, <3>1, <3>3, <3>5
  <2> QED  BY <1>4, <2>1, <2>2, <2>3 DEF PipeInv, PipeType
<1>15. AheadInv'
  <2> SUFFICES ASSUME NEW u \in Stage \ {0},
                      NEW j \in executed'[u - 1] + 1 .. executed'[u]
               PROVE  log[j] = <<>> \/ Waits(u, j)'
    BY <1>2 DEF AheadInv
  <2>1. u - 1 \in Stage  BY NextStage
  <2>2. j \in Nat  BY <1>8, <2>1
  <2>3. j \in executed[u - 1] + 1 .. executed[u] \/ (u = s /\ j = k)
    <3>1. j >= executed[u - 1] + 1 /\ j <= executed'[u]
      BY <1>8, <2>1
    <3>2. CASE u # s  BY <1>8, <2>1, <2>2, <3>1, <3>2
    <3>3. CASE u = s
      <4>1. executed'[u] = executed[u] + 1
        BY <1>1, <1>2, <3>3 DEF PipeInv, PipeType
      <4> QED  BY <1>1, <1>8, <2>1, <2>2, <3>1, <3>3, <4>1
    <3> QED  BY <3>2, <3>3
  <2>4. CASE u = s /\ j = k
    <3>1. log[j] = b  BY <2>4
    <3>2. log[j] # <<>> => Waits(s, k)'  BY <1>12, <3>1
    <3> QED  BY <2>4, <3>2
  <2>5. CASE j \in executed[u - 1] + 1 .. executed[u]
    BY <1>11, <2>2, <2>5 DEF PipeInv, AheadInv
  <2> QED  BY <2>3, <2>4, <2>5
<1>16. RanInv'  BY <1>2 DEF PipeInv, RanInv
<1> QED  BY <1>7, <1>9, <1>10, <1>14, <1>15, <1>16 DEF PipeInv

\* The device of a stage runs its first job: the tensor that it pulls is the
\* one of the same step, so that of no other step is taken away.
LEMMA RunForwardPipeInv ==
  ASSUME PipeInv, NEW s \in Stage, RunForward(s)
  PROVE  PipeInv'
<1> DEFINE job == Head(device[s])
<1>1. /\ device[s] \in Seq(Job) /\ device[s] # <<>>
      /\ device' = [device EXCEPT ![s] = Tail(@)]
      /\ UNCHANGED <<log, executed, step>>
  BY DEF RunForward, PipeInv, PipeType
<1>2. /\ job = device[s][1] /\ 1 \in DOMAIN device[s]
      /\ Tail(device[s]) \in Seq(Job)
      /\ \A i \in DOMAIN Tail(device[s]) :
           i + 1 \in DOMAIN device[s] /\ Tail(device[s])[i] = device[s][i + 1]
      /\ \A i \in DOMAIN device[s] : i = 1 \/
           (i - 1 \in DOMAIN Tail(device[s])
            /\ Tail(device[s])[i - 1] = device[s][i])
  BY <1>1, TailFacts
<1>3. PICK k \in 1 .. executed[s] : job = JobOf(log[k], s, k)
  BY <1>2 DEF PipeInv, JobsInv
<1>4. k \in Nat /\ job.k = k /\ executed[s] \in Nat
  BY <1>3 DEF JobOf, PipeInv, PipeType
<1>5. \A u \in Stage : \A i \in DOMAIN device'[u] :
        \E j \in DOMAIN device[u] : device'[u][i] = device[u][j]
  BY <1>1, <1>2 DEF PipeInv, PipeType
<1>6. JobsInv'
  <2> SUFFICES ASSUME NEW u \in Stage, NEW i \in DOMAIN device'[u]
               PROVE  \E j \in 1 .. executed[u] :
                        device'[u][i] = JobOf(log[j], u, j)
    <3>1. log' = log /\ executed' = executed  BY <1>1
    <3> QED  BY <3>1 DEF JobsInv, JobOf, Uuid
  <2>1. PICK j \in DOMAIN device[u] : device'[u][i] = device[u][j]
    BY <1>5
  <2> QED  BY <2>1 DEF PipeInv, JobsInv
<1>7. \A u \in Stage, j \in Nat :
        Waits(u, j) /\ (u = s => j # k) => Waits(u, j)'
  <2> SUFFICES ASSUME NEW u \in Stage, NEW j \in Nat,
                      Waits(u, j), u = s => j # k
               PROVE  Waits(u, j)'
    OBVIOUS
  <2>1. PICK i \in DOMAIN device[u] : device[u][i].k = j  BY DEF Waits
  <2>2. \E h \in DOMAIN device'[u] : device'[u][h] = device[u][i]
    <3>1. CASE u = s
      <4>1. i # 1  BY <1>2, <1>4, <2>1, <3>1
      <4>2. device'[s] = Tail(device[s])  BY <1>1 DEF PipeInv, PipeType
      <4>3. i - 1 \in DOMAIN device'[u] /\ device'[u][i - 1] = device[u][i]
        BY <1>2, <3>1, <4>1, <4>2
      <4> QED  BY <4>3
    <3>2. CASE u # s
      <4>1. device'[u] = device[u]  BY <1>1, <3>2 DEF PipeInv, PipeType
      <4> QED  BY <4>1
    <3> QED  BY <3>1, <3>2
  <2> QED  BY <2>1, <2>2 DEF Waits
<1>8. CASE s = 0
  <2>1. job.pull = <<>>  BY <1>3, <1>8 DEF JobOf
  <2>2. /\ UNCHANGED offered
        /\ ran' = [ran EXCEPT ![s] =
             Append(@, [k |-> k, from |-> k, fits |-> TRUE])]
    <3>1. \A t \in offered[s - 1] : <<t.uuid>> # job.pull
      <4> HIDE DEF job
      <4> QED  BY <2>1, NonEmpty
    <3> QED  BY <1>4, <1>8, <2>1, <3>1 DEF RunForward
  <2>3. [k |-> k, from |-> k, fits |-> TRUE] \in RunOf  BY <1>4 DEF RunOf
  <2>4. PipeType'  BY <1>1, <1>2, <2>2, <2>3 DEF PipeInv, PipeType
  <2>5. RanInv'  BY <2>2, <2>3 DEF PipeInv, PipeType, RanInv
  <2>6. OffersInv'
    BY <1>1, <2>2 DEF PipeInv, OffersInv, TensorOf, Uuid
  <2>7. \A u \in Stage \ {0}, j \in Nat : Waits(u, j) => Waits(u, j)'
    BY <1>7, <1>8
  <2>8. AwaitedInv'
    <3> SUFFICES ASSUME NEW u \in Stage \ {0}, NEW x \in offered[u - 1]
                 PROVE  x.k > executed[u] \/ Waits(u, x.k)'
      BY <1>1, <2>2 DEF AwaitedInv
    <3>1. u - 1 \in Stage  BY NextStage
    <3>2. x.k \in Nat  BY <3>1, OfferedSteps
    <3>3. x.k > executed[u] \/ Waits(u, x.k)  BY DEF PipeInv, AwaitedInv
    <3> QED  BY <2>7, <3>2, <3>3
  <2>9. AheadInv'
    <3>1. \A u \in Stage \ {0} :
            \A j \in executed[u - 1] + 1 .. executed[u] : j \in Nat
      <4> SUFFICES ASSUME NEW u \in Stage \ {0},
                          NEW j \in executed[u - 1] + 1 .. executed[u]
                   PROVE  j \in Nat
        OBVIOUS
      <4>1. u - 1 \in Stage  BY NextStage
      <4>2. executed[u - 1] \in Nat /\ executed[u] \in Nat
        BY <4>1 DEF PipeInv, PipeType
      <4> QED  BY <4>2
    <3> QED  BY <1>1, <2>7, <3>1 DEF PipeInv, AheadInv
  <2> QED  BY <1>6, <2>4, <2>5, <2>6, <2>8, <2>9 DEF PipeInv
<1>9. CASE s # 0
  <2> DEFINE p == s - 1
  <2>1. p \in Stage /\ s \in Nat /\ p + 1 = s  BY <1>9, NextStage
  <2>2. job.pull = <<Uuid(log[k], p, k - 1)>>  BY <1>3, <1>9 DEF JobOf
  <2>3. PICK t \in offered[p] :
          /\ <<t.uuid>> = job.pull
          /\ ran' = [ran EXCEPT ![s] =
               Append(@, [k |-> job.k, from |-> t.k,
                          fits |-> t.rows = job.rows])]
          /\ offered' = [offered EXCEPT ![p] = @ \ {t}]
    <3>1. job.pull # <<>>
      <4> HIDE DEF job
      <4> QED  BY <2>2, NonEmpty
    <3> QED  BY <1>9, <3>1 DEF RunForward
  <2>4. PICK j \in 1 .. executed[p] : t = TensorOf(log[j], p, j)
    BY <2>1 DEF PipeInv, OffersInv
  <2>5. j \in Nat /\ executed[p] \in Nat
    BY <2>1 DEF PipeInv, PipeType
  <2>6. j = k
    <3>1. t.uuid = <<log[j], p, j - 1>>  BY <2>4 DEF TensorOf, Uuid
    <3>2. t.uuid = <<log[k], p, k - 1>>  BY <2>2, <2>3 DEF Uuid
    <3>3. j - 1 = k - 1  BY <3>1, <3>2
    <3> QED  BY <1>4, <2>5, <3>3
  <2>7. t.k = k /\ t.rows = Rows[log[k]] /\ job.rows = SpecRows[log[k]]
    BY <1>3, <1>9, <2>4, <2>6 DEF TensorOf, JobOf
  <2> DEFINE new == [k |-> k, from |-> k, fits |-> t.rows = job.rows]
  <2>8. /\ ran' = [ran EXCEPT ![s] = Append(@, new)]
        /\ new \in RunOf /\ new.k = k /\ new.from = k
        /\ new.fits
    <3>1. new \in RunOf /\ new.k = k /\ new.from = k  BY <1>4 DEF RunOf
    <3>2. new.fits  BY <2>7, RowsAgree
    <3> QED  BY <1>4, <2>3, <2>7, <3>1, <3>2
  <2>9. PipeType'
    <3>1. ran' \in [Stage -> Seq(RunOf)]
      <4> HIDE DEF new
      <4> QED  BY <2>8 DEF PipeInv, PipeType
    <3> QED  BY <1>1, <1>2, <2>3, <3>1 DEF PipeInv, PipeType
  <2>10. RanInv'
    <3> HIDE DEF new
    <3> QED  BY <2>8 DEF PipeInv, PipeType, RanInv
  <2>11. \A u \in Stage : offered'[u] \subseteq offered[u]
    BY <2>3 DEF PipeInv, PipeType
  <2>12. OffersInv'
    <3> SUFFICES ASSUME NEW u \in Stage, NEW x \in offered'[u]
                 PROVE  /\ u # LastStage
                        /\ \E i \in 1 .. executed[u] :
                             log[i] # <<>> /\ x = TensorOf(log[i], u, i)
      BY <1>1 DEF OffersInv, TensorOf, Uuid
    <3> QED  BY <2>11 DEF PipeInv, OffersInv
  <2>13. \A x \in offered'[p] : x.k \in Nat /\ x.k # k
    <3> SUFFICES ASSUME NEW x \in offered'[p]
                 PROVE  x.k \in Nat /\ x.k # k
      OBVIOUS
    <3>1. x \in offered[p] /\ x # t
      BY <2>1, <2>3 DEF PipeInv, PipeType
    <3>2. PICK i \in 1 .. executed[p] : x = TensorOf(log[i], p, i)
      BY <2>1, <3>1 DEF PipeInv, OffersInv
    <3>3. x.k = i /\ i \in Nat  BY <2>5, <3>2 DEF TensorOf
    <3>4. i # k  BY <2>4, <2>6, <3>1, <3>2
    <3> QED  BY <3>3, <3>4
  <2>14. AwaitedInv'
    <3> SUFFICES ASSUME NEW u \in Stage \ {0}, NEW x \in offered'[u - 1]
                 PROVE  x.k > executed[u] \/ Waits(u, x.k)'
      BY <1>1 DEF AwaitedInv
    <3>1. u - 1 \in Stage  BY NextStage
    <3>2. x \in offered[u - 1]  BY <2>11, <3>1
    <3>3. x.k > executed[u] \/ Waits(u, x.k)
      BY <3>2 DEF PipeInv, AwaitedInv
    <3>4. x.k \in Nat  BY <3>1, <3>2, OfferedSteps
    <3>5. u = s => x.k # k  BY <2>13
    <3> QED  BY <1>7, <3>3, <3>4, <3>5
  <2>15. AheadInv'
    <3> SUFFICES ASSUME NEW u \in Stage \ {0},
                        NEW i \in executed[u - 1] + 1 .. executed[u]
                 PROVE  log[i] = <<>> \/ Waits(u, i)'
      BY <1>1 DEF AheadInv
    <3>1. u - 1 \in Stage  BY NextStage
    <3>2. executed[u - 1] \in Nat /\ executed[u] \in Nat
      BY <3>1 DEF PipeInv, PipeType
    <3>3. i \in Nat /\ i > executed[u - 1]  BY <3>2
    <3>4. u = s => i # k  BY <2>4, <2>5, <2>6, <3>3
    <3>5. log[i] = <<>> \/ Waits(u, i)  BY DEF PipeInv, AheadInv
    <3> QED  BY <1>7, <3>3, <3>4, <3>5
  <2> QED  BY <1>6, <2>9, <2>10, <2>12, <2>14, <2>15 DEF PipeInv
<1> QED  BY <1>8, <1>9

LEMMA StepPipeInv == PipeInv /\ [Next]_vars => PipeInv'
<1> SUFFICES ASSUME PipeInv, [Next]_vars PROVE PipeInv'  OBVIOUS
<1>1. CASE UNCHANGED stepVars
  <2>1. UNCHANGED <<log, executed, step, device, offered, ran>>
    BY <1>1 DEF stepVars
  <2>2. PipeType' /\ RanInv'  BY <2>1 DEF PipeInv, PipeType, RanInv
  <2>3. JobsInv'  BY <2>1 DEF PipeInv, JobsInv, JobOf, Uuid
  <2>4. OffersInv'  BY <2>1 DEF PipeInv, OffersInv, TensorOf, Uuid
  <2>5. AwaitedInv' /\ AheadInv'
    BY <2>1 DEF PipeInv, AwaitedInv, AheadInv, Waits
  <2> QED  BY <2>2, <2>3, <2>4, <2>5 DEF PipeInv
<1>2. CASE \E w \in Workers : InitDevice(w)
  <2>1. UNCHANGED stepVars  BY <1>2 DEF InitDevice
  <2> QED  BY <1>1, <2>1
<1>3. CASE SendStep  BY <1>3, SendStepPipeInv
<1>4. ASSUME NEW s \in Stage, ExecuteModel(s) PROVE PipeInv'
  <2>1. \E k, b : k = executed[s] + 1 /\ b = log[k]  OBVIOUS
  <2> QED  BY <1>4, <2>1, ExecuteModelPipeInv
<1>5. ASSUME NEW s \in Stage, RunForward(s) PROVE PipeInv'
  BY <1>5, RunForwardPipeInv
<1> QED  BY <1>1, <1>2, <1>3, <1>4, <1>5 DEF Next, vars

\* Whatever the pace of the stages, nothing is left on offer once all of them
\* have run every step.
THEOREM AllPulled == Spec => []EverythingIsPulled
<1>1. PipeInv => EverythingIsPulled
  <2> SUFFICES ASSUME PipeInv,
                      \A s \in Stage : executed[s] = Len(log)
                                       /\ device[s] = <<>>,
                      NEW s \in Stage, NEW t \in offered[s]
               PROVE  FALSE
    BY DEF EverythingIsPulled
  <2>1. s \in Nat /\ s + 1 \in Stage \ {0}
    BY NextStage DEF PipeInv, OffersInv
  <2>2. PICK u \in Stage \ {0} : u - 1 = s  BY <2>1
  <2>3. t.k \in Nat /\ t.k <= executed[s]  BY OfferedSteps
  <2>4. t.k > executed[u] \/ Waits(u, t.k)
    BY <2>2 DEF PipeInv, AwaitedInv
  <2>5. ~ Waits(u, t.k)  BY DEF Waits
  <2>6. executed[u] = executed[s] /\ executed[s] \in Nat
    BY DEF PipeInv, PipeType
  <2> QED  BY <2>3, <2>4, <2>5, <2>6
<1> QED  BY <1>1, InitPipeInv, StepPipeInv, PTL DEF Spec

\* A stage runs every step on the tensors of that step, in the shape that it
\* has allocated for them (execute_model(), get_uuid_for_jax_transfer()).
THEOREM InputOfStep == Spec => []InputIsOfTheStep
<1>1. PipeInv => InputIsOfTheStep
  BY DEF PipeInv, RanInv, InputIsOfTheStep
<1> QED  BY <1>1, InitPipeInv, StepPipeInv, PTL DEF Spec

=============================================================================
