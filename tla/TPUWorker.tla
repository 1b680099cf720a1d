------------------------------ MODULE TPUWorker ------------------------------
(***************************************************************************)
(* TPUWorker, worker/tpu_worker.py: how the worker processes of a host     *)
(* divide its chips (PPConfig, init_device()), and how the stages of a     *)
(* pipeline run the engine's steps (execute_model()).                      *)
(*                                                                         *)
(* The engine sends every step to every stage in order, and stages run at  *)
(* their own pace.  Nothing but a uuid, which sender and receiver compute  *)
(* each for itself, tells which tensors belong to a step.  The transfer    *)
(* (jax_parallel_state) is outside the repository: receiving starts a pull *)
(* and returns at once, and the device waits for it when it gets there.    *)
(***************************************************************************)
EXTENDS BatchLayout

CONSTANTS
  Engine,        \* the engine processes of a deployment: 1 .. n
  Stage,         \* the ranks of a pipeline: 0 .. pp - 1
  Chips,         \* the chips of a host: 0 .. n
  Cores,         \* get_num_cores_per_chip()
  Deployments,   \* how the processes of a host may be started
  MaxSteps,      \* steps that the engine schedules: a bound
  Batch          \* the num_scheduled_tokens that it schedules

-----------------------------------------------------------------------------
(* Deployments.                                                            *)

CeilDiv(a, b) == (a + b - 1) \div b

\* chips_per_stage and chips_per_rank
ChipsFor(tp) == CeilDiv(tp, Cores)

ChipRange(first, n) == first .. first + n - 1

\* How the processes of a host are started:
\*   kind      "colocated" prefill and decode engines, as serve_pd_ici.sh has
\*             them; "dp", an engine per data-parallel rank under
\*             TPU_MULTIPROCESS_DP; or the stages of one engine's pipeline,
\*             all on one host ("pp") or each on a host of its own ("ray");
\*   tp        the cores of an engine, or of a stage;
\*   assigned  engine -> PD_TPU_VISIBLE_CHIPS or assigned_physical_gpu_ids;
\*   preset    engine -> TPU_VISIBLE_CHIPS as its processes find it, if the
\*             spawn of EngineCore has passed it on or Ray has set it;
\*   bounds    the chips in TPU_CHIPS_PER_PROCESS_BOUNDS as they find it, or 0.
Deployment ==
  [kind : {"colocated", "dp", "pp", "ray"}, tp : Nat \ {0},
   assigned : [Engine -> SUBSET Chips], preset : [Engine -> SUBSET Chips],
   bounds : Nat]

\* The chips that an engine is given, whichever way.
Given(d, e) == d.assigned[e] \cup d.preset[e]

\* What whoever starts the processes sees to.  Chips that are given are as
\* many as a process needs, and no other engine's; co-located engines are all
\* given some; and a pipeline fits on its host, which it has to itself.
Sensible(d) ==
  /\ \A e \in Engine : \A given \in {d.assigned[e], d.preset[e]} :
       given # {} => Cardinality(given) >= ChipsFor(d.tp)
  /\ \A e, f \in Engine : e # f => Given(d, e) \cap Given(d, f) = {}
  /\ d.kind = "colocated" => \A e \in Engine : Given(d, e) # {}
  /\ d.kind = "pp" =>
       Cardinality(Stage) * ChipsFor(d.tp) <= Cardinality(Chips)
  /\ d.kind = "ray" => ChipsFor(d.tp) <= Cardinality(Chips)

ASSUME WorkerAssumption ==
  /\ {Cardinality(Engine), Cardinality(Stage)} \subseteq Nat \ {0}
  /\ Engine = 1 .. Cardinality(Engine)
  /\ Stage = 0 .. Cardinality(Stage) - 1
  /\ Chips \subseteq Nat /\ IsFiniteSet(Chips)
  /\ {Cores, MaxSteps} \subseteq Nat \ {0}
  /\ \A d \in Deployments : d \in Deployment /\ Sensible(d)
  /\ \A b \in Batch : /\ DOMAIN b \subseteq Req
                     /\ \A r \in DOMAIN b : b[r] \in Nat

VARIABLES
  deploy,    \* how the processes were started
  chips,     \* worker -> its TPU_VISIBLE_CHIPS once its device is up, or None
  bounds,    \* worker -> the chips in its TPU_CHIPS_PER_PROCESS_BOUNDS
  log,       \* the scheduler outputs that the engine has sent
  executed,  \* stage -> how many of them execute_model() has run
  step,      \* stage -> step_counter
  device,    \* stage -> what it has dispatched and the device not yet run
  offered,   \* stage -> what send_tensor_dict() offers to the next stage
  ran        \* stage -> what its device ran, in order

initVars == <<deploy, chips, bounds>>
stepVars == <<log, executed, step, device, offered, ran>>
vars == <<initVars, stepVars>>

None == {-1}

-----------------------------------------------------------------------------
InPipeline == deploy.kind \in {"pp", "ray"}

Workers == IF InPipeline THEN {1} \X Stage ELSE Engine \X {0}

LastStage == Max(Stage)

Init ==
  /\ deploy \in Deployments
  /\ chips = [w \in Workers |-> None]
  /\ bounds = [w \in Workers |-> 0]
  /\ log = <<>>
  /\ executed = [s \in Stage |-> 0]
  /\ step = [s \in Stage |-> 0]
  /\ device = [s \in Stage |-> <<>>]
  /\ offered = [s \in Stage |-> {}]
  /\ ran = [s \in Stage |-> <<>>]

-----------------------------------------------------------------------------
(* init_device().                                                          *)

\* Mutant: the chips assigned to the engine are not restored.
NotRestored(w) == deploy.preset[w[1]]

\* TPU_VISIBLE_CHIPS after the affinity of the engine has been restored: the
\* spawn of EngineCore may have lost what its engine was given.  All the
\* processes of an engine are given the same.
Restored(w) ==
  IF deploy.preset[w[1]] = {} THEN deploy.assigned[w[1]]
                              ELSE deploy.preset[w[1]]

\* _setup_dp_chip_isolation(): the ranks take their chips in turn.
DPChips(w) == ChipRange((w[1] - 1) * ChipsFor(deploy.tp), ChipsFor(deploy.tp))

\* PPConfig: a stage's chips follow those of the stages before it, and start
\* at 0 on a host of its own.
StageChips(w) ==
  ChipRange(IF deploy.kind = "ray" THEN 0 ELSE w[2] * ChipsFor(deploy.tp),
            ChipsFor(deploy.tp))

\* What libtpu is told; without TPU_VISIBLE_CHIPS it takes the whole host.
Visible(w) ==
  LET set == CASE deploy.kind = "dp" -> DPChips(w)
               [] InPipeline /\ Restored(w) = {} -> StageChips(w)
               [] OTHER -> Restored(w)
  IN IF set = {} THEN Chips ELSE set

\* TPU_CHIPS_PER_PROCESS_BOUNDS: DP and pipelines set it whatever it was, and
\* the restored affinity only if it was not.  A process without any takes
\* what it sees.
Bounds(w) ==
  IF InPipeline \/ deploy.kind = "dp" THEN ChipsFor(deploy.tp)
  ELSE IF deploy.bounds # 0 THEN deploy.bounds
  ELSE Cardinality(Visible(w))

\* A data-parallel rank whose chips the host does not have raises.
InitDevice(w) ==
  /\ chips[w] = None
  /\ deploy.kind = "dp" => DPChips(w) \subseteq Chips
  /\ chips' = [chips EXCEPT ![w] = Visible(w)]
  /\ bounds' = [bounds EXCEPT ![w] = Bounds(w)]
  /\ UNCHANGED <<deploy, stepVars>>

Up == \A w \in Workers : chips[w] # None

-----------------------------------------------------------------------------
(* execute_model(), for the stages of a pipeline.                          *)

\* The engine sends a step to every stage; it keeps as many steps in flight
\* as there are stages.
SendStep ==
  /\ Up /\ InPipeline
  /\ Len(log) < MaxSteps
  /\ Len(log) - executed[LastStage] < Cardinality(Stage)
  /\ \E b \in Batch : log' = Append(log, b)
  /\ UNCHANGED <<initVars, executed, step, device, offered, ran>>

\* Mutant: the step counter is not part of the uuid.
UuidOfBatch(b, rank, counter) == <<b, rank>>

\* get_uuid_for_jax_transfer(): a hash of the batch, the step and the sender.
Uuid(b, rank, counter) == <<b, rank, counter>>

\* The hidden states that a stage computes for a batch have this many rows.
Rows ==
  [b \in Batch \ {<<>>} |-> DP * PaddedTokens(SetToSeq(DOMAIN b), b, FALSE)]

\* max_tokens_per_rank: a scheduler of several ranks (outside the repository)
\* is taken to count it; one that knows of a single rank does not, and the
\* average is taken instead.
FullestRank(b) ==
  LET Count(ranks) == MapThenSumSet(LAMBDA r : b[r],
                                    {r \in DOMAIN b : Rank[r] \in ranks})
  IN IF DP > 1 THEN Max({Count({d}) : d \in 0 .. DP - 1})
     ELSE CeilDiv(Count(0 .. DP - 1), DP)

\* _get_padded_total_tokens(): the rows that the next stage expects.
SpecRows ==
  [b \in Batch \ {<<>>} |-> DP * PaddedLen(FullestRank(b))]

\* Mutant: the last stage offers its result too.
OffersAlways(s, b) == b # <<>>

\* The runner returns intermediate tensors, but on the last stage.
Offers(s, b) == b # <<>> /\ s # LastStage

\* Mutant: only a step that offers something is counted.
CountedIfOffered(s, b) == IF Offers(s, b) THEN step[s] + 1 ELSE step[s]

\* Both branches of execute_model() count the step.
NextCounter(s, b) == step[s] + 1

\* A stage runs the next step: it starts the pull of its input, dispatches the
\* forward, and offers the result unless it is the last.  A step without
\* tokens runs nothing; what its pull asks for is never offered.
ExecuteModel(s) ==
  /\ executed[s] < Len(log)
  /\ LET b == log[executed[s] + 1] IN
       /\ device' = IF b = <<>> THEN device
                    ELSE [device EXCEPT ![s] = Append(@,
                      [k |-> executed[s] + 1,
                       pull |-> IF s = 0 THEN <<>>
                                ELSE <<Uuid(b, s - 1, step[s])>>,
                       rows |-> IF s = 0 THEN 0 ELSE SpecRows[b]])]
       /\ offered' = IF ~ Offers(s, b) THEN offered
                     ELSE [offered EXCEPT ![s] = @ \cup
                       {[uuid |-> Uuid(b, s, step[s]), k |-> executed[s] + 1,
                         rows |-> Rows[b]]}]
       /\ step' = [step EXCEPT ![s] = NextCounter(s, b)]
  /\ executed' = [executed EXCEPT ![s] = @ + 1]
  /\ UNCHANGED <<initVars, log, ran>>

\* The device of a stage runs what was dispatched first, once its input has
\* been computed and pulled.
RunForward(s) ==
  /\ device[s] # <<>>
  /\ LET job == Head(device[s])
         input == IF s = 0 THEN {}
                  ELSE {t \in offered[s - 1] :
                          /\ <<t.uuid>> = job.pull
                          /\ \E i \in DOMAIN ran[s - 1] :
                               ran[s - 1][i].k = t.k}
     IN \/ /\ job.pull = <<>>
           /\ ran' = [ran EXCEPT ![s] =
                Append(@, [k |-> job.k, from |-> job.k, fits |-> TRUE])]
           /\ UNCHANGED offered
        \/ \E t \in input :
             /\ ran' = [ran EXCEPT ![s] =
                  Append(@, [k |-> job.k, from |-> t.k,
                             fits |-> t.rows = job.rows])]
             /\ offered' = [offered EXCEPT ![s - 1] = @ \ {t}]
  /\ device' = [device EXCEPT ![s] = Tail(@)]
  /\ UNCHANGED <<initVars, log, executed, step>>

-----------------------------------------------------------------------------

Next ==
  \/ \E w \in Workers : InitDevice(w)
  \/ SendStep
  \/ \E s \in Stage : ExecuteModel(s) \/ RunForward(s)

Spec == Init /\ [][Next]_vars

\* Workers answer every call of the engine, and devices run what is ready.
FairSpec ==
  /\ Spec
  /\ WF_vars(\E w \in Workers : InitDevice(w))
  /\ \A s \in Stage : WF_vars(ExecuteModel(s)) /\ WF_vars(RunForward(s))

-----------------------------------------------------------------------------
(* Properties.                                                             *)

TypeOK ==
  /\ deploy \in Deployments
  /\ \A w \in Workers : chips[w] = None \/ chips[w] \subseteq Chips
  /\ bounds \in [Workers -> Nat]
  /\ log \in Seq(Batch)
  /\ executed \in [Stage -> 0 .. MaxSteps]
  /\ step \in [Stage -> 0 .. MaxSteps]

\* Two processes of a host see a chip in common only if they are stages of a
\* pipeline that was given chips: those are then kept, or restored, for every
\* stage alike.  No engine sees another's ("the first co-located EngineCore
\* claims every chip on the host").  A process sees as many chips as it needs,
\* and is told to have as many as it sees, unless such a pipeline or bounds
\* that were set before say otherwise.
ChipsAreOwn ==
  LET givenPipeline == InPipeline /\ Given(deploy, 1) # {} IN
  /\ \A v, w \in Workers :
       v # w /\ deploy.kind # "ray" /\ None \notin {chips[v], chips[w]} =>
         chips[v] \cap chips[w] = {} \/ givenPipeline
  /\ \A w \in Workers :
       chips[w] # None =>
         /\ Cores * Cardinality(chips[w]) >= deploy.tp
         /\ \/ bounds[w] = Cardinality(chips[w])
            \/ deploy.kind = "colocated" /\ bounds[w] = deploy.bounds
            \/ givenPipeline

\* A stage runs a step on the tensors that the stage before it computed in the
\* same step, and they have the shape that it allocated for them.
InputIsOfTheStep ==
  \A s \in Stage : \A i \in DOMAIN ran[s] :
    ran[s][i].from = ran[s][i].k /\ ran[s][i].fits

\* Nothing is left on offer once all stages have run all steps.
EverythingIsPulled ==
  (\A s \in Stage : executed[s] = Len(log) /\ device[s] = <<>>) =>
    \A s \in Stage : offered[s] = {}

\* Every step with tokens reaches the last stage's device.
StepsComplete ==
  \A k \in 1 .. MaxSteps :
    (Len(log) >= k /\ log[k] # <<>>) ~>
      \E i \in DOMAIN ran[LastStage] : ran[LastStage][i].k = k

=============================================================================
