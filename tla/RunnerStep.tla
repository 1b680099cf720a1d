----------------------------- MODULE RunnerStep -----------------------------
(***************************************************************************)
(* TPUModelRunner's step: execute_model() prepares the inputs and computes *)
(* logits, sample_tokens() samples and does the bookkeeping.  Three modes: *)
(*                                                                         *)
(*   sync      the tokens of a step are on the host before the next step;  *)
(*   async     the scheduler runs one step ahead: a step leaves            *)
(*             placeholders, the next one substitutes the tokens on the    *)
(*             device, and only then corrects the host's copy;             *)
(*   continue  sync, and a decode-only batch runs a burst of steps on the  *)
(*             device (continue_decode).                                   *)
(*                                                                         *)
(* An asynchronous runner may also decode speculatively: it feeds a        *)
(* request its last token and drafts of the next ones, which never leave   *)
(* the device, and the host counts on all of them until it learns which    *)
(* the model has confirmed.                                                *)
(*                                                                         *)
(* No pooling or pipeline stages.  vLLM's scheduler, update_states(), the  *)
(* drafter and the rejection sampler are outside the repository: they      *)
(* start, skip, preempt, resume and abort requests, permute the rows of    *)
(* the batch, rebuild the row of a request that enters it from what the    *)
(* scheduler has received, and propose and judge the drafts.  Tokens are   *)
(* modelled as in BatchLayout.                                             *)
(***************************************************************************)
EXTENDS BatchLayout

CONSTANTS
  Prompt,        \* request -> num_prompt_tokens
  Configs        \* the deployments, of which a behaviour has one

\* A deployment: its mode, the requests that its clients send, max_model_len,
\* the scheduler's token budget for one request, static_max_decode_steps,
\* num_speculative_tokens (0 without drafts), and whether its KV cache is so
\* small that requests are preempted.
Config == [mode : {"sync", "async", "continue"}, reqs : SUBSET Req,
           maxLen : Nat \ {0}, chunk : Nat \ {0}, maxBurst : Nat \ {0},
           drafts : Nat, preempts : BOOLEAN]

ASSUME RunnerAssumption ==
  /\ Prompt \in [Req -> Nat]
  /\ Configs \subseteq Config
  /\ \A c \in Configs :
       /\ \A r \in c.reqs : Prompt[r] \in 1 .. c.maxLen - 1
       /\ c.drafts > 0 => c.mode = "async"
       /\ \E p \in Paddings : p >= Cardinality(Req) * c.chunk

VARIABLES
  config,     \* the deployment
  \* vLLM's scheduler.
  status,     \* "waiting", "running", "preempted" or "finished"
  received,   \* the sampled tokens the scheduler has been given
  computed,   \* num_computed_tokens
  inflight,   \* num_output_placeholders
  gone,       \* finished_req_ids that the runner has not been told of
  so,         \* the scheduler output: num_scheduled_tokens of this step
  drafted,    \* and how many of them are scheduled_spec_decode_tokens
  queue,      \* outputs of steps on their way to the scheduler
  \* The runner.
  pc,         \* what the engine calls next
  batch,      \* input_batch.req_ids
  row,        \* input_batch.token_ids_cpu, by request
  num,        \* input_batch.num_tokens_no_spec, by request
  output,     \* req_state.output_token_ids
  pre,        \* _pre_async_results: empty or one record
  state,      \* execute_model_state: empty or one record
  burst       \* _continue_decode_output: empty or one output

schedulerVars == <<status, received, computed, inflight, gone>>
hostVars == <<batch, row, num, output>>
stepVars == <<so, drafted>>
vars ==
  <<config, schedulerVars, stepVars, queue, pc, hostVars, pre, state, burst>>

-----------------------------------------------------------------------------

Mode == config.mode
MaxLen == config.maxLen
Chunk == config.chunk
MaxBurst == config.maxBurst
Drafts == config.drafts

Token == {Zero, Garbage} \cup (Req \X (- MaxLen .. MaxLen))

TypeOK ==
  /\ config \in Configs
  /\ status \in [Req -> {"waiting", "running", "preempted", "finished"}]
  /\ \A r \in Req : received[r] \in Seq(Token) /\ output[r] \in Seq(Token)
  /\ computed \in [Req -> 0 .. MaxLen]
  /\ inflight \in [Req -> 0 .. 2 * (1 + Drafts)]
  /\ gone \subseteq Req
  /\ DOMAIN so \subseteq Req
  /\ drafted \in [DOMAIN so -> 0 .. Drafts]
  /\ pc \in {"schedule", "execute", "sample"}
  /\ ToSet(batch) \subseteq Req
  /\ row \in [Req -> [0 .. MaxLen - 1 -> Token]]
  /\ num \in [Req -> 0 .. MaxLen]
  /\ Len(pre) <= 1 /\ Len(state) <= 1 /\ Len(burst) <= 1

Init ==
  /\ config \in Configs
  /\ status = [r \in Req |-> IF r \in config.reqs THEN "waiting"
                             ELSE "finished"]
  /\ received = [r \in Req |-> <<>>]
  /\ computed = [r \in Req |-> 0]
  /\ inflight = [r \in Req |-> 0]
  /\ gone = {}
  /\ so = <<>>
  /\ drafted = <<>>
  /\ queue = <<>>
  /\ pc = "schedule"
  /\ batch = <<>>
  /\ row = [r \in Req |-> [p \in 0 .. MaxLen - 1 |-> Zero]]
  /\ num = [r \in Req |-> 0]
  /\ output = [r \in Req |-> <<>>]
  /\ pre = <<>>
  /\ state = <<>>
  /\ burst = <<>>

Async == Mode = "async"

\* The tokens of r that the scheduler knows.
Known(r) == Prompt[r] + Len(received[r])

-----------------------------------------------------------------------------
(* vLLM's scheduler.                                                       *)

\* The tokens of r that there will be once all outputs are received, as far
\* as the scheduler can count.
Expected(r) == Known(r) + inflight[r]

\* The tokens that a step would compute for r from position c on; drafts
\* follow a token that is still on the device.
Scheduled(r, c) ==
  Min({Chunk, MaxLen - 1 - c,
       Expected(r) - c + IF inflight[r] > 0 THEN Drafts ELSE 0})

\* schedule(): any choice of requests, the others being skipped or
\* preempted; it runs ahead of the outputs by one step when asynchronous.
Schedule ==
  /\ pc = "schedule"
  /\ Len(queue) <= IF Async THEN 1 ELSE 0
  /\ \E S, P \in SUBSET {r \in Req : status[r] # "finished"} :
       /\ P \subseteq {r \in Req : status[r] = "running"} \ S
       /\ P # {} => config.preempts
       /\ LET from == [r \in Req |-> IF r \in P THEN 0 ELSE computed[r]]
          IN /\ \A r \in S : Scheduled(r, from[r]) > 0
             /\ so' = [r \in S |-> Scheduled(r, from[r])]
             /\ drafted' = [r \in S |->
                  Max({0, from[r] + so'[r] - Expected(r)})]
             /\ computed' = from
       /\ status' = [r \in Req |-> IF r \in S THEN "running"
                                   ELSE IF r \in P THEN "preempted"
                                   ELSE status[r]]
  /\ pc' = "execute"
  /\ UNCHANGED <<config, received, inflight, gone, queue, hostVars, pre,
                 state, burst>>

\* The client leaves.
Abort(r) ==
  /\ pc = "schedule"
  /\ status[r] # "finished"
  /\ status' = [status EXCEPT ![r] = "finished"]
  /\ gone' = gone \cup {r}
  /\ UNCHANGED <<config, received, computed, inflight, stepVars, queue, pc,
                 hostVars, pre, state, burst>>

\* After the step was dispatched the scheduler counts it as computed, and as
\* more tokens to come when it reached the end of what there is: one, and
\* every draft.
Advanced(r) == computed[r] + so[r]

ScheduleAhead ==
  /\ computed' = [r \in Req |-> IF r \in DOMAIN so THEN Advanced(r)
                                ELSE computed[r]]
  /\ inflight' = [r \in Req |->
       IF Async /\ r \in DOMAIN so /\ Advanced(r) >= Expected(r)
       THEN inflight[r] + 1 + drafted[r] ELSE inflight[r]]

\* update_from_output(): the tokens of unfinished requests are appended, and
\* drafts that were rejected are no longer counted as computed; a request
\* finishes at a stop token or at the model's maximum length.  With drafts,
\* an output is taken only after the next step has been dispatched.
Deliver ==
  /\ queue # <<>>
  /\ Drafts > 0 => Len(queue) = 2 \/ \A r \in Req : status[r] = "finished"
  /\ LET out == Head(queue)
         tokens == [r \in Req |->
           IF r \in ToSet(out.batch) /\ status[r] # "finished"
           THEN out.tokens[CHOOSE i \in DOMAIN out.batch : out.batch[i] = r]
           ELSE <<>>]
         got == {r \in Req : tokens[r] # <<>>}
     IN /\ received' = [r \in Req |-> received[r] \o tokens[r]]
        /\ inflight' = [r \in Req |->
             IF Async /\ r \in got THEN inflight[r] - 1 - out.drafted[r]
             ELSE inflight[r]]
        /\ computed' = [r \in Req |->
             IF r \in got /\ computed[r] > 0
             THEN computed[r] + Len(tokens[r]) - 1 - out.drafted[r]
             ELSE computed[r]]
        /\ \E stopped \in SUBSET got :
             /\ \A r \in got : Prompt[r] + Len(received'[r]) >= MaxLen
                                 => r \in stopped
             /\ \A r \in got \ stopped : r \notin out.eos
             /\ gone' = gone \cup stopped
             /\ status' = [r \in Req |-> IF r \in stopped THEN "finished"
                                         ELSE status[r]]
  /\ queue' = Tail(queue)
  /\ UNCHANGED <<config, stepVars, pc, hostVars, pre, state, burst>>

-----------------------------------------------------------------------------
(* Host bookkeeping.                                                       *)

\* host_extract_sampled_tokens(): the tokens of each counted request, in
\* batch order, from the next_tokens of a step.
Extracted(e) ==
  [i \in DOMAIN e.batch |->
    IF i \in e.counted THEN e.next[e.places[i]] ELSE <<>>]

\* Mutant: a result is written to the row that its request had before.
TargetsByIndex(e, b) == {<<i, b[i]>> : i \in e.counted \cap DOMAIN b}

\* The counted results and the requests of batch b that they are written to:
\* a request that has left the batch is skipped.
Targets(e, b) ==
  {<<i, e.batch[i]>> : i \in {k \in e.counted : e.batch[k] \in ToSet(b)}}

\* Append tokens[r] to the row and the output_token_ids of each request of who.
WithTokens(who, tokens, host) ==
  [row |-> [r \in Req |-> IF r \in who
     THEN [p \in 0 .. MaxLen - 1 |->
             IF p - host.num[r] + 1 \in DOMAIN tokens[r]
             THEN tokens[r][p - host.num[r] + 1] ELSE host.row[r][p]]
     ELSE host.row[r]],
   num |-> [r \in Req |-> IF r \in who THEN host.num[r] + Len(tokens[r])
                                      ELSE host.num[r]],
   output |-> [r \in Req |-> IF r \in who THEN host.output[r] \o tokens[r]
                                         ELSE host.output[r]]]

\* pre_num_placeholder_tokens: one, and one for each draft of step e.
PlaceholdersOf(e, r) ==
  1 + IF r \in DOMAIN e.drafted THEN e.drafted[r] ELSE 0

\* Take the placeholders of a step e out again.
WithoutPlaceholders(who, e, host) ==
  [host EXCEPT
    !.num = [r \in Req |-> IF r \in who THEN @[r] - PlaceholdersOf(e, r)
                           ELSE @[r]],
    !.output = [r \in Req |->
      IF r \in who THEN SubSeq(@[r], 1, Len(@[r]) - PlaceholdersOf(e, r))
      ELSE @[r]]]

\* _modify_prev_results(): the tokens of the previous step replace their
\* placeholders in the rows and output_token_ids of batch b.
Modified(e, b, host) ==
  LET targets == Targets(e, b)
      hit == {t[2] : t \in targets}
      tokens == [r \in hit |->
                   Extracted(e)[(CHOOSE t \in targets : t[2] = r)[1]]]
  IN WithTokens(hit, tokens, WithoutPlaceholders(hit, e, host))

\* _update_placeholder(): as many tokens, not known yet, for each request.
WithPlaceholders(who, host) ==
  [host EXCEPT
    !.num = [r \in Req |-> IF r \in who THEN @[r] + 1 + drafted[r] ELSE @[r]],
    !.output = [r \in Req |->
      IF r \in who THEN @[r] \o [j \in 1 .. 1 + drafted[r] |-> Zero]
      ELSE @[r]]]

Host == [row |-> row, num |-> num, output |-> output]

SetHost(host) ==
  /\ row' = host.row
  /\ num' = host.num
  /\ output' = host.output

\* update_states(): the rows of the requests that enter batch b are built
\* from what the scheduler knows; rows of the others move as they are.
Entered(b) ==
  LET new == ToSet(b) \ ToSet(batch)
      known(r) == [p \in 0 .. MaxLen - 1 |->
        IF p < Prompt[r] THEN <<r, p>>
        ELSE IF p < Known(r) THEN received[r][p - Prompt[r] + 1] ELSE Zero]
  IN [row |-> [r \in Req |-> IF r \in new THEN known(r)
               ELSE IF r \in ToSet(b) THEN row[r]
               ELSE [p \in 0 .. MaxLen - 1 |-> Zero]],
      num |-> [r \in Req |-> IF r \in new THEN Known(r)
               ELSE IF r \in ToSet(b) THEN num[r] ELSE 0],
      output |-> [r \in Req |-> IF r \in new THEN received[r]
                  ELSE IF r \in ToSet(b) THEN output[r] ELSE <<>>]]

-----------------------------------------------------------------------------
(* execute_model().                                                        *)

Output(b, tokens, eos) ==
  [batch |-> b, tokens |-> tokens, eos |-> eos, drafted |-> drafted]

\* Nothing is scheduled: the previous results are flushed.
ExecuteEmpty ==
  /\ pc = "execute"
  /\ DOMAIN so = {}
  /\ batch' = <<>>
  /\ SetHost(IF pre = <<>> THEN Entered(<<>>)
             ELSE Modified(pre[1], <<>>, Entered(<<>>)))
  /\ gone' = {}
  /\ pre' = <<>>
  /\ queue' = Append(queue, Output(<<>>, <<>>, {}))
  /\ pc' = "schedule"
  /\ UNCHANGED <<config, status, received, computed, inflight, stepVars,
                 state, burst>>

\* The requests of b that are past their prompt (is_prefill is false).
Decoding(b) == {r \in ToSet(b) : computed[r] >= Prompt[r]}

\* _prepare_inputs(): input_ids of batch b, with the tokens of the previous
\* step substituted on the device.
PreparedIds(b, host, width) ==
  LET ids == InputIds(b, so, computed, host.row, width)
  IN IF pre = <<>> THEN ids
     ELSE Substituted(ids,
            SubstitutionIndices(b, so, Decoding(b), pre[1].placeholders,
                                width, 1 + Drafts),
            pre[1].device)

\* Mutant: what the previous step has rejected is not taken back.
RejectedKept(r) == 0

\* spec_decode_num_rejected_tokens of the previous step, for a request of it.
Rejected(r) ==
  IF Drafts > 0 /\ pre # <<>> /\ r \in DOMAIN pre[1].placeholders
  THEN pre[1].rejected[pre[1].placeholders[r]] ELSE 0

\* positions, with the rejections of the previous step subtracted.
PreparedPositions(b, width) ==
  Positions(b, so, computed, [r \in Req |-> Rejected(r)], width)

\* The requests of b whose tokens are all computed after this step.
Whole(b, host) ==
  {r \in ToSet(b) : computed[r] + so[r] >= Prompt[r] + Len(host.output[r])}

\* What a step samples for batch b.
NextOf(b, host, width) ==
  NextTokens(b, so, drafted, Whole(b, host), PreparedIds(b, host, width),
             PreparedPositions(b, width), width)

\* request_distribution[0] is the number of requests: a request counts as a
\* decode when it has one scheduled token.
DecodeOnly == Mode = "continue" /\ \A r \in DOMAIN so : so[r] = 1

Batches == {b \in SetToSeqs(DOMAIN so) : b # <<>>}

\* _execute_model(), up to the logits that sample_tokens() will use.
ExecuteModel ==
  /\ pc = "execute"
  /\ DOMAIN so # {}
  /\ ~ DecodeOnly
  /\ state = <<>>
  /\ \E b \in Batches :
       LET host  == Entered(b)
           width == PaddedTokens(b, so, FALSE)
       IN /\ batch' = b
          /\ SetHost(host)
          /\ state' = <<[batch |-> b,
                         next |-> NextOf(b, host, width),
                         places |-> Places(b, PaddedReqs(b)),
                         ids |-> PreparedIds(b, host, width),
                         first |-> [r \in DOMAIN so |->
                                      computed[r] - Rejected(r)],
                         experts |-> ExpertIndices(b, so, width)]>>
  /\ ScheduleAhead
  /\ gone' = {}
  /\ pc' = "sample"
  /\ UNCHANGED <<config, status, received, stepVars, queue, pre, burst>>

\* _get_min_remaining_slots()
MinRemaining(host, b) == MaxLen - Max({host.num[r] : r \in ToSet(b)})

\* Mutant: the burst is not limited by the room that the requests have left.
MaxDecodeStepsUnlimited(host, b) == MaxBurst

\* max_decode_steps of a burst.
MaxDecodeSteps(host, b) == Max({1, Min({MaxBurst, MinRemaining(host, b)})})

\* _execute_continue_decode(): the device samples up to max_decode_steps
\* tokens per request and stops early when requests reach a stop token.
ExecuteContinueDecode ==
  /\ pc = "execute"
  /\ DOMAIN so # {}
  /\ DecodeOnly
  /\ \E b \in Batches :
       LET entered == Entered(b)
           width == PaddedTokens(b, so, TRUE)
           next == NextOf(b, entered, width)
           places == Places(b, width)
       IN \E steps \in 1 .. MaxDecodeSteps(entered, b),
             eos \in SUBSET DOMAIN so :
          \E len \in [DOMAIN so -> 1 .. steps] :
            LET first(r) == next[places[CHOOSE i \in DOMAIN b : b[i] = r]][1]
                tokens == [r \in DOMAIN so |-> [k \in 1 .. len[r] |->
                             <<first(r)[1], first(r)[2] + k - 1>>]]
                fitting == {r \in DOMAIN so :
                              entered.num[r] + len[r] <= MaxLen}
            IN /\ steps < MaxDecodeSteps(entered, b) => eos # {}
               /\ \A r \in DOMAIN so : len[r] < steps => r \in eos
               /\ batch' = b
               /\ SetHost(WithTokens(fitting, tokens, entered))
               /\ burst' = <<Output(b, [i \in DOMAIN b |-> tokens[b[i]]],
                                     eos)>>
  /\ ScheduleAhead
  /\ gone' = {}
  /\ pc' = "sample"
  /\ UNCHANGED <<config, status, received, stepVars, queue, pre, state>>

-----------------------------------------------------------------------------
(* sample_tokens().                                                        *)

\* A burst has sampled already.
SampleBurst ==
  /\ pc = "sample"
  /\ burst # <<>>
  /\ queue' = Append(queue, burst[1])
  /\ burst' = <<>>
  /\ pc' = "schedule"
  /\ UNCHANGED <<config, schedulerVars, stepVars, hostVars, pre, state>>

\* Mutant: a chunk of a prefill counts like the whole of it.
CountedAll(b) == DOMAIN b

\* The requests whose scheduled tokens reach the end of what they have; the
\* sampled token of the others is discarded.
Counted(b) ==
  {i \in DOMAIN b : computed[b[i]] >= Prompt[b[i]] + Len(output[b[i]])}

\* What is kept of a step's sampling.
Sampled ==
  LET s == state[1] IN
  [batch |-> s.batch, next |-> s.next, places |-> s.places,
   counted |-> Counted(s.batch)]

\* _sample_from_logits(), synchronous.
SampleSync ==
  /\ pc = "sample"
  /\ state # <<>>
  /\ ~ Async
  /\ LET e == Sampled
         tokens == [r \in ToSet(e.batch) |->
           Extracted(e)[CHOOSE i \in DOMAIN e.batch : e.batch[i] = r]]
     IN /\ SetHost(WithTokens({e.batch[i] : i \in e.counted}, tokens, Host))
        /\ queue' = Append(queue, Output(e.batch, Extracted(e), {}))
  /\ state' = <<>>
  /\ pc' = "schedule"
  /\ UNCHANGED <<config, schedulerVars, stepVars, batch, pre, burst>>

\* The row of the i-th request in the arrays of speculative decoding, which
\* have max_num_reqs // dp_size rows per rank.
SpecRow(e, i) == Places(e.batch, Cardinality(Req))[i]

\* Mutant: a placeholder remembers its row, not its place on the device.
PlaceOfRow(e, i) == i - 1

\* Where the next step finds the token of the i-th request.
PlaceOf(e, i) == IF Drafts = 0 THEN e.places[i] ELSE SpecRow(e, i)

\* placeholder_req_id_to_index; with drafts, also of the requests whose
\* sampled token is discarded.
Placeholders(e) ==
  [r \in {e.batch[i] : i \in IF Drafts = 0 THEN e.counted
                             ELSE DOMAIN e.batch} |->
    PlaceOf(e, CHOOSE i \in DOMAIN e.batch : e.batch[i] = r)]

\* The sampled tokens of the i-th request, counted or not.
TokensOf(e, i) == e.next[e.places[i]]

\* num_rejected_tokens
RejectedTokens(e) ==
  [p \in 0 .. DP * Cardinality(Req) - 1 |->
    IF \E i \in e.counted : SpecRow(e, i) = p
    THEN LET i == CHOOSE i \in e.counted : SpecRow(e, i) = p
         IN 1 + drafted[e.batch[i]] - Len(TokensOf(e, i))
    ELSE 0]

\* What the device keeps for the next step: next_tokens, or with drafts, in
\* each row, the request's last token and the drafts that follow it, of which
\* the first right[r] are right.
KeptTokens(e, right) ==
  LET token(i, j) ==
        LET last == Last(TokensOf(e, i)) IN
        IF j = 0 THEN last
        ELSE IF j <= right[e.batch[i]] THEN <<last[1], last[2] + j>>
        ELSE <<last[1], - last[2] - j>>
      stride == 1 + Drafts
  IN IF Drafts = 0 THEN [s \in DOMAIN e.next |-> e.next[s][1]]
     ELSE [p \in 0 .. DP * Cardinality(Req) * stride - 1 |->
            IF \E i \in DOMAIN e.batch : SpecRow(e, i) = p \div stride
            THEN token(CHOOSE i \in DOMAIN e.batch :
                         SpecRow(e, i) = p \div stride, p % stride)
            ELSE Garbage]

\* _sample_from_logits(), asynchronous: correct the host's copy of the
\* previous step, leave placeholders for this one, and return.
SampleAsync ==
  /\ pc = "sample"
  /\ state # <<>>
  /\ Async
  /\ LET e == Sampled
         prev == IF pre = <<>> THEN Host ELSE Modified(pre[1], batch, Host)
     IN \E right \in [ToSet(e.batch) -> 0 .. Drafts] :
          /\ SetHost(WithPlaceholders({e.batch[i] : i \in e.counted}, prev))
          /\ pre' = <<[batch |-> e.batch, next |-> e.next,
                       places |-> e.places, counted |-> e.counted,
                       drafted |-> drafted, placeholders |-> Placeholders(e),
                       rejected |-> RejectedTokens(e),
                       device |-> KeptTokens(e, right)]>>
          /\ queue' = Append(queue, Output(e.batch, Extracted(e), {}))
  /\ state' = <<>>
  /\ pc' = "schedule"
  /\ UNCHANGED <<config, schedulerVars, stepVars, batch, burst>>

-----------------------------------------------------------------------------

Next ==
  \/ Schedule
  \/ \E r \in Req : Abort(r)
  \/ Deliver
  \/ ExecuteEmpty
  \/ ExecuteModel
  \/ ExecuteContinueDecode
  \/ SampleBurst
  \/ SampleSync
  \/ SampleAsync

Spec == Init /\ [][Next]_vars

-----------------------------------------------------------------------------
(* Properties.                                                             *)

\* The tokens of r in the outputs that the scheduler has not received yet.
Queued(r) ==
  FlattenSeq([q \in DOMAIN queue |->
    FlattenSeq([i \in DOMAIN queue[q].batch |->
      IF queue[q].batch[i] = r THEN queue[q].tokens[i] ELSE <<>>])])

\* Every token that counts was computed from that request's own tokens and
\* continues them: what a step feeds the model, and at which positions, is
\* right although the host has only placeholders and counts on drafts that
\* were rejected, rows move, requests leave and return, and ranks are padded.
SampledIsNext ==
  state # <<>> =>
    LET s == state[1] IN
    \A i \in Counted(s.batch) :
      LET r == s.batch[i]
          tokens == s.next[s.places[i]]
      IN status[r] = "running" =>
           tokens = [k \in 1 .. Len(tokens) |->
                       <<r, Known(r) + Len(Queued(r)) + k - 1>>]

\* The scheduler receives each request's tokens in order, each once: none is
\* lost with a placeholder, delivered for a partial prefill, or to another.
ReceivedInOrder ==
  \A r \in Req : \A k \in DOMAIN received[r] :
    received[r][k] = <<r, Prompt[r] + k - 1>>

\* The host's copies agree: in the batch, only the last tokens of a request
\* can be placeholders, and only while their step is the previous one; all
\* others are that request's tokens, in its row and in output_token_ids.
HostCatchesUp ==
  pc = "schedule" =>
    \A r \in ToSet(batch) :
      LET pending ==
            IF pre # <<>> /\ r \in {pre[1].batch[i] : i \in pre[1].counted}
            THEN 1 + pre[1].drafted[r] ELSE 0
      IN /\ num[r] = Prompt[r] + Len(output[r])
         /\ \A p \in 0 .. num[r] - 1 - pending : row[r][p] = <<r, p>>
         /\ \A k \in 1 .. Len(output[r]) - pending :
              output[r][k] = <<r, Prompt[r] + k - 1>>

\* The scheduler and the runner agree how long an unfinished request is: the
\* tokens received, and those still to come, are those in the runner's row;
\* rejected drafts are taken back on both sides, once.
LengthsAgree ==
  pc = "schedule" /\ (Drafts > 0 => Len(queue) <= 1) =>
    \A r \in ToSet(batch) :
      status[r] = "running" =>
        num[r] = Known(r) + IF Async THEN inflight[r] ELSE Len(Queued(r))

\* The places from which routed experts are read, request by request, are
\* those where the request's tokens of this step, or their drafts, were fed.
ExpertsFollowTokens ==
  state # <<>> =>
    LET s == state[1]
        fed == [k \in DOMAIN s.experts |-> s.ids[s.experts[k]]]
        expected == FlattenSeq([i \in DOMAIN s.batch |->
          LET r == s.batch[i]
          IN [j \in 1 .. so[r] |-> <<r, s.first[r] + j - 1>>]])
    IN /\ Len(fed) = Len(expected)
       /\ \A k \in DOMAIN fed :
            fed[k] \in {expected[k], <<expected[k][1], - expected[k][2]>>}

\* "Check if the entire batch is in the decode phase": a burst is only run
\* for requests whose prompts are computed.
BurstOnlyDecodes ==
  burst # <<>> => \A r \in DOMAIN so : computed[r] >= Prompt[r]

\* "assert num_scheduled_tokens_per_req[i] <= max_num_spec_tokens + 1": a step
\* computes its last token, and drafts, for a request into whose input the
\* tokens of the previous step are substituted.
SubstitutedIsDecode ==
  pc = "execute" /\ pre # <<>> =>
    \A r \in DOMAIN so \cap DOMAIN pre[1].placeholders :
      computed[r] >= Prompt[r] => so[r] <= 1 + Drafts

=============================================================================
