---------------------------- MODULE BatchLayout ----------------------------
(***************************************************************************)
(* How TPUModelRunner lays a batch out for the device.  The input batch is *)
(* a sequence of requests, one row each; under data parallelism every      *)
(* request belongs to a rank, and the arrays of a step are the ranks'      *)
(* shares one after the other, each padded to the same length:             *)
(*                                                                         *)
(*   input_ids     PaddedTokens places per rank, the scheduled tokens of   *)
(*                 its requests one after the other;                       *)
(*   next_tokens   PaddedReqs places per rank, one per request.            *)
(*                                                                         *)
(* With speculative decoding a request is also fed drafts, and next_tokens *)
(* has the drafts that were accepted and the token that follows them.      *)
(*                                                                         *)
(* Device arrays are functions whose domain starts at 0, as in the code; a *)
(* batch is a sequence, and its i-th request has req_idx i - 1.            *)
(***************************************************************************)
EXTENDS Integers, FiniteSets, TLC, SequencesExt, FiniteSetsExt

CONSTANTS
  Req,       \* the requests
  DP,        \* dp_size
  Rank,      \* request -> scheduler_output.assigned_dp_rank
  Paddings   \* the lengths that arrays are padded to

ASSUME LayoutAssumption ==
  /\ DP \in Nat \ {0}
  /\ Rank \in [Req -> 0 .. DP - 1]
  /\ Paddings \subseteq Nat \ {0}
  /\ IsFiniteSet(Req)
  /\ \E p \in Paddings : p >= Cardinality(Req)

\* The token at position p of request r is <<r, p>>: which one it is does not
\* matter, only that it is that request's and that position's.
\* A draft that the model does not confirm, or a guess at a token that was
\* given, is <<r, -p>>.
Zero    == <<"zero", 0>>       \* the placeholder, and unwritten places
Garbage == <<"garbage", 0>>    \* sampled from a wrong input or a padded slot

\* runner_utils.get_padded_token_len()
PaddedLen(x) == Min({p \in Paddings : p >= x})

\* The k-th smallest number of S.
Nth(S, k) == CHOOSE i \in S : Cardinality({j \in S : j < i}) = k - 1

\* req_indices_dp[d] and req_ids_dp[d]: the requests of rank d, in the order
\* of the batch, by index and by name.
Indices(batch, d) ==
  LET at == {i \in DOMAIN batch : Rank[batch[i]] = d}
  IN [k \in 1 .. Cardinality(at) |-> Nth(at, k)]
OnRank(batch, d) ==
  [k \in DOMAIN Indices(batch, d) |-> batch[Indices(batch, d)[k]]]

\* query_start_loc of rank d after its first k requests.
QueryStart(batch, n, d, k) ==
  MapThenSumSet(LAMBDA i : n[OnRank(batch, d)[i]], 1 .. k)

\* num_scheduled_tokens_per_dp_rank[d]
TokensOnRank(batch, n, d) == QueryStart(batch, n, d, Len(OnRank(batch, d)))

PaddedReqs(batch) ==
  PaddedLen(Max({Len(OnRank(batch, d)) : d \in 0 .. DP - 1}))

\* padded_num_scheduled_tokens_per_dp_rank; a decode-only batch of
\* continue_decode has one token per request.
PaddedTokens(batch, n, burst) ==
  IF burst THEN PaddedReqs(batch)
  ELSE PaddedLen(Max({TokensOnRank(batch, n, d) : d \in 0 .. DP - 1}))

\* Mutant: positions are concatenated rank by rank and never sorted back.
PlacesUnsorted(batch, width) ==
  FlattenSeq([d \in 1 .. DP |->
    [i \in 1 .. Len(OnRank(batch, d - 1)) |-> i - 1 + width * (d - 1)]])

\* logits_indices_selector and tokens_indices_selector: for each request of
\* the batch, in batch order, its place in an array of width places per rank.
\* argsort() inverts the concatenation of the ranks' indices.
Places(batch, width) ==
  LET placed == UNION {{<<Indices(batch, d)[k], k - 1 + width * d>> :
                          k \in DOMAIN Indices(batch, d)} : d \in 0 .. DP - 1}
  IN [i \in DOMAIN batch |-> (CHOOSE p \in placed : p[1] = i)[2]]

\* input_ids as _prepare_inputs() fills it from token_ids_cpu; the share of a
\* rank without requests keeps what the buffer held.
InputIds(batch, n, computed, row, width) ==
  [g \in 0 .. DP * width - 1 |->
    LET d == g \div width
        j == g % width
        owner == {i \in 1 .. Len(OnRank(batch, d)) :
                    /\ QueryStart(batch, n, d, i - 1) <= j
                    /\ j < QueryStart(batch, n, d, i)}
    IN IF OnRank(batch, d) = <<>> THEN Garbage
       ELSE IF owner = {} THEN Zero
       ELSE LET i == CHOOSE i \in owner : TRUE
                r == OnRank(batch, d)[i]
            IN row[r][computed[r] + j - QueryStart(batch, n, d, i - 1)]]

\* logits_indices: per rank, where each request's last token is; padded by -1.
LogitsIndices(batch, n) ==
  LET width == PaddedReqs(batch) IN
  [s \in 0 .. DP * width - 1 |->
    LET d == s \div width
        i == (s % width) + 1
    IN IF i <= Len(OnRank(batch, d)) THEN QueryStart(batch, n, d, i) - 1
                                     ELSE -1]

\* The place of the first token of a request in an array of width places
\* per rank.
FirstPlace(batch, n, r, width) ==
  LET k == CHOOSE k \in 1 .. Len(OnRank(batch, Rank[r])) :
             OnRank(batch, Rank[r])[k] = r
  IN width * Rank[r] + QueryStart(batch, n, Rank[r], k - 1)

\* _prepare_async_token_substitution_indices(): pairs of a place in input_ids
\* and the place in the previous step's result that belongs there; a request
\* has stride places in that result, one after the other.
SubstitutionIndices(batch, n, decoding, placeholders, width, stride) ==
  UNION {{<<FirstPlace(batch, n, r, width) + j,
            placeholders[r] * stride + j>> : j \in 0 .. n[r] - 1} :
           r \in ToSet(batch) \cap decoding \cap DOMAIN placeholders}

\* _apply_async_token_substitution() and _substitute_placeholder_token(): the
\* padded index list is a permutation, so each place is written once.
Substituted(ids, pairs, next) ==
  [g \in DOMAIN ids |->
    IF \E p \in pairs : p[1] = g
    THEN next[(CHOOSE p \in pairs : p[1] = g)[2]]
    ELSE ids[g]]

\* positions: where each fed token is in its request, less what is subtracted
\* on the device for that request.
Positions(batch, n, computed, subtracted, width) ==
  LET at == UNION {{<<FirstPlace(batch, n, r, width) + j,
                      computed[r] + j - subtracted[r]>> :
                      j \in 0 .. n[r] - 1} : r \in ToSet(batch)}
  IN [g \in {a[1] : a \in at} |-> (CHOOSE a \in at : a[1] = g)[2]]

\* What sampling yields at each slot of next_tokens: the drafts, drafted[r] of
\* the last tokens fed, up to the first that the model does not confirm, and
\* the token that follows; if the slot's request was given its own tokens at
\* the positions that are new in this step.  In the middle of a prompt it is
\* a guess.
NextTokens(batch, n, drafted, whole, ids, positions, width) ==
  LET slots == PaddedReqs(batch)
      logits == LogitsIndices(batch, n)
  IN [s \in 0 .. DP * slots - 1 |->
       LET d == s \div slots
           r == OnRank(batch, d)[(s % slots) + 1]
           last == width * d + logits[s]
           right(g) == ids[g] = <<r, positions[g]>>
           known == last - drafted[r]
           accepted == Max({k \in 0 .. drafted[r] :
                              \A j \in 1 .. k : right(known + j)})
           next == positions[known] + 1
       IN IF logits[s] < 0 THEN <<Garbage>>
          ELSE IF r \notin whole THEN <<<<r, -next>>>>
          ELSE IF \A g \in last - n[r] + 1 .. known : right(g)
          THEN [k \in 1 .. accepted + 1 |-> <<r, next + k - 1>>]
          ELSE <<Garbage>>]

\* Mutant: the shares of the ranks are taken to follow one another unpadded.
ExpertIndicesUnpadded(batch, n, width) ==
  [i \in 1 .. MapThenSumSet(LAMBDA k : n[batch[k]], DOMAIN batch) |-> i - 1]

\* indices_map of _reconstruct_routed_experts(): for the tokens of the batch,
\* one request after the other in batch order, their places in input_ids.
ExpertIndices(batch, n, width) ==
  FlattenSeq([i \in 1 .. Len(batch) |->
    [j \in 1 .. n[batch[i]] |->
      FirstPlace(batch, n, batch[i], width) + j - 1]])

=============================================================================
