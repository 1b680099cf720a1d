---------------------------- MODULE BlockTransfer ----------------------------
(***************************************************************************)
(* Which blocks a transfer moves, and where they land.  A prompt is a      *)
(* number of tokens; its full blocks are numbered 1, 2, ... in prompt      *)
(* order; P and D each keep block k under an id of their own.  The state   *)
(* machine takes one request through the computations that P and D make    *)
(* separately and never compare: the producer's block list, the decoder's  *)
(* match and suffix plan, the producer's check, the padded gather, and the *)
(* decoder's chunked insert.                                               *)
(***************************************************************************)
EXTENDS Naturals, Sequences, FiniteSets

CONSTANTS
  BlockSizes,    \* the block sizes to consider
  MaxPrompt,     \* bound: tokens in a prompt
  MaxBlocks,     \* bound: blocks of a prompt, the last partial one included
  DecoderIds     \* block ids in D's cache

ASSUME BlockTransferAssumption ==
  /\ BlockSizes \subseteq Nat \ {0}
  /\ MaxPrompt \in Nat \ {0}
  /\ MaxBlocks \in Nat
  /\ DecoderIds \subseteq Nat

VARIABLES
  stage,      \* "finished", "matched", "planned", "prepared", "inserted",
              \* "notified" (nothing to pull) or the error that was raised
  prompt,     \* tokens in the prompt
  blockSize,
  selective,  \* the connector mode, tpu_kv_selective_pull
  hit,        \* blocks of the prompt that D's prefix cache holds
  decoder,    \* D's ids for the prompt's full blocks, in prompt order
  external,   \* num_external_tokens, as D's scheduler computes it
  remote,     \* LoadMeta.remote_block_ids
  local,      \* LoadMeta.local_block_ids
  slab,       \* what the transfer server offers: one block per index
  cache       \* D's cache: id -> number of the prompt block, or 0

vars == <<stage, prompt, blockSize, selective, hit, decoder, external, remote,
          local, slab, cache>>

-----------------------------------------------------------------------------
(* Sizes.                                                                  *)

CeilDiv(a, b) == (a + b - 1) \div b

\* P's block_ids: the blocks vLLM allocated for the prompt.  P's id of block
\* k is 10 * k: nothing but equality of ids matters on P.
ProducerIds(n, b) == [k \in 1..CeilDiv(n, b) |-> 10 * k]

\* Mutant: the partial block is always dropped, also when there is none.
AlwaysDropLast(n, b) ==
  SubSeq(ProducerIds(n, b), 1, CeilDiv(n, b) - 1)

\* request_finished(): the last block is left out unless it is full.
ComputedBlockIds(n, b) ==
  IF n % b = 0 THEN ProducerIds(n, b)
               ELSE SubSeq(ProducerIds(n, b), 1, CeilDiv(n, b) - 1)

\* get_num_new_matched_tokens(): round_down(prompt) - num_computed_tokens.
ExternalTokens(n, b, h) ==
  LET rounded == (n \div b) * b IN
  IF rounded > h * b THEN rounded - h * b ELSE 0

\* 1 << m.bit_length(): one doubling per binary digit of m.
ShiftByBitLength[m \in Nat] ==
  IF m = 0 THEN 1 ELSE 2 * ShiftByBitLength[m \div 2]

\* Mutant: 1 << n.bit_length(), which doubles the powers of two.
BucketTooLarge(n) == ShiftByBitLength[n]

\* get_transfer_block_bucket(n), for n > 0.
Bucket(n) == ShiftByBitLength[n - 1]

-----------------------------------------------------------------------------
(* The steps.                                                              *)

Distinct(s) == \A i, j \in DOMAIN s : i # j => s[i] # s[j]

IdLists(k) == {s \in [1..k -> DecoderIds] : Distinct(s)}

\* Any prompt, any prefix of it cached by D, any free blocks for the rest.
\* vLLM leaves at least one prompt token to compute.
Init ==
  /\ blockSize \in BlockSizes
  /\ prompt \in 1..MaxPrompt
  /\ CeilDiv(prompt, blockSize) <= MaxBlocks
  /\ selective \in BOOLEAN
  /\ hit \in 0..((prompt - 1) \div blockSize)
  /\ decoder \in IdLists(prompt \div blockSize)
  /\ cache = [i \in DecoderIds |->
                IF \E k \in 1..hit : decoder[k] = i
                THEN CHOOSE k \in 1..hit : decoder[k] = i ELSE 0]
  /\ stage = "finished"
  /\ external = 0
  /\ remote = <<>>
  /\ local = <<>>
  /\ slab = <<>>

\* D's scheduler decides how much to load.
Match ==
  /\ stage = "finished"
  /\ ComputedBlockIds(prompt, blockSize) # <<>>
  /\ external' = ExternalTokens(prompt, blockSize, hit)
  /\ stage' = IF external' > 0 THEN "matched" ELSE "notified"
  /\ UNCHANGED <<prompt, blockSize, selective, hit, decoder, remote, local,
                 slab, cache>>

Suffix(s, first) == SubSeq(s, first + 1, Len(s))

MissingBlocks(ext, b) == CeilDiv(ext, b)

\* get_block_ids(): the blocks of the whole prompt, the cached ones included.
\* A selective pull also accepts the new blocks alone.
AllocatedIds ==
  IF selective THEN {decoder, Suffix(decoder, hit)} ELSE {decoder}

\* update_state_after_alloc(): the producer's suffix that D lacks, and as many
\* of D's ids.
Plan ==
  LET all     == ComputedBlockIds(prompt, blockSize)
      missing == MissingBlocks(external, blockSize)
      cached  == Len(all) - missing
  IN
  /\ stage = "matched"
  /\ \E ids \in AllocatedIds :
       IF ~ selective
       THEN remote' = all /\ local' = ids /\ stage' = "planned"
       ELSE IF missing > Len(all)
       THEN stage' = "count error" /\ UNCHANGED <<remote, local>>
       ELSE /\ remote' = Suffix(all, cached)
            /\ IF Len(ids) = Len(all)
               THEN local' = Suffix(ids, cached) /\ stage' = "planned"
               ELSE /\ local' = ids
                    /\ stage' = IF Len(ids) = missing THEN "planned"
                                                      ELSE "alloc error"
  /\ UNCHANGED <<prompt, blockSize, selective, hit, decoder, external, slab,
                 cache>>

\* Mutant: the plan is compared with the producer's first blocks.
IsPrefix(all, req) == SubSeq(all, 1, Len(req)) = req

\* _prepare_selective_kv(): "must request a suffix of producer blocks".
IsSuffix(all, req) ==
  Len(req) <= Len(all) /\ Suffix(all, Len(all) - Len(req)) = req

\* Repeat the last block id up to the bucket's size.
Padded(ids) ==
  [i \in 1..Bucket(Len(ids)) |->
     IF i <= Len(ids) THEN ids[i] ELSE ids[Len(ids)]]

\* select_from_kv_caches(): P's block 10 * k holds the prompt's block k.
Prepare ==
  LET all == ComputedBlockIds(prompt, blockSize) IN
  /\ stage = "planned"
  /\ IF Len(local) # Len(remote)
     THEN stage' = "pull error" /\ UNCHANGED slab
     ELSE IF selective /\ ~ IsSuffix(all, remote)
     THEN stage' = "plan error" /\ UNCHANGED slab
     ELSE /\ slab' = [i \in DOMAIN Padded(remote) |->
                        Padded(remote)[i] \div 10]
          /\ stage' = "prepared"
  /\ UNCHANGED <<prompt, blockSize, selective, hit, decoder, external, remote,
                 local, cache>>

\* Mutant: only a gap upwards ends a chunk.
ChunkStartsUpwards(ids) ==
  {i \in DOMAIN ids : i = 1 \/ ids[i] > ids[i - 1] + 1}

\* Where insert_kv_chunks() starts a chunk: at an id that does not continue.
ChunkStarts(ids) == {i \in DOMAIN ids : i = 1 \/ ids[i] # ids[i - 1] + 1}

\* One copy per run of ids: [source index, destination id, size].
Runs(ids) ==
  {[src |-> i, dest |-> ids[i],
    size |-> Cardinality({j \in DOMAIN ids : j >= i /\
               \A k \in ChunkStarts(ids) : k <= i \/ k > j})] :
     i \in ChunkStarts(ids)}

\* Mutant: the arrays are padded with copies of one block.
PadsOfOneBlock(ids, width) ==
  IF Cardinality(ChunkStarts(ids)) < width
  THEN {[src |-> 1, dest |-> 0, size |-> 1]} ELSE {}

\* What pads the offset arrays to the slab's length: copies of no block.
Pads(ids, width) ==
  IF Cardinality(ChunkStarts(ids)) < width
  THEN {[src |-> 1, dest |-> 0, size |-> 0]} ELSE {}

\* The copies insert_kv_chunks() asks for.
Chunks(ids, width) == Runs(ids) \cup Pads(ids, width)

\* multi_layer_copy(), a kernel of a library: all chunks into D's cache.  It
\* is also told how many chunks are not pads; nothing here rests on that.
Copied(c, s, chunks) ==
  [id \in DOMAIN c |->
     IF \E h \in chunks : id \in h.dest..(h.dest + h.size - 1)
     THEN LET h == CHOOSE h \in chunks : id \in h.dest..(h.dest + h.size - 1)
          IN s[h.src + id - h.dest]
     ELSE c[id]]

\* process_send_load(), D side: the slab is a transfer bucket, of which D
\* takes as many blocks as it has ids for.
Insert ==
  /\ stage = "prepared"
  /\ IF Len(local) > Len(slab)
     THEN stage' = "insert error" /\ UNCHANGED cache
     ELSE /\ stage' = "inserted"
          /\ cache' = Copied(cache, slab, Chunks(local, Len(slab)))
  /\ UNCHANGED <<prompt, blockSize, selective, hit, decoder, external, remote,
                 local, slab>>

\* A prompt without a full block is never transferred.
NothingToTransfer ==
  /\ stage = "finished"
  /\ ComputedBlockIds(prompt, blockSize) = <<>>
  /\ stage' = "notified"
  /\ UNCHANGED <<prompt, blockSize, selective, hit, decoder, external, remote,
                 local, slab, cache>>

Next == Match \/ Plan \/ Prepare \/ Insert \/ NothingToTransfer

Spec == Init /\ [][Next]_vars

-----------------------------------------------------------------------------
(* Properties.                                                             *)

\* D's plan passes every check that P and D make of it: the lengths agree and
\* P finds the suffix it holds, although each side rounded on its own.
PlanIsAccepted ==
  stage \notin {"count error", "alloc error", "pull error", "plan error",
                "insert error"}

\* When D starts to decode, the id it uses for block k holds the prompt's
\* block k, for every full block: what was cached, skipped, padded, split
\* into chunks and inserted adds up to the whole prefix.
PrefixIsComplete ==
  stage \in {"inserted", "notified"} =>
    \A k \in DOMAIN decoder : cache[decoder[k]] = k

\* No block of another request is written: neither the padding of the slab
\* nor a chunk that runs too far reaches an id outside the allocation.
OthersUntouched ==
  \A id \in DecoderIds :
    (\A k \in DOMAIN decoder : decoder[k] # id) => cache[id] = 0

\* The slab has the least power-of-two size that holds the plan, "transferring
\* fewer than 2x the requested blocks" (get_transfer_block_bucket()).
BucketIsLeast ==
  stage = "prepared" =>
    /\ \E e \in 0..Len(slab) : Len(slab) = 2^e
    /\ Len(remote) <= Len(slab)
    /\ Len(slab) < 2 * Len(remote)

=============================================================================
