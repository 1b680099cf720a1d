---------------------------- MODULE MCRunnerStep ----------------------------
(* RunnerStep on small instances: r1 and r3 share a rank when there are    *)
(* two, and the prompts of r1, r2 and r3 have 3, 1 and 2 tokens.           *)
EXTENDS RunnerStep

CONSTANTS r1, r2, r3

MCRank == [r \in Req |-> IF r = r2 THEN 0 ELSE DP - 1]

MCPrompt == [r \in Req |-> CASE r = r1 -> 3 [] r = r2 -> 1 [] r = r3 -> 2]

Deployment(mode, reqs, maxLen, chunk, maxBurst) ==
  [mode |-> mode, reqs |-> reqs, maxLen |-> maxLen, chunk |-> chunk,
   maxBurst |-> maxBurst, drafts |-> 0, preempts |-> TRUE]

Speculative(reqs, maxLen, chunk, drafts, preempts) ==
  [mode |-> "async", reqs |-> reqs, maxLen |-> maxLen, chunk |-> chunk,
   maxBurst |-> 1, drafts |-> drafts, preempts |-> preempts]

\* Three requests, one step ahead; two requests with longer outputs, step by
\* step and in bursts; and with drafts: in chunks, with a large cache, or on
\* two ranks with preemptions and a large budget.
MCConfigs == {Deployment("async", Req, 4, 2, 1),
              Deployment("sync", {r1, r2}, 6, 2, 1),
              Deployment("continue", {r1, r2}, 6, 2, 2),
              Speculative({r1, r3}, 6, 2, 1, FALSE),
              Speculative({r1, r3}, 7, 3, 2, FALSE),
              Speculative({r2, r3}, 6, 6, 1, TRUE)}

\* A request that is preempted computes its tokens again in chunks.
MCResumedInChunks == {Speculative({r2}, 7, 3, 1, TRUE)}

\* The budget of a step is one token.
MCChunkOfOne == {Deployment("continue", {r1, r2}, 6, 1, 3)}

=============================================================================
