-------------------------- MODULE RunnerStepProofs --------------------------
(***************************************************************************)
(* The lengths that scheduler and runner keep of a request, in every mode, *)
(* for any requests, ranks, budgets and drafts, and, without drafts, the   *)
(* tokens themselves.                                                      *)
(***************************************************************************)
EXTENDS RunnerStep, BatchLayoutProofs

-----------------------------------------------------------------------------
(* The inductive invariant.                                                *)

\* The tokens that an output has for r.
TokensFor(out, r) ==
  IF r \in ToSet(out.batch)
  THEN out.tokens[CHOOSE i \in DOMAIN out.batch : out.batch[i] = r]
  ELSE <<>>

\* What is counted for r while the tokens of an output are not known.
Owed(out, r) == IF TokensFor(out, r) = <<>> THEN 0 ELSE 1 + out.drafted[r]

\* The tokens that deployment c samples for a request in a step.
IsSample(c, t) == IsSeq(t) /\ Len(t) >= 1 /\ (c.drafts = 0 => Len(t) = 1)

\* How many drafts the requests of S have in a step.
IsDrafted(c, dr, S) ==
  /\ S \subseteq DOMAIN dr
  /\ \A r \in S : dr[r] \in Nat /\ (c.drafts = 0 => dr[r] = 0)

IsOutput(c, out) ==
  /\ IsBatch(out.batch)
  /\ IsDrafted(c, out.drafted, ToSet(out.batch))
  /\ \A i \in DOMAIN out.batch :
       /\ IsSeq(out.tokens[i])
       /\ c.mode = "async" =>
            out.tokens[i] = <<>> \/ IsSample(c, out.tokens[i])

\* How much longer the runner's copy of r is than what the scheduler has
\* received when the outputs q are on their way: of the last step a runner
\* that is asynchronous has the placeholders.
Lag(c, q, r) ==
  LET behind(out) == IF c.mode = "async" THEN Owed(out, r)
                     ELSE Len(TokensFor(out, r))
  IN IF q = <<>> THEN 0
     ELSE IF Len(q) = 1 THEN behind(q[1])
     ELSE Len(TokensFor(q[1], r)) + behind(q[2])

\* What the scheduler expects of the outputs q.
Coming(q, r) ==
  IF q = <<>> THEN 0
  ELSE IF Len(q) = 1 THEN Owed(q[1], r)
  ELSE Owed(q[1], r) + Owed(q[2], r)

\* What a burst that is not an output yet adds to the runner's copy.
InBurst(b, r) == IF b = <<>> THEN 0 ELSE Len(TokensFor(b[1], r))

Shape ==
  /\ config \in Configs
  /\ status \in [Req -> {"waiting", "running", "preempted", "finished"}]
  /\ computed \in [Req -> Int]
  /\ inflight \in [Req -> Int]
  /\ num \in [Req -> Int]
  /\ DOMAIN received = Req /\ \A r \in Req : IsSeq(received[r])
  /\ DOMAIN output = Req /\ \A r \in Req : IsSeq(output[r])
  /\ DOMAIN so \subseteq Req /\ \A r \in DOMAIN so : so[r] \in Int
  /\ IsDrafted(config, drafted, DOMAIN so)
  /\ IsBatch(batch)

\* The outputs on their way; how far the scheduler is ahead of them.
Outputs ==
  /\ IsSeq(queue) /\ Len(queue) <= 2
  /\ \A q \in DOMAIN queue : IsOutput(config, queue[q])
  /\ ~ Async => Len(queue) <= 1
  /\ pc # "schedule" => Len(queue) <= IF Async THEN 1 ELSE 0

\* Where a step is.
Phases ==
  /\ pc \in {"schedule", "execute", "sample"}
  /\ pc # "sample" => state = <<>> /\ burst = <<>>
  /\ pc = "sample" => DOMAIN so = ToSet(batch)
  /\ state = <<>> \/ burst = <<>>
  /\ state # <<>> =>
       /\ state[1].batch = batch
       /\ \A i \in DOMAIN batch :
            IsSample(config, state[1].next[state[1].places[i]])
  /\ burst # <<>> => ~ Async /\ IsOutput(config, burst[1])
  /\ ~ Async => pre = <<>>
  /\ ~ Async /\ pc = "execute" => \A r \in DOMAIN so : status[r] # "finished"

\* The results of a step, and the drafts that the host has counted on.
IsResult(c, e) ==
  /\ IsBatch(e.batch)
  /\ e.counted \subseteq DOMAIN e.batch
  /\ \A i \in e.counted : IsSample(c, Extracted(e)[i])
  /\ IsDrafted(c, e.drafted, ToSet(e.batch))

\* The results of the previous step are those of the last output.
IsPrevious(p) ==
  /\ IsResult(config, p)
  /\ pc # "sample" => batch = p.batch
  /\ queue # <<>> =>
       /\ queue[Len(queue)].batch = p.batch
       /\ queue[Len(queue)].tokens = Extracted(p)
       /\ queue[Len(queue)].drafted = p.drafted
  /\ \A i \in p.counted : p.batch[i] \in ToSet(batch) =>
       Len(output[p.batch[i]]) >= PlaceholdersOf(p, p.batch[i])
  /\ Drafts > 0 /\ queue = <<>> => \A r \in Req : status[r] = "finished"

Previous ==
  /\ pre # <<>> => IsPrevious(pre[1])
  /\ pre = <<>> /\ Async =>
       /\ pc # "sample" => batch = <<>>
       /\ queue # <<>> => queue[Len(queue)].batch = <<>>

Lengths ==
  /\ \A r \in ToSet(batch) :
       /\ num[r] = Prompt[r] + Len(output[r])
       /\ status[r] # "finished" =>
            num[r] = Known(r) + Lag(config, queue, r) + InBurst(burst, r)
  /\ \A r \in Req : status[r] # "finished" =>
       /\ Known(r) < MaxLen
       /\ Async => inflight[r] = Coming(queue, r) +
            IF pc = "sample" /\ r \in ToSet(batch) /\ computed[r] >= num[r]
            THEN 1 + drafted[r] ELSE 0

LInv == Shape /\ Outputs /\ Phases /\ Previous /\ Lengths

-----------------------------------------------------------------------------
(* Batches, outputs and queues.                                            *)

\* The rows of a batch are requests, and a request's row is unique.
LEMMA BatchFacts ==
  ASSUME NEW b, IsBatch(b)
  PROVE  /\ IsSeq(b) /\ b \in Seq(Req) /\ DOMAIN b = 1 .. Len(b)
         /\ \A i \in DOMAIN b : b[i] \in ToSet(b) /\ b[i] \in Req
         /\ \A r \in ToSet(b) :
              r \in Req /\ \E i \in DOMAIN b : b[i] = r
         /\ \A i \in DOMAIN b : (CHOOSE j \in DOMAIN b : b[j] = b[i]) = i
  <1>1. b \in Seq(Req) /\ DOMAIN b = 1 .. Len(b)
    BY DEF IsBatch
  <1>2. ToSet(b) = {b[i] : i \in DOMAIN b}
    BY DEF ToSet
  <1>3. b \in Seq(ToSet(b))
    BY <1>1, <1>2
  <1>4. ASSUME NEW i \in DOMAIN b
        PROVE  (CHOOSE j \in DOMAIN b : b[j] = b[i]) = i
    BY DEF IsBatch
  <1> QED
    BY <1>1, <1>2, <1>3, <1>4 DEF IsSeq

\* The batch of a step in which nothing is scheduled.
LEMMA NoBatch == IsBatch(<<>>) /\ ToSet(<<>>) = {}
  BY DEF IsBatch, ToSet

\* The batches of a step have each scheduled request in one row.
LEMMA BatchesFacts ==
  ASSUME NEW S, S \subseteq Req, NEW b \in SetToSeqs(S)
  PROVE  IsBatch(b) /\ ToSet(b) = S
  <1>1. PICK n : n = Cardinality(S)
    OBVIOUS
  <1>2. IsFiniteSet(S) /\ n \in Nat
    BY <1>1, LayoutAssumption, FS_Subset, FS_CardinalityType
  <1>3. /\ b \in [1 .. n -> S]
        /\ \A i, j \in 1 .. n : i # j => b[i] # b[j]
    BY <1>1 DEF SetToSeqs
  <1>4. b \in Seq(Req) /\ DOMAIN b = 1 .. n
    BY <1>2, <1>3
  <1>5. IsBatch(b)
    BY <1>3, <1>4 DEF IsBatch
  <1>6. b \in Injection(1 .. n, S)
    BY <1>3, Fun_IsInj
  <1>7. IsFiniteSet(1 .. n) /\ Cardinality(1 .. n) = n
    BY <1>2, FS_Interval
  <1>8. b \in Surjection(1 .. n, S)
    BY <1>1, <1>2, <1>6, <1>7, FS_Injection
  <1>9. \A r \in S : \E i \in 1 .. n : b[i] = r
    BY <1>8 DEF Surjection
  <1>10. \A i \in 1 .. n : b[i] \in S
    BY <1>3
  <1>11. ToSet(b) = S
    BY <1>4, <1>9, <1>10 DEF ToSet
  <1> QED
    BY <1>5, <1>11

\* The tokens of an output belong to the request of their row, and an output
\* owes nothing to a request that is not in its batch.
LEMMA TokensForIs ==
  ASSUME NEW out, IsBatch(out.batch)
  PROVE  /\ \A i \in DOMAIN out.batch :
              TokensFor(out, out.batch[i]) = out.tokens[i]
         /\ \A r : r \notin ToSet(out.batch) =>
              TokensFor(out, r) = <<>> /\ Owed(out, r) = 0
  BY BatchFacts DEF TokensFor, Owed

\* Without drafts an asynchronous output owes as many tokens as it has.
LEMMA OutputFacts ==
  ASSUME NEW c, NEW out, IsOutput(c, out), NEW r
  PROVE  /\ IsSeq(TokensFor(out, r)) /\ Len(TokensFor(out, r)) \in Nat
         /\ Owed(out, r) \in Nat
         /\ r \in ToSet(out.batch) => out.drafted[r] \in Nat
         /\ c.mode = "async" /\ c.drafts = 0 =>
              Owed(out, r) = Len(TokensFor(out, r))
  <1>1. CASE r \notin ToSet(out.batch)
    BY <1>1, TokensForIs, EmptyIsSeq DEF IsOutput
  <1>2. CASE r \in ToSet(out.batch)
    <2>1. IsBatch(out.batch) /\ IsDrafted(c, out.drafted, ToSet(out.batch))
      BY DEF IsOutput
    <2>2. PICK i \in DOMAIN out.batch : out.batch[i] = r
      BY <1>2, <2>1, BatchFacts
    <2>3. /\ TokensFor(out, r) = out.tokens[i]
          /\ IsSeq(out.tokens[i])
          /\ c.mode = "async" =>
               out.tokens[i] = <<>> \/ IsSample(c, out.tokens[i])
      BY <2>1, <2>2, TokensForIs DEF IsOutput
    <2>4. out.drafted[r] \in Nat /\ (c.drafts = 0 => out.drafted[r] = 0)
      BY <1>2, <2>1 DEF IsDrafted
    <2>5. PICK t : t = TokensFor(out, r)
      OBVIOUS
    <2>6. Owed(out, r) = IF t = <<>> THEN 0 ELSE 1 + out.drafted[r]
      BY <2>5 DEF Owed
    <2>7. Len(t) \in Nat /\ (Len(t) = 0 <=> t = <<>>)
      BY <2>3, <2>5, SeqFacts
    <2>8. Owed(out, r) \in Nat
      BY <2>4, <2>6
    <2>9. c.mode = "async" /\ c.drafts = 0 => Owed(out, r) = Len(t)
      <3> SUFFICES ASSUME c.mode = "async", c.drafts = 0
                   PROVE  Owed(out, r) = Len(t)
        OBVIOUS
      <3>1. t = <<>> \/ Len(t) = 1
        BY <2>3, <2>5 DEF IsSample
      <3> QED
        <4>1. out.drafted[r] = 0
          BY <2>4
        <4>2. CASE t = <<>>
          BY <2>6, <2>7, <4>2
        <4>3. CASE t # <<>>
          BY <2>6, <3>1, <4>1, <4>3
        <4> QED
          BY <4>2, <4>3
    <2> QED
      BY <1>2, <2>3, <2>4, <2>5, <2>7, <2>8, <2>9
  <1> QED
    BY <1>1, <1>2

\* A queue holds no output, one, or two.
LEMMA QueueIs ==
  ASSUME NEW q, IsSeq(q), Len(q) <= 2
  PROVE  q = <<>> \/ (\E x : q = <<x>>) \/ (\E x, y : q = <<x, y>>)
  <1>1. Len(q) \in Nat /\ q = [i \in 1 .. Len(q) |-> q[i]]
    BY DEF IsSeq
  <1>2. Len(q) = 0 \/ Len(q) = 1 \/ Len(q) = 2
    BY <1>1
  <1>3. CASE Len(q) = 0
    BY <1>3, SeqFacts
  <1>4. CASE Len(q) = 1
    <2>1. q = <<q[1]>>
      BY <1>1, <1>4
    <2> QED
      BY <2>1
  <1>5. CASE Len(q) = 2
    <2>1. q = <<q[1], q[2]>>
      BY <1>1, <1>5
    <2> QED
      BY <2>1
  <1> QED
    BY <1>2, <1>3, <1>4, <1>5

\* What appending and taking does to such queues.
LEMMA ShortQueues ==
  /\ IsSeq(<<>>) /\ Len(<<>>) = 0 /\ DOMAIN <<>> = {}
  /\ \A x : /\ IsSeq(<<x>>) /\ Len(<<x>>) = 1 /\ DOMAIN <<x>> = {1}
            /\ <<x>>[1] = x /\ <<x>> # <<>>
            /\ Append(<<>>, x) = <<x>>
            /\ Head(<<x>>) = x /\ Tail(<<x>>) = <<>>
  /\ \A x, y : /\ IsSeq(<<x, y>>) /\ Len(<<x, y>>) = 2
               /\ DOMAIN <<x, y>> = {1, 2}
               /\ <<x, y>>[1] = x /\ <<x, y>>[2] = y /\ <<x, y>> # <<>>
               /\ Append(<<x>>, y) = <<x, y>>
               /\ Head(<<x, y>>) = x /\ Tail(<<x, y>>) = <<y>>
  <1>1. \A x, y : <<x, y>> = [k \in 1 .. 2 |-> <<x, y>>[k]]
    OBVIOUS
  <1>2. \A x, y : IsSeq(<<x, y>>)
    BY <1>1, FunctionIsSeq
  <1>3. ASSUME NEW x, NEW y
        PROVE  Tail(<<x, y>>) = <<y>> /\ Append(<<x>>, y) = <<x, y>>
    <2>1. PICK S : S = {x, y}
      OBVIOUS
    <2>2. x \in S /\ y \in S /\ <<x, y>> \in Seq(S) /\ <<x>> \in Seq(S)
      BY <2>1
    <2>3. Tail(<<x, y>>) = <<y>>
      BY <2>2
    <2>4. Append(<<x>>, y) = <<x, y>>
      <3>1. PICK s \in Seq(S) : s = <<x>>
        BY <2>2
      <3>2. Len(s) = 1 /\ s[1] = x
        BY <3>1
      <3>3. PICK a : a = Append(s, y)
        OBVIOUS
      <3>4. /\ a \in Seq(S) /\ Len(a) = Len(s) + 1
            /\ \A i \in 1 .. Len(s) : a[i] = s[i]
            /\ a[Len(s) + 1] = y
        BY <2>2, <3>3, AppendProperties
      <3>5. Len(a) = 2 /\ a[1] = x /\ a[2] = y
        BY <3>2, <3>4
      <3>6. a = <<a[1], a[2]>>
        BY <3>5, <3>4
      <3> QED
        BY <3>1, <3>3, <3>5, <3>6, <3>4
    <2> QED
      BY <2>3, <2>4
  <1>4. \A x : Tail(<<x>>) = <<>> /\ Append(<<>>, x) = <<x>>
    OBVIOUS
  <1>5. \A x, y : DOMAIN <<x, y>> = {1, 2} /\ DOMAIN <<x>> = {1}
    OBVIOUS
  <1>6. DOMAIN <<>> = {}
    OBVIOUS
  <1> QED
    BY <1>2, <1>3, <1>4, <1>5, <1>6, OneIsSeq, EmptyIsSeq

\* Lag() and Coming(), by the outputs on their way.
LEMMA LagIs ==
  ASSUME NEW c, NEW r
  PROVE  /\ Lag(c, <<>>, r) = 0 /\ Coming(<<>>, r) = 0
         /\ \A x : /\ c.mode = "async" => Lag(c, <<x>>, r) = Owed(x, r)
                   /\ c.mode # "async" =>
                        Lag(c, <<x>>, r) = Len(TokensFor(x, r))
                   /\ Coming(<<x>>, r) = Owed(x, r)
         /\ \A x, y : /\ c.mode = "async" => Lag(c, <<x, y>>, r)
                           = Len(TokensFor(x, r)) + Owed(y, r)
                      /\ Coming(<<x, y>>, r) = Owed(x, r) + Owed(y, r)
  <1>1. Lag(c, <<>>, r) = 0 /\ Coming(<<>>, r) = 0
    BY DEF Lag, Coming
  <1>2. ASSUME NEW x
        PROVE  /\ c.mode = "async" => Lag(c, <<x>>, r) = Owed(x, r)
               /\ c.mode # "async" => Lag(c, <<x>>, r) = Len(TokensFor(x, r))
               /\ Coming(<<x>>, r) = Owed(x, r)
    BY ShortQueues DEF Lag, Coming
  <1>3. ASSUME NEW x, NEW y
        PROVE  /\ c.mode = "async" =>
                    Lag(c, <<x, y>>, r) = Len(TokensFor(x, r)) + Owed(y, r)
               /\ Coming(<<x, y>>, r) = Owed(x, r) + Owed(y, r)
    BY ShortQueues DEF Lag, Coming
  <1> QED
    BY <1>1, <1>2, <1>3

-----------------------------------------------------------------------------
(* The lengths that host bookkeeping leaves.                               *)

\* Min() of the three limits on what a step computes.
LEMMA MinOfThree ==
  ASSUME NEW a \in Int, NEW b \in Int, NEW c \in Int
  PROVE  /\ Min({a, b, c}) \in Int
         /\ Min({a, b, c}) <= a /\ Min({a, b, c}) <= b /\ Min({a, b, c}) <= c
  <1>1. \E x \in {a, b, c} : \A y \in {a, b, c} : x <= y
    <2>1. CASE a <= b /\ a <= c
      BY <2>1
    <2>2. CASE b <= a /\ b <= c
      BY <2>2
    <2>3. CASE c <= a /\ c <= b
      BY <2>3
    <2> QED
      BY <2>1, <2>2, <2>3
  <1>2. /\ Min({a, b, c}) \in {a, b, c}
        /\ \A y \in {a, b, c} : Min({a, b, c}) <= y
    BY <1>1 DEF Min
  <1> QED
    BY <1>2

\* Min() of the three limits is one of them.
LEMMA MinIsOne ==
  ASSUME NEW a \in Int, NEW b \in Int, NEW c \in Int
  PROVE  Min({a, b, c}) = a \/ Min({a, b, c}) = b \/ Min({a, b, c}) = c
  <1>1. \E x \in {a, b, c} : \A y \in {a, b, c} : x <= y
    <2>1. CASE a <= b /\ a <= c
      BY <2>1
    <2>2. CASE b <= a /\ b <= c
      BY <2>2
    <2>3. CASE c <= a /\ c <= b
      BY <2>3
    <2> QED
      BY <2>1, <2>2, <2>3
  <1>2. Min({a, b, c}) \in {a, b, c}
    BY <1>1 DEF Min
  <1> QED
    BY <1>2

\* Max() of two numbers is the greater.
LEMMA MaxOfTwo ==
  ASSUME NEW a \in Int, NEW b \in Int
  PROVE  Max({a, b}) = IF a <= b THEN b ELSE a
  <1>1. \E x \in {a, b} : \A y \in {a, b} : x >= y
    <2>1. CASE a <= b
      BY <2>1
    <2>2. CASE b <= a
      BY <2>2
    <2> QED
      BY <2>1, <2>2
  <1>2. Max({a, b}) \in {a, b} /\ \A y \in {a, b} : Max({a, b}) >= y
    BY <1>1 DEF Max
  <1> QED
    BY <1>2

IsHost(h) ==
  /\ DOMAIN h = {"row", "num", "output"}
  /\ h.num \in [Req -> Int]
  /\ DOMAIN h.output = Req
  /\ \A r \in Req : IsSeq(h.output[r])

\* h has as many tokens of r as g, and n more.
Grows(g, h, r, n) ==
  /\ h.num[r] = g.num[r] + n
  /\ Len(h.output[r]) = Len(g.output[r]) + n

\* WithTokens() makes num and output longer by the same tokens.
LEMMA WithTokensFacts ==
  ASSUME NEW who, NEW tokens, NEW g, IsHost(g),
         \A r \in who : IsSeq(tokens[r]),
         NEW h, h = WithTokens(who, tokens, g)
  PROVE  /\ IsHost(h)
         /\ \A r \in Req \cap who : Grows(g, h, r, Len(tokens[r]))
         /\ \A r \in Req \ who : Grows(g, h, r, 0)
  <1>1. /\ h.num = [r \in Req |->
              IF r \in who THEN g.num[r] + Len(tokens[r]) ELSE g.num[r]]
        /\ h.output = [r \in Req |->
              IF r \in who THEN g.output[r] \o tokens[r] ELSE g.output[r]]
    BY DEF WithTokens
  <1>2. DOMAIN h = {"row", "num", "output"}
    BY DEF WithTokens
  <1>3. \A r \in Req : g.num[r] \in Int /\ IsSeq(g.output[r])
    BY DEF IsHost
  <1>4. ASSUME NEW r \in Req, r \in who
        PROVE  /\ h.num[r] \in Int /\ IsSeq(h.output[r])
               /\ Grows(g, h, r, Len(tokens[r]))
    <2>1. /\ IsSeq(h.output[r])
          /\ Len(h.output[r]) = Len(g.output[r]) + Len(tokens[r])
      BY <1>1, <1>3, <1>4, ConcatIsSeq
    <2>2. Len(tokens[r]) \in Nat
      BY <1>4, SeqFacts
    <2> QED
      BY <1>1, <1>3, <1>4, <2>1, <2>2 DEF Grows
  <1>5. ASSUME NEW r \in Req, r \notin who
        PROVE  /\ h.num[r] \in Int /\ IsSeq(h.output[r])
               /\ Grows(g, h, r, 0)
    <2>1. Len(g.output[r]) \in Nat
      BY <1>3, SeqFacts
    <2> QED
      BY <1>1, <1>3, <1>5, <2>1 DEF Grows
  <1>6. IsHost(h)
    <2>1. \A r \in Req : h.num[r] \in Int /\ IsSeq(h.output[r])
      BY <1>4, <1>5
    <2> QED
      BY <1>1, <1>2, <2>1 DEF IsHost
  <1> QED
    BY <1>4, <1>5, <1>6

\* WithoutPlaceholders() makes them shorter by the placeholders, if they
\* are there.
LEMMA WithoutPlaceholdersFacts ==
  ASSUME NEW who, NEW e, NEW g, IsHost(g),
         \A r \in Req \cap who : /\ PlaceholdersOf(e, r) \in Nat
                                 /\ Len(g.output[r]) >= PlaceholdersOf(e, r),
         NEW h, h = WithoutPlaceholders(who, e, g)
  PROVE  /\ IsHost(h)
         /\ \A r \in Req \cap who : Grows(g, h, r, - PlaceholdersOf(e, r))
         /\ \A r \in Req \ who : Grows(g, h, r, 0)
  <1>1. /\ h.num = [r \in Req |-> IF r \in who
              THEN g.num[r] - PlaceholdersOf(e, r) ELSE g.num[r]]
        /\ h.output = [r \in Req |-> IF r \in who
              THEN SubSeq(g.output[r], 1,
                          Len(g.output[r]) - PlaceholdersOf(e, r))
              ELSE g.output[r]]
    BY DEF WithoutPlaceholders, IsHost
  <1>2. DOMAIN h = {"row", "num", "output"}
    BY DEF WithoutPlaceholders, IsHost
  <1>3. \A r \in Req : g.num[r] \in Int /\ IsSeq(g.output[r])
                       /\ Len(g.output[r]) \in Nat
    BY SeqFacts DEF IsHost
  <1>4. ASSUME NEW r \in Req, r \in who
        PROVE  /\ h.num[r] \in Int /\ IsSeq(h.output[r])
               /\ Grows(g, h, r, - PlaceholdersOf(e, r))
    <2>1. PICK m \in 0 .. Len(g.output[r]) :
            m = Len(g.output[r]) - PlaceholdersOf(e, r)
      <3>1. PICK n : n = PlaceholdersOf(e, r)
        OBVIOUS
      <3>2. n \in Nat /\ Len(g.output[r]) >= n /\ Len(g.output[r]) \in Nat
        BY <1>3, <1>4, <3>1
      <3> QED
        BY <3>1, <3>2
    <2>2. IsSeq(h.output[r]) /\ Len(h.output[r]) = m
      BY <1>1, <1>3, <1>4, <2>1, PrefixIsSeq
    <2>3. h.num[r] = g.num[r] - PlaceholdersOf(e, r)
      BY <1>1, <1>4
    <2> QED
      BY <1>3, <1>4, <2>1, <2>2, <2>3 DEF Grows
  <1>5. ASSUME NEW r \in Req, r \notin who
        PROVE  /\ h.num[r] \in Int /\ IsSeq(h.output[r])
               /\ Grows(g, h, r, 0)
    BY <1>1, <1>3, <1>5 DEF Grows
  <1>6. IsHost(h)
    <2>1. \A r \in Req : h.num[r] \in Int /\ IsSeq(h.output[r])
      BY <1>4, <1>5
    <2> QED
      BY <1>1, <1>2, <2>1 DEF IsHost
  <1> QED
    BY <1>4, <1>5, <1>6

\* WithPlaceholders() makes them longer by one and the drafts.
LEMMA WithPlaceholdersFacts ==
  ASSUME NEW who, NEW g, IsHost(g), \A r \in who : drafted[r] \in Nat,
         NEW h, h = WithPlaceholders(who, g)
  PROVE  /\ IsHost(h)
         /\ \A r \in Req \cap who : Grows(g, h, r, 1 + drafted[r])
         /\ \A r \in Req \ who : Grows(g, h, r, 0)
  <1>1. /\ h.num = [r \in Req |-> IF r \in who
              THEN g.num[r] + 1 + drafted[r] ELSE g.num[r]]
        /\ h.output = [r \in Req |-> IF r \in who
              THEN g.output[r] \o [j \in 1 .. 1 + drafted[r] |-> Zero]
              ELSE g.output[r]]
    BY DEF WithPlaceholders, IsHost
  <1>2. DOMAIN h = {"row", "num", "output"}
    BY DEF WithPlaceholders, IsHost
  <1>3. \A r \in Req : g.num[r] \in Int /\ IsSeq(g.output[r])
                       /\ Len(g.output[r]) \in Nat
    BY SeqFacts DEF IsHost
  <1>4. ASSUME NEW r \in Req, r \in who
        PROVE  /\ h.num[r] \in Int /\ IsSeq(h.output[r])
               /\ Grows(g, h, r, 1 + drafted[r])
    <2>1. PICK m \in Nat : m = 1 + drafted[r]
      BY <1>4
    <2>2. PICK t : t = [j \in 1 .. m |-> Zero]
      OBVIOUS
    <2>3. t = [j \in 1 .. m |-> t[j]]
      BY <2>2
    <2>4. IsSeq(t) /\ Len(t) = m
      BY <2>3, FunctionIsSeq
    <2>5. h.output[r] = g.output[r] \o t
      BY <1>1, <1>4, <2>1, <2>2
    <2>6. IsSeq(h.output[r]) /\ Len(h.output[r]) = Len(g.output[r]) + m
      BY <1>3, <2>4, <2>5, ConcatIsSeq
    <2>7. h.num[r] = g.num[r] + m
      <3>1. drafted[r] \in Nat /\ g.num[r] \in Int
        BY <1>3, <1>4
      <3>2. h.num[r] = g.num[r] + 1 + drafted[r]
        BY <1>1, <1>4
      <3> QED
        BY <2>1, <3>1, <3>2
    <2> QED
      BY <1>3, <2>1, <2>6, <2>7 DEF Grows
  <1>5. ASSUME NEW r \in Req, r \notin who
        PROVE  /\ h.num[r] \in Int /\ IsSeq(h.output[r])
               /\ Grows(g, h, r, 0)
    BY <1>1, <1>3, <1>5 DEF Grows
  <1>6. IsHost(h)
    <2>1. \A r \in Req : h.num[r] \in Int /\ IsSeq(h.output[r])
      BY <1>4, <1>5
    <2> QED
      BY <1>1, <1>2, <2>1 DEF IsHost
  <1> QED
    BY <1>4, <1>5, <1>6

\* A counted result has tokens, without drafts as many as placeholders.
LEMMA ResultFacts ==
  ASSUME NEW c, NEW e, IsResult(c, e)
  PROVE  \A i \in e.counted :
           /\ e.batch[i] \in Req
           /\ IsSeq(Extracted(e)[i])
           /\ PlaceholdersOf(e, e.batch[i]) = 1 + e.drafted[e.batch[i]]
           /\ PlaceholdersOf(e, e.batch[i]) \in Nat
           /\ c.drafts = 0 =>
                Len(Extracted(e)[i]) = PlaceholdersOf(e, e.batch[i])
  <1> SUFFICES ASSUME NEW i \in e.counted
               PROVE  /\ e.batch[i] \in Req
                      /\ IsSeq(Extracted(e)[i])
                      /\ PlaceholdersOf(e, e.batch[i])
                           = 1 + e.drafted[e.batch[i]]
                      /\ PlaceholdersOf(e, e.batch[i]) \in Nat
                      /\ c.drafts = 0 => Len(Extracted(e)[i])
                                          = PlaceholdersOf(e, e.batch[i])
    OBVIOUS
  <1>1. /\ i \in DOMAIN e.batch /\ IsBatch(e.batch)
        /\ IsSample(c, Extracted(e)[i])
        /\ IsDrafted(c, e.drafted, ToSet(e.batch))
    BY DEF IsResult
  <1>2. PICK r : r = e.batch[i]
    OBVIOUS
  <1>3. r \in Req /\ r \in ToSet(e.batch)
    BY <1>1, <1>2, BatchFacts
  <1>4. /\ r \in DOMAIN e.drafted /\ e.drafted[r] \in Nat
        /\ c.drafts = 0 => e.drafted[r] = 0
    BY <1>1, <1>3 DEF IsDrafted
  <1>5. PlaceholdersOf(e, r) = 1 + e.drafted[r]
    BY <1>4 DEF PlaceholdersOf
  <1>6. /\ IsSeq(Extracted(e)[i])
        /\ c.drafts = 0 => Len(Extracted(e)[i]) = 1
    BY <1>1 DEF IsSample
  <1>7. PlaceholdersOf(e, r) \in Nat
    BY <1>4, <1>5
  <1>8. c.drafts = 0 => Len(Extracted(e)[i]) = PlaceholdersOf(e, r)
    <2> SUFFICES ASSUME c.drafts = 0
                 PROVE  Len(Extracted(e)[i]) = PlaceholdersOf(e, r)
      OBVIOUS
    <2>1. e.drafted[r] = 0
      BY <1>4
    <2>2. Len(Extracted(e)[i]) = 1
      BY <1>6
    <2>3. PlaceholdersOf(e, r) = 1
      BY <1>5, <2>1
    <2> QED
      BY <2>2, <2>3
  <1> QED
    BY <1>2, <1>3, <1>5, <1>6, <1>7, <1>8

\* Growing by m and then by n is growing by m + n.
LEMMA GrowsTwice ==
  ASSUME NEW g, NEW f, NEW h, NEW r, NEW m \in Int, NEW n \in Int,
         g.num[r] \in Int, Len(g.output[r]) \in Int,
         Grows(g, f, r, m), Grows(f, h, r, n)
  PROVE  Grows(g, h, r, m + n)
  <1>1. PICK a \in Int : a = g.num[r]
    OBVIOUS
  <1>2. PICK l \in Int : l = Len(g.output[r])
    OBVIOUS
  <1>3. f.num[r] = a + m /\ Len(f.output[r]) = l + m
    BY Zenon, <1>1, <1>2 DEF Grows
  <1>4. h.num[r] = (a + m) + n /\ Len(h.output[r]) = (l + m) + n
    BY Zenon, <1>3 DEF Grows
  <1>5. (a + m) + n = a + (m + n) /\ (l + m) + n = l + (m + n)
    OBVIOUS
  <1>6. h.num[r] = a + (m + n) /\ Len(h.output[r]) = l + (m + n)
    BY Zenon, <1>4, <1>5
  <1> QED
    BY Zenon, <1>1, <1>2, <1>6 DEF Grows

\* The requests hit of b have results in e: these tokens.
Replaced(e, b, hit, tokens) ==
  /\ \A i \in e.counted : e.batch[i] \in ToSet(b) =>
       /\ e.batch[i] \in hit
       /\ tokens[e.batch[i]] = Extracted(e)[i]
  /\ \A r \in hit : \E i \in e.counted : e.batch[i] = r /\ r \in ToSet(b)

\* Of the requests still in b, the results replace their placeholders.
LEMMA ModifiedIs ==
  ASSUME NEW c, NEW e, IsResult(c, e), NEW b, NEW g
  PROVE  \E hit, tokens :
           /\ Replaced(e, b, hit, tokens)
           /\ Modified(e, b, g)
                = WithTokens(hit, tokens, WithoutPlaceholders(hit, e, g))
  <1>1. PICK targets : targets = Targets(e, b)
    OBVIOUS
  <1>2. PICK hit : hit = {t[2] : t \in targets}
    OBVIOUS
  <1>3. PICK tokens : tokens = [r \in hit |->
          Extracted(e)[(CHOOSE t \in targets : t[2] = r)[1]]]
    OBVIOUS
  <1>4. Modified(e, b, g)
          = WithTokens(hit, tokens, WithoutPlaceholders(hit, e, g))
    BY <1>1, <1>2, <1>3 DEF Modified
  <1>5. targets = {<<i, e.batch[i]>> :
                     i \in {k \in e.counted : e.batch[k] \in ToSet(b)}}
    BY <1>1 DEF Targets
  <1>6. ASSUME NEW i \in e.counted, e.batch[i] \in ToSet(b)
        PROVE  e.batch[i] \in hit /\ tokens[e.batch[i]] = Extracted(e)[i]
    <2>1. <<i, e.batch[i]>> \in targets
      BY <1>5, <1>6
    <2>2. PICK r : r = e.batch[i]
      OBVIOUS
    <2>3. \E t \in targets : t[2] = r
      BY <2>1, <2>2
    <2>4. PICK t \in targets : t = (CHOOSE u \in targets : u[2] = r)
      BY <2>3
    <2>5. t[2] = r
      BY <2>3, <2>4
    <2>6. PICK j \in e.counted : t = <<j, e.batch[j]>>
      BY <1>5
    <2>7. i = j
      BY <2>2, <2>5, <2>6 DEF IsResult, IsBatch
    <2>8. r \in hit
      BY <1>2, <2>3
    <2>9. tokens[r] = Extracted(e)[(CHOOSE u \in targets : u[2] = r)[1]]
      BY <1>3, <2>8
    <2>10. t[1] = i
      BY <2>6, <2>7
    <2> QED
      BY <2>2, <2>4, <2>8, <2>9, <2>10
  <1>7. \A r \in hit : \E i \in e.counted :
          e.batch[i] = r /\ r \in ToSet(b)
    BY <1>2, <1>5
  <1>8. Replaced(e, b, hit, tokens)
    BY <1>6, <1>7 DEF Replaced
  <1> QED
    BY <1>4, <1>8

\* The results replace their placeholders, for the requests still in b.
LEMMA ModifiedFacts ==
  ASSUME NEW c, NEW e, IsResult(c, e), NEW b, NEW g, IsHost(g),
         \A i \in e.counted : e.batch[i] \in ToSet(b) =>
           Len(g.output[e.batch[i]]) >= PlaceholdersOf(e, e.batch[i]),
         NEW h, h = Modified(e, b, g)
  PROVE  /\ IsHost(h)
         /\ \A i \in e.counted : e.batch[i] \in ToSet(b) =>
              Grows(g, h, e.batch[i],
                    Len(Extracted(e)[i]) - PlaceholdersOf(e, e.batch[i]))
         /\ \A r \in Req :
              ~ (\E i \in e.counted : e.batch[i] = r /\ r \in ToSet(b))
                => Grows(g, h, r, 0)
  <1>1. PICK hit, tokens :
          /\ Replaced(e, b, hit, tokens)
          /\ Modified(e, b, g)
               = WithTokens(hit, tokens, WithoutPlaceholders(hit, e, g))
    BY ModifiedIs
  <1>2. PICK f : f = WithoutPlaceholders(hit, e, g)
    OBVIOUS
  <1>3. h = WithTokens(hit, tokens, f)
    BY <1>1, <1>2
  <1>4. ASSUME NEW i \in e.counted, e.batch[i] \in ToSet(b)
        PROVE  e.batch[i] \in hit /\ tokens[e.batch[i]] = Extracted(e)[i]
    BY <1>1, <1>4 DEF Replaced
  <1>5. \A r \in hit : \E i \in e.counted :
          e.batch[i] = r /\ r \in ToSet(b)
    BY <1>1 DEF Replaced
  <1>6. \A r \in hit : /\ r \in Req /\ IsSeq(tokens[r])
                       /\ PlaceholdersOf(e, r) \in Nat
                       /\ Len(g.output[r]) >= PlaceholdersOf(e, r)
    BY <1>4, <1>5, ResultFacts
  <1>7. /\ IsHost(f)
        /\ \A r \in Req \cap hit : Grows(g, f, r, - PlaceholdersOf(e, r))
        /\ \A r \in Req \ hit : Grows(g, f, r, 0)
    BY <1>2, <1>6, WithoutPlaceholdersFacts
  <1>8. /\ IsHost(h)
        /\ \A r \in Req \cap hit : Grows(f, h, r, Len(tokens[r]))
        /\ \A r \in Req \ hit : Grows(f, h, r, 0)
    BY <1>3, <1>6, <1>7, WithTokensFacts
  <1>9. \A r \in Req : g.num[r] \in Int /\ Len(g.output[r]) \in Nat
    BY SeqFacts DEF IsHost
  <1>10. ASSUME NEW i \in e.counted, e.batch[i] \in ToSet(b)
         PROVE  Grows(g, h, e.batch[i],
                      Len(Extracted(e)[i]) - PlaceholdersOf(e, e.batch[i]))
    <2>1. PICK r : r = e.batch[i]
      OBVIOUS
    <2>2. /\ r \in Req \cap hit /\ tokens[r] = Extracted(e)[i]
          /\ PlaceholdersOf(e, r) \in Nat
      BY <1>4, <1>6, <1>10, <2>1
    <2>3. Len(tokens[r]) \in Nat
      BY <1>6, <2>2, SeqFacts
    <2>4. /\ Grows(g, f, r, - PlaceholdersOf(e, r))
          /\ Grows(f, h, r, Len(tokens[r]))
          /\ g.num[r] \in Int /\ Len(g.output[r]) \in Nat
      BY <1>7, <1>8, <1>9, <2>2
    <2>5. Grows(g, h, r, Len(tokens[r]) - PlaceholdersOf(e, r))
      <3>1. PICK n : n = Len(tokens[r])
        OBVIOUS
      <3>2. PICK m : m = PlaceholdersOf(e, r)
        OBVIOUS
      <3>3. n \in Int /\ m \in Int /\ n - m = (- m) + n /\ (- m) \in Int
        BY <2>2, <2>3, <3>1, <3>2
      <3>4. Grows(g, f, r, - m)
        BY Zenon, <2>4, <3>2
      <3>5. Grows(f, h, r, n)
        BY Zenon, <2>4, <3>1
      <3>6. Grows(g, h, r, (- m) + n)
        BY <2>4, <3>3, <3>4, <3>5, GrowsTwice
      <3> QED
        BY Zenon, <3>1, <3>2, <3>3, <3>6
    <2> QED
      BY <2>1, <2>2, <2>5
  <1>11. ASSUME NEW r \in Req,
                ~ (\E i \in e.counted : e.batch[i] = r /\ r \in ToSet(b))
         PROVE  Grows(g, h, r, 0)
    <2>1. r \in Req \ hit
      BY <1>5, <1>11
    <2>2. Grows(g, f, r, 0) /\ Grows(f, h, r, 0)
      BY <1>7, <1>8, <2>1
    <2> QED
      BY <1>9, <2>2 DEF Grows
  <1> QED
    BY <1>8, <1>10, <1>11

-----------------------------------------------------------------------------
(* The actions of the scheduler.                                           *)

\* The types of what a deployment is and of what is kept of a request.
LEMMA ConfigFacts ==
  ASSUME Shape
  PROVE  /\ config.mode \in {"sync", "async", "continue"}
         /\ config.maxLen \in Nat \ {0} /\ config.chunk \in Nat \ {0}
         /\ config.maxBurst \in Nat \ {0} /\ config.drafts \in Nat
         /\ config.drafts > 0 => config.mode = "async"
         /\ \A r \in config.reqs : Prompt[r] \in 1 .. config.maxLen - 1
         /\ \A r \in Req : /\ Prompt[r] \in Nat
                           /\ Len(received[r]) \in Nat
                           /\ Len(output[r]) \in Nat
                           /\ Known(r) \in Nat
                           /\ num[r] \in Int /\ inflight[r] \in Int
                           /\ computed[r] \in Int
  <1>1. config \in Config /\ config \in Configs
    BY RunnerAssumption DEF Shape
  <1>2. /\ config.mode \in {"sync", "async", "continue"}
        /\ config.maxLen \in Nat \ {0} /\ config.chunk \in Nat \ {0}
        /\ config.maxBurst \in Nat \ {0} /\ config.drafts \in Nat
    BY <1>1 DEF Config
  <1>3. /\ config.drafts > 0 => config.mode = "async"
        /\ \A r \in config.reqs : Prompt[r] \in 1 .. config.maxLen - 1
    BY <1>1, RunnerAssumption
  <1>4. ASSUME NEW r \in Req
        PROVE  /\ Prompt[r] \in Nat /\ Len(received[r]) \in Nat
               /\ Len(output[r]) \in Nat /\ Known(r) \in Nat
               /\ num[r] \in Int /\ inflight[r] \in Int /\ computed[r] \in Int
    <2>1. Prompt[r] \in Nat
      BY RunnerAssumption
    <2>2. Len(received[r]) \in Nat /\ Len(output[r]) \in Nat
      BY SeqFacts DEF Shape
    <2>3. num[r] \in Int /\ inflight[r] \in Int /\ computed[r] \in Int
      BY DEF Shape
    <2> QED
      BY <2>1, <2>2, <2>3 DEF Known
  <1> QED
    BY <1>2, <1>3, <1>4

\* Without drafts no step computes more than the scheduler expects.
LEMMA ScheduledFacts ==
  ASSUME Shape, NEW r \in Req, NEW c \in Int
  PROVE  /\ Scheduled(r, c) \in Int
         /\ Drafts = 0 => c + Scheduled(r, c) <= Expected(r)
  <1>1. /\ Chunk \in Int /\ MaxLen - 1 - c \in Int /\ Drafts \in Nat
        /\ Expected(r) \in Int
    BY ConfigFacts DEF Chunk, MaxLen, Drafts, Expected
  <1>2. PICK n : n = IF inflight[r] > 0 THEN Drafts ELSE 0
    OBVIOUS
  <1>3. n \in Nat /\ Expected(r) - c + n \in Int /\ (Drafts = 0 => n = 0)
    BY <1>1, <1>2
  <1>4. Scheduled(r, c) = Min({Chunk, MaxLen - 1 - c, Expected(r) - c + n})
    BY <1>2 DEF Scheduled
  <1>5. PICK x \in Int : x = Expected(r) - c + n
    BY <1>3
  <1>6. PICK a \in Int : a = Chunk
    BY <1>1
  <1>7. PICK b \in Int : b = MaxLen - 1 - c
    BY <1>1
  <1>8. Scheduled(r, c) = Min({a, b, x})
    BY <1>4, <1>5, <1>6, <1>7
  <1>9. Scheduled(r, c) \in Int /\ Scheduled(r, c) <= x
    <2>1. Min({a, b, x}) \in Int /\ Min({a, b, x}) <= x
      BY MinOfThree, Zenon
    <2> QED
      BY <1>8, <2>1
  <1> QED
    BY <1>1, <1>3, <1>5, <1>9

\* Scheduling, skipping and preempting requests changes no length.
LEMMA ScheduleKeeps ==
  ASSUME LInv, Schedule
  PROVE  LInv'
  <1>0. PICK S \in SUBSET {r \in Req : status[r] # "finished"},
             P \in SUBSET {r \in Req : status[r] # "finished"} :
          /\ LET from == [r \in Req |-> IF r \in P THEN 0 ELSE computed[r]]
             IN /\ \A r \in S : Scheduled(r, from[r]) > 0
                /\ so' = [r \in S |-> Scheduled(r, from[r])]
                /\ drafted' = [r \in S |->
                     Max({0, from[r] + so'[r] - Expected(r)})]
                /\ computed' = from
          /\ status' = [r \in Req |-> IF r \in S THEN "running"
                                      ELSE IF r \in P THEN "preempted"
                                      ELSE status[r]]
    BY Zenon DEF Schedule
  <1>1. PICK from :
            /\ from = [r \in Req |-> IF r \in P THEN 0 ELSE computed[r]]
            /\ so' = [r \in S |-> Scheduled(r, from[r])]
            /\ drafted' = [r \in S |->
                 Max({0, from[r] + so'[r] - Expected(r)})]
            /\ computed' = from
            /\ status' = [r \in Req |-> IF r \in S THEN "running"
                                        ELSE IF r \in P THEN "preempted"
                                        ELSE status[r]]
    BY <1>0
  <1>2. /\ UNCHANGED <<config, received, inflight, queue, batch, num, output,
                       pre, state, burst>>
        /\ pc = "schedule" /\ pc' = "execute"
        /\ Len(queue) <= IF Async THEN 1 ELSE 0
    BY DEF Schedule, hostVars
  <1>3. Shape /\ Outputs /\ Phases /\ Previous /\ Lengths
    BY DEF LInv
  <1>4. \A r \in Req : status'[r] = "finished" <=> status[r] = "finished"
    BY <1>1
  <1>5. Shape'
    <2>1. computed' \in [Req -> Int]
      BY <1>1, <1>3 DEF Shape
    <2>2. ASSUME NEW r \in S
          PROVE  /\ so'[r] \in Int /\ drafted'[r] \in Nat
                 /\ Drafts = 0 => drafted'[r] = 0
      <3>1. r \in Req /\ computed'[r] \in Int
        BY <2>1
      <3>2. so'[r] = Scheduled(r, computed'[r])
        BY <1>1
      <3>3. /\ so'[r] \in Int
            /\ Drafts = 0 => computed'[r] + so'[r] <= Expected(r)
        BY <1>3, <3>1, <3>2, ScheduledFacts
      <3>4. Expected(r) \in Int
        BY <1>3, <3>1, ConfigFacts DEF Expected
      <3>5. PICK x \in Int : x = computed'[r] + so'[r] - Expected(r)
        BY <3>1, <3>3, <3>4
      <3>6. drafted'[r] = Max({0, x})
        BY <1>1, <3>5
      <3>7. drafted'[r] = IF 0 <= x THEN x ELSE 0
        BY <3>6, MaxOfTwo
      <3>8. Drafts = 0 => x <= 0
        BY <3>1, <3>3, <3>4, <3>5
      <3> QED
        BY <3>3, <3>7, <3>8
    <2>3. IsDrafted(config', drafted', DOMAIN so')
      BY <1>1, <1>2, <2>2 DEF IsDrafted, Drafts
    <2>4. DOMAIN so' \subseteq Req /\ \A r \in DOMAIN so' : so'[r] \in Int
      BY <1>1, <2>2
    <2>5. status' \in [Req -> {"waiting", "running", "preempted", "finished"}]
      BY <1>1, <1>3 DEF Shape
    <2> QED
      BY <1>2, <1>3, <2>1, <2>3, <2>4, <2>5 DEF Shape
  <1>6. Outputs'
    BY <1>2, <1>3 DEF Outputs, Async, Mode
  <1>7. Phases'
    <2>1. \A r \in DOMAIN so' : status'[r] # "finished"
      BY <1>1
    <2> QED
      BY <1>2, <1>3, <2>1 DEF Phases, Async, Mode
  <1>8. Previous'
    BY <1>2, <1>3, <1>4 DEF Previous, IsPrevious, Async, Mode, Drafts
  <1>9. Lengths'
    <2>1. \A s \in ToSet(batch) : s \in Req
      BY <1>3, BatchFacts DEF Shape
    <2> QED
      BY <1>2, <1>3, <1>4, <2>1 DEF Lengths, Known, MaxLen, Async, Mode
  <1> QED
    BY <1>5, <1>6, <1>7, <1>8, <1>9 DEF LInv

\* A client that leaves changes no length.
LEMMA AbortKeeps ==
  ASSUME LInv, NEW r \in Req, Abort(r)
  PROVE  LInv'
  <1>1. /\ status' = [status EXCEPT ![r] = "finished"]
        /\ UNCHANGED <<config, received, computed, inflight, so, drafted,
                       queue, pc, batch, num, output, pre, state, burst>>
        /\ pc = "schedule"
    BY DEF Abort, hostVars, stepVars
  <1>2. Shape /\ Outputs /\ Phases /\ Previous /\ Lengths
    BY DEF LInv
  <1>3. \A s \in Req : status[s] = "finished" => status'[s] = "finished"
    BY <1>1, <1>2 DEF Shape
  <1>4. Shape'
    BY <1>1, <1>2 DEF Shape
  <1>5. Outputs'
    BY <1>1, <1>2 DEF Outputs, Async, Mode
  <1>6. Phases'
    BY <1>1, <1>2 DEF Phases, Async, Mode
  <1>7. Previous'
    BY <1>1, <1>2, <1>3 DEF Previous, IsPrevious, Async, Mode, Drafts
  <1>8. Lengths'
    <2>1. \A s \in ToSet(batch) : s \in Req
      BY <1>2, BatchFacts DEF Shape
    <2> QED
      BY <1>1, <1>2, <1>3, <2>1 DEF Lengths, Known, MaxLen, Async, Mode
  <1> QED
    BY <1>4, <1>5, <1>6, <1>7, <1>8 DEF LInv

\* The scheduler takes the tokens of output out: the requests got receive
\* some, and those of stopped end.
Delivery(out, tokens, got, stopped) ==
  /\ out = Head(queue)
  /\ tokens = [r \in Req |->
       IF r \in ToSet(out.batch) /\ status[r] # "finished"
       THEN out.tokens[CHOOSE i \in DOMAIN out.batch : out.batch[i] = r]
       ELSE <<>>]
  /\ got = {r \in Req : tokens[r] # <<>>}
  /\ received' = [r \in Req |-> received[r] \o tokens[r]]
  /\ inflight' = [r \in Req |->
       IF Async /\ r \in got THEN inflight[r] - 1 - out.drafted[r]
       ELSE inflight[r]]
  /\ computed' = [r \in Req |->
       IF r \in got /\ computed[r] > 0
       THEN computed[r] + Len(tokens[r]) - 1 - out.drafted[r]
       ELSE computed[r]]
  /\ stopped \in SUBSET got
  /\ \A r \in got : Prompt[r] + Len(received'[r]) >= MaxLen => r \in stopped
  /\ \A r \in got \ stopped : r \notin out.eos
  /\ gone' = gone \cup stopped
  /\ status' = [r \in Req |-> IF r \in stopped THEN "finished" ELSE status[r]]

\* Deliver does that.
LEMMA DeliverIs ==
  ASSUME Deliver
  PROVE  \E out, tokens, got, stopped : Delivery(out, tokens, got, stopped)
  <1> DEFINE o == Head(queue)
             t == [r \in Req |->
               IF r \in ToSet(o.batch) /\ status[r] # "finished"
               THEN o.tokens[CHOOSE i \in DOMAIN o.batch : o.batch[i] = r]
               ELSE <<>>]
             g == {r \in Req : t[r] # <<>>}
  <1>1. /\ received' = [r \in Req |-> received[r] \o t[r]]
        /\ inflight' = [r \in Req |->
             IF Async /\ r \in g THEN inflight[r] - 1 - o.drafted[r]
             ELSE inflight[r]]
        /\ computed' = [r \in Req |->
             IF r \in g /\ computed[r] > 0
             THEN computed[r] + Len(t[r]) - 1 - o.drafted[r]
             ELSE computed[r]]
        /\ \E stopped \in SUBSET g :
             /\ \A r \in g : Prompt[r] + Len(received'[r]) >= MaxLen
                               => r \in stopped
             /\ \A r \in g \ stopped : r \notin o.eos
             /\ gone' = gone \cup stopped
             /\ status' = [r \in Req |-> IF r \in stopped THEN "finished"
                                         ELSE status[r]]
    BY Zenon DEF Deliver
  <1>2. PICK stopped \in SUBSET g :
          /\ \A r \in g : Prompt[r] + Len(received'[r]) >= MaxLen
                            => r \in stopped
          /\ \A r \in g \ stopped : r \notin o.eos
          /\ gone' = gone \cup stopped
          /\ status' = [r \in Req |-> IF r \in stopped THEN "finished"
                                      ELSE status[r]]
    BY <1>1
  <1>3. Delivery(o, t, g, stopped)
    BY <1>1, <1>2, Zenon DEF Delivery
  <1> QED
    BY <1>3, Zenon

\* The tokens that the scheduler takes were on their way before, and what it
\* no longer expects is what the output owed, drafts that were rejected too.
LEMMA DeliverKeeps ==
  ASSUME LInv, Deliver
  PROVE  LInv'
  <1>0. Shape /\ Outputs /\ Phases /\ Previous /\ Lengths
    BY DEF LInv
  <1>1. PICK out, tokens, got, stopped :
          Delivery(out, tokens, got, stopped)
    BY DeliverIs
  <1>2. /\ out = Head(queue)
        /\ tokens = [r \in Req |->
             IF r \in ToSet(out.batch) /\ status[r] # "finished"
             THEN out.tokens[CHOOSE i \in DOMAIN out.batch : out.batch[i] = r]
             ELSE <<>>]
        /\ got = {r \in Req : tokens[r] # <<>>}
        /\ received' = [r \in Req |-> received[r] \o tokens[r]]
        /\ inflight' = [r \in Req |->
             IF Async /\ r \in got THEN inflight[r] - 1 - out.drafted[r]
             ELSE inflight[r]]
        /\ computed' = [r \in Req |->
             IF r \in got /\ computed[r] > 0
             THEN computed[r] + Len(tokens[r]) - 1 - out.drafted[r]
             ELSE computed[r]]
    BY <1>1 DEF Delivery
  <1>3. /\ stopped \in SUBSET got
        /\ \A r \in got : Prompt[r] + Len(received'[r]) >= MaxLen
                             => r \in stopped
        /\ status' = [r \in Req |-> IF r \in stopped THEN "finished"
                                    ELSE status[r]]
    BY <1>1 DEF Delivery
  <1>4. /\ queue # <<>> /\ queue' = Tail(queue)
        /\ Drafts > 0 =>
             Len(queue) = 2 \/ \A r \in Req : status[r] = "finished"
        /\ UNCHANGED <<config, so, drafted, pc, batch, num, output, pre, state,
                       burst>>
    BY DEF Deliver, hostVars, stepVars
  <1>5. PICK q : q = queue'
    OBVIOUS
  <1>6. \/ queue = <<out>> /\ q = <<>>
        \/ \E y : queue = <<out, y>> /\ q = <<y>>
    <2>1. (\E x : queue = <<x>>) \/ (\E x, y : queue = <<x, y>>)
      BY <1>0, <1>4, QueueIs DEF Outputs
    <2>2. ASSUME NEW x, queue = <<x>> PROVE queue = <<out>> /\ q = <<>>
      BY <1>2, <1>4, <1>5, <2>2, ShortQueues
    <2>3. ASSUME NEW x, NEW y, queue = <<x, y>>
          PROVE  queue = <<out, y>> /\ q = <<y>>
      BY <1>2, <1>4, <1>5, <2>3, ShortQueues
    <2> QED
      BY <2>1, <2>2, <2>3
  <1>7. IsOutput(config, out)
    BY <1>0, <1>6, ShortQueues DEF Outputs
  <1>8. \A r \in Req : status[r] = "finished" => status'[r] = "finished"
    BY <1>3
  <1>9. ASSUME NEW r \in Req
        PROVE  /\ IsSeq(tokens[r]) /\ Len(tokens[r]) \in Nat
               /\ r \in got => out.drafted[r] \in Nat
               /\ status[r] # "finished" => tokens[r] = TokensFor(out, r)
    <2>1. CASE r \in ToSet(out.batch) /\ status[r] # "finished"
      <3>1. tokens[r] = TokensFor(out, r)
        BY <1>2, <2>1 DEF TokensFor
      <3> QED
        BY <1>7, <2>1, <3>1, OutputFacts
    <2>2. CASE ~ (r \in ToSet(out.batch) /\ status[r] # "finished")
      <3>1. tokens[r] = <<>> /\ r \notin got
        BY <1>2, <2>2
      <3>2. status[r] # "finished" => TokensFor(out, r) = <<>>
        BY <2>2 DEF TokensFor
      <3> QED
        BY <3>1, <3>2, EmptyIsSeq
    <2> QED
      BY <2>1, <2>2
  <1>10. ASSUME NEW r \in Req, status'[r] # "finished"
         PROVE  /\ status[r] # "finished" /\ IsSeq(received'[r])
                /\ Len(received'[r])
                     = Len(received[r]) + Len(TokensFor(out, r))
                /\ Prompt[r] + Len(received'[r]) < MaxLen
                /\ Async => inflight'[r] = inflight[r] - Owed(out, r)
    <2>1. status[r] # "finished" /\ r \notin stopped
      BY <1>3, <1>10
    <2>2. IsSeq(received[r]) /\ received'[r] = received[r] \o tokens[r]
      BY <1>0, <1>2 DEF Shape
    <2>3. IsSeq(tokens[r]) /\ tokens[r] = TokensFor(out, r)
      BY <1>9, <2>1
    <2>4. /\ IsSeq(received'[r])
          /\ Len(received'[r]) = Len(received[r]) + Len(tokens[r])
      BY <2>2, <2>3, ConcatIsSeq
    <2>5. /\ Prompt[r] \in Nat /\ Len(received[r]) \in Nat
          /\ Len(tokens[r]) \in Nat
      BY <1>0, <1>9, ConfigFacts
    <2>6. MaxLen \in Int
      BY <1>0, ConfigFacts DEF MaxLen
    <2>7. Prompt[r] + Len(received'[r]) < MaxLen
      <3>1. CASE r \in got
        <4>1. ~ (Prompt[r] + Len(received'[r]) >= MaxLen)
          BY <1>3, <2>1, <3>1
        <4>2. PICK x \in Int : x = Prompt[r] + Len(received'[r])
          <5>1. Prompt[r] \in Int
            BY <2>5
          <5>2. Len(received'[r]) \in Int
            BY <2>4, <2>5
          <5> QED
            BY <5>1, <5>2
        <4> QED
          BY <2>6, <4>1, <4>2
      <3>2. CASE r \notin got
        <4>1. Len(tokens[r]) = 0
          BY <1>2, <2>3, <3>2, SeqFacts
        <4>2. Prompt[r] + Len(received[r]) < MaxLen
          BY <1>0, <2>1 DEF Lengths, Known
        <4> QED
          BY <2>4, <2>5, <4>1, <4>2
      <3> QED
        BY <3>1, <3>2
    <2>8. Async => inflight'[r] = inflight[r] - Owed(out, r)
      <3> SUFFICES ASSUME Async
                   PROVE  inflight'[r] = inflight[r] - Owed(out, r)
        OBVIOUS
      <3>1. inflight[r] \in Int /\ Owed(out, r) \in Nat
        BY <1>0, <1>7, ConfigFacts, OutputFacts
      <3>2. CASE r \in got
        <4>1. Owed(out, r) = 1 + out.drafted[r]
          BY <1>2, <2>3, <3>2 DEF Owed
        <4>2. inflight'[r] = inflight[r] - 1 - out.drafted[r]
          BY <1>2, <3>2
        <4> QED
          BY <1>9, <3>1, <3>2, <4>1, <4>2
      <3>3. CASE r \notin got
        <4>1. Owed(out, r) = 0
          BY <1>2, <2>3, <3>3 DEF Owed
        <4>2. inflight'[r] = inflight[r]
          BY <1>2, <3>3
        <4> QED
          BY <3>1, <4>1, <4>2
      <3> QED
        BY <3>2, <3>3
    <2> QED
      BY <2>1, <2>3, <2>4, <2>7, <2>8
  <1>11. Shape'
    <2>1. \A r \in Req : IsSeq(received'[r])
      BY <1>0, <1>2, <1>9, ConcatIsSeq DEF Shape
    <2>2. DOMAIN received' = Req
      BY <1>2
    <2>3. \A r \in Req : inflight[r] \in Int /\ computed[r] \in Int
      BY <1>0, ConfigFacts
    <2>4. ASSUME NEW r \in Req
          PROVE  inflight'[r] \in Int /\ computed'[r] \in Int
      <3>1. CASE r \in got
        <4>1. out.drafted[r] \in Nat /\ Len(tokens[r]) \in Nat
          BY <1>9, <3>1
        <4> QED
          BY <1>2, <2>3, <4>1
      <3>2. CASE r \notin got
        BY <1>2, <2>3, <3>2
      <3> QED
        BY <3>1, <3>2
    <2>5. inflight' \in [Req -> Int]
      BY <1>2, <2>4
    <2>6. computed' \in [Req -> Int]
      BY <1>2, <2>4
    <2>7. status' \in [Req -> {"waiting", "running", "preempted", "finished"}]
      BY <1>0, <1>3 DEF Shape
    <2> QED
      BY <1>0, <1>4, <2>1, <2>2, <2>5, <2>6, <2>7 DEF Shape
  <1>12. Outputs'
    <2>1. /\ IsSeq(q) /\ Len(q) <= 1
          /\ \A k \in DOMAIN q : IsOutput(config, q[k])
      BY <1>0, <1>6, ShortQueues DEF Outputs
    <2>2. pc # "schedule" => Len(q) <= IF Async THEN 1 ELSE 0
      BY <1>0, <1>6, <2>1, ShortQueues DEF Outputs
    <2> QED
      BY <1>4, <1>5, <2>1, <2>2, ShortQueues DEF Outputs, Async, Mode
  <1>13. Phases'
    <2>1. ~ (~ Async /\ pc = "execute")
      BY <1>0, <1>6, ShortQueues DEF Outputs
    <2> QED
      BY <1>0, <1>4, <2>1 DEF Phases, Async, Mode
  <1>14. Previous'
    <2>1. q # <<>> => q[Len(q)] = queue[Len(queue)]
      BY <1>6, ShortQueues
    <2>2. Drafts > 0 /\ q = <<>> => \A r \in Req : status'[r] = "finished"
      <3> SUFFICES ASSUME Drafts > 0, q = <<>>
                   PROVE  \A r \in Req : status[r] = "finished"
        BY <1>8
      <3>1. queue = <<out>>
        BY <1>6, ShortQueues
      <3>2. Len(queue) # 2
        BY <3>1, ShortQueues
      <3> QED
        BY <1>4, <3>2
    <2>3. pre # <<>> => IsPrevious(pre[1])'
      BY <1>0, <1>4, <1>5, <2>1, <2>2 DEF Previous, IsPrevious, Drafts
    <2>4. pre = <<>> /\ Async =>
            /\ pc # "sample" => batch = <<>>
            /\ q # <<>> => q[Len(q)].batch = <<>>
      BY <1>0, <1>4, <2>1 DEF Previous
    <2> QED
      BY <1>4, <1>5, <2>3, <2>4 DEF Previous, Async, Mode
  <1>15. ASSUME NEW r \in Req, status'[r] # "finished"
         PROVE  /\ Lag(config, queue, r)
                     = Len(TokensFor(out, r)) + Lag(config, q, r)
                /\ Coming(queue, r) = Owed(out, r) + Coming(q, r)
                /\ Lag(config, q, r) \in Int /\ Coming(q, r) \in Int
    <2>0. Len(TokensFor(out, r)) \in Nat /\ Owed(out, r) \in Nat
      BY <1>7, OutputFacts
    <2>1. CASE queue = <<out>> /\ q = <<>>
      <3>1. Drafts = 0
        <4>1. ~ (Drafts > 0)
          BY <1>4, <1>10, <1>15, <2>1, ShortQueues
        <4> QED
          BY <1>0, <4>1, ConfigFacts DEF Drafts
      <3>2. Async => Owed(out, r) = Len(TokensFor(out, r))
        BY <1>7, <3>1, OutputFacts DEF Async, Mode, Drafts
      <3>3. /\ Lag(config, <<>>, r) = 0 /\ Coming(<<>>, r) = 0
            /\ Coming(<<out>>, r) = Owed(out, r)
            /\ Lag(config, <<out>>, r) = Len(TokensFor(out, r))
        BY <3>2, LagIs DEF Async, Mode
      <3> QED
        BY <2>0, <2>1, <3>3
    <2>2. CASE \E y : queue = <<out, y>> /\ q = <<y>>
      <3>1. PICK y : queue = <<out, y>> /\ q = <<y>>
        BY <2>2
      <3>2. IsOutput(config, y) /\ config.mode = "async"
        BY <1>0, <3>1, ShortQueues DEF Outputs, Async, Mode
      <3>3. Owed(y, r) \in Nat
        BY <3>2, OutputFacts
      <3>4. Lag(config, <<out, y>>, r) = Len(TokensFor(out, r)) + Owed(y, r)
        BY <3>2, ShortQueues DEF Lag
      <3>5. Lag(config, <<y>>, r) = Owed(y, r)
        BY <3>2, LagIs
      <3>6. Coming(<<out, y>>, r) = Owed(out, r) + Owed(y, r)
        BY LagIs
      <3>7. Coming(<<y>>, r) = Owed(y, r)
        BY LagIs
      <3> QED
        BY <2>0, <3>1, <3>3, <3>4, <3>5, <3>6, <3>7
    <2> QED
      BY <1>6, <2>1, <2>2
  <1>16. Lengths'
    <2>1. ASSUME NEW r \in ToSet(batch)
          PROVE  /\ num[r] = Prompt[r] + Len(output[r])
                 /\ status'[r] # "finished" =>
                      num[r] = Prompt[r] + Len(received'[r])
                                 + Lag(config, q, r) + InBurst(burst, r)
      <3>1. r \in Req
        BY <1>0, BatchFacts DEF Shape
      <3>2. num[r] = Prompt[r] + Len(output[r])
        BY <1>0 DEF Lengths
      <3>3. ASSUME status'[r] # "finished"
            PROVE  num[r] = Prompt[r] + Len(received'[r])
                              + Lag(config, q, r) + InBurst(burst, r)
        <4>1. /\ Len(received'[r])
                    = Len(received[r]) + Len(TokensFor(out, r))
              /\ status[r] # "finished"
          BY <1>10, <3>1, <3>3
        <4>2. num[r] = Prompt[r] + Len(received[r])
                         + Lag(config, queue, r) + InBurst(burst, r)
          BY <1>0, <4>1 DEF Lengths, Known
        <4>3. /\ Lag(config, queue, r)
                   = Len(TokensFor(out, r)) + Lag(config, q, r)
              /\ Lag(config, q, r) \in Int
          BY <1>15, <3>1, <3>3
        <4>4. /\ Prompt[r] \in Nat /\ Len(received[r]) \in Nat
              /\ Len(TokensFor(out, r)) \in Nat
          BY <1>0, <1>7, <3>1, ConfigFacts, OutputFacts
        <4>5. InBurst(burst, r) \in Int
          BY <1>0, OutputFacts DEF Phases, InBurst
        <4> QED
          BY <4>1, <4>2, <4>3, <4>4, <4>5
      <3> QED
        BY <3>2, <3>3
    <2>2. ASSUME NEW r \in Req, status'[r] # "finished", Async
          PROVE  inflight'[r] = Coming(q, r) +
                   IF /\ pc = "sample" /\ r \in ToSet(batch)
                      /\ computed'[r] >= num[r]
                   THEN 1 + drafted[r] ELSE 0
      <3>1. PICK n : n = IF pc = "sample" /\ r \in ToSet(batch)
                              /\ computed[r] >= num[r]
                         THEN 1 + drafted[r] ELSE 0
        OBVIOUS
      <3>2. /\ status[r] # "finished"
            /\ inflight'[r] = inflight[r] - Owed(out, r)
        BY <1>10, <2>2
      <3>3. inflight[r] = Coming(queue, r) + n
        BY <1>0, <2>2, <3>1, <3>2 DEF Lengths
      <3>4. Coming(queue, r) = Owed(out, r) + Coming(q, r)
            /\ Coming(q, r) \in Int /\ Owed(out, r) \in Nat
        BY <1>7, <1>15, <2>2, OutputFacts
      <3>5. n \in Int
        <4>1. CASE pc = "sample" /\ r \in ToSet(batch)
          BY <1>0, <3>1, <4>1 DEF Phases, Shape, IsDrafted
        <4>2. CASE ~ (pc = "sample" /\ r \in ToSet(batch))
          BY <3>1, <4>2
        <4> QED
          BY <4>1, <4>2
      <3>6. pc = "sample" => computed'[r] = computed[r]
        <4> SUFFICES ASSUME pc = "sample" PROVE computed'[r] = computed[r]
          OBVIOUS
        <4>1. queue = <<out>>
          BY <1>0, <1>6, ShortQueues DEF Outputs
        <4>2. Drafts = 0
          <5>1. ~ (Drafts > 0)
            BY <1>4, <3>2, <4>1, ShortQueues
          <5> QED
            BY <1>0, <5>1, ConfigFacts DEF Drafts
        <4>3. Owed(out, r) = Len(TokensFor(out, r))
          BY <1>7, <2>2, <4>2, OutputFacts DEF Async, Mode, Drafts
        <4>4. tokens[r] = TokensFor(out, r)
          BY <1>9, <3>2
        <4>5. r \in got => Len(tokens[r]) = 1 + out.drafted[r]
          BY <1>2, <4>3, <4>4 DEF Owed
        <4>6. computed[r] \in Int
          BY <1>0, ConfigFacts
        <4>7. CASE r \in got /\ computed[r] > 0
          <5>1. computed'[r]
                  = computed[r] + Len(tokens[r]) - 1 - out.drafted[r]
            BY <1>2, <4>7
          <5> QED
            BY <1>9, <4>5, <4>6, <4>7, <5>1
        <4>8. CASE ~ (r \in got /\ computed[r] > 0)
          BY <1>2, <4>8
        <4> QED
          BY <4>7, <4>8
      <3>7. n = IF /\ pc = "sample" /\ r \in ToSet(batch)
                   /\ computed'[r] >= num[r]
                THEN 1 + drafted[r] ELSE 0
        BY <3>1, <3>6
      <3>8. inflight'[r] = Coming(q, r) + n
        BY <3>2, <3>3, <3>4, <3>5
      <3> QED
        BY <3>7, <3>8
    <2>3. \A r \in Req : status'[r] # "finished" =>
            Prompt[r] + Len(received'[r]) < MaxLen
      BY <1>10
    <2> QED
      BY <1>4, <1>5, <2>1, <2>2, <2>3 DEF Lengths, Known, Async, Mode, MaxLen
  <1> QED
    BY <1>11, <1>12, <1>13, <1>14, <1>16 DEF LInv

-----------------------------------------------------------------------------
(* The actions of the runner.                                              *)

\* The tokens of r in the only output of q, if there is one.
Got(q, r) == IF q = <<>> THEN 0 ELSE Len(TokensFor(q[1], r))

\* There is room for another output after q.
HasRoom(c, q) ==
  /\ IsSeq(q) /\ Len(q) <= 1
  /\ \A k \in DOMAIN q : IsOutput(c, q[k])
  /\ c.mode # "async" => q = <<>>

\* p is q and the output z after it.
IsAppended(c, q, z, p) ==
  /\ IsSeq(p) /\ Len(p) <= 2 /\ (c.mode # "async" => Len(p) <= 1)
  /\ \A k \in DOMAIN p : IsOutput(c, p[k])
  /\ p # <<>> /\ p[Len(p)] = z
  /\ \A r : /\ Coming(p, r) = Coming(q, r) + Owed(z, r)
            /\ Coming(q, r) \in Nat /\ Owed(z, r) \in Nat
            /\ Got(q, r) \in Nat /\ Len(TokensFor(z, r)) \in Nat
            /\ Lag(c, q, r) = Coming(q, r)
            /\ c.mode = "async" => Lag(c, p, r) = Got(q, r) + Owed(z, r)
            /\ c.mode # "async" => Lag(c, p, r) = Len(TokensFor(z, r))

\* An output that is appended owes its tokens; that of the step before is
\* known by then.
LEMMA OutputAppended ==
  ASSUME NEW c, NEW q, HasRoom(c, q), NEW z, IsOutput(c, z),
         NEW p, p = Append(q, z)
  PROVE  IsAppended(c, q, z, p)
  <1> USE DEF HasRoom, IsAppended
  <1>1. q = <<>> \/ \E x : q = <<x>>
    BY QueueIs, ShortQueues
  <1>2. \A r : Owed(z, r) \in Nat /\ Len(TokensFor(z, r)) \in Nat
    BY OutputFacts
  <1>3. CASE q = <<>>
    <2>1. p = <<z>>
      BY <1>3, ShortQueues
    <2>2. \A r : /\ Coming(<<>>, r) = 0 /\ Coming(<<z>>, r) = Owed(z, r)
                 /\ Got(<<>>, r) = 0 /\ Lag(c, <<>>, r) = 0
                 /\ c.mode = "async" => Lag(c, <<z>>, r) = Owed(z, r)
                 /\ c.mode # "async" =>
                      Lag(c, <<z>>, r) = Len(TokensFor(z, r))
      BY LagIs DEF Got
    <2>3. /\ IsSeq(p) /\ Len(p) = 1 /\ p # <<>> /\ p[Len(p)] = z
          /\ \A k \in DOMAIN p : IsOutput(c, p[k])
      BY <2>1, ShortQueues
    <2> QED
      BY <1>2, <1>3, <2>1, <2>2, <2>3
  <1>4. CASE q # <<>>
    <2>1. PICK x : q = <<x>>
      BY <1>1, <1>4
    <2>2. p = <<x, z>> /\ c.mode = "async" /\ IsOutput(c, x)
      BY <1>4, <2>1, ShortQueues
    <2>3. \A r : Owed(x, r) \in Nat /\ Len(TokensFor(x, r)) \in Nat
      BY <2>2, OutputFacts
    <2>4. /\ IsSeq(p) /\ Len(p) = 2 /\ p # <<>> /\ p[Len(p)] = z
          /\ \A k \in DOMAIN p : IsOutput(c, p[k])
      BY <2>2, ShortQueues
    <2>5. ASSUME NEW r
          PROVE  /\ Coming(p, r) = Coming(q, r) + Owed(z, r)
                 /\ Coming(q, r) \in Nat
                 /\ Got(q, r) \in Nat
                 /\ Lag(c, q, r) = Coming(q, r)
                 /\ Lag(c, p, r) = Got(q, r) + Owed(z, r)
      <3>1. Coming(q, r) = Owed(x, r)
        BY <2>1, LagIs
      <3>2. Coming(p, r) = Owed(x, r) + Owed(z, r)
        BY <2>2, LagIs
      <3>3. Lag(c, q, r) = Owed(x, r)
        BY <2>1, <2>2, LagIs
      <3>4. Lag(c, p, r) = Len(TokensFor(x, r)) + Owed(z, r)
        <4>1. c.mode = "async"
          BY <2>2
        <4>2. Lag(c, <<x, z>>, r) = Len(TokensFor(x, r)) + Owed(z, r)
          BY <4>1, LagIs
        <4> QED
          BY <2>2, <4>2
      <3>5. Got(q, r) = Len(TokensFor(x, r))
        BY <2>1, ShortQueues DEF Got
      <3> QED
        BY <2>3, <3>1, <3>2, <3>3, <3>4, <3>5
    <2> QED
      BY <1>2, <2>2, <2>4, <2>5
  <1> QED
    BY <1>3, <1>4

\* Before a step's output is appended, lag and expectation are the same.
LEMMA LagIsInt ==
  ASSUME NEW c, NEW q, HasRoom(c, q), NEW r
  PROVE  Lag(c, q, r) \in Nat /\ Lag(c, q, r) = Coming(q, r)
  <1>1. q = <<>> \/ \E x : q = <<x>>
    <2>1. IsSeq(q) /\ Len(q) <= 1
      BY DEF HasRoom
    <2>2. q = <<>> \/ (\E x : q = <<x>>) \/ (\E x, y : q = <<x, y>>)
      BY <2>1, QueueIs
    <2>3. ~ (\E x, y : q = <<x, y>>)
      BY <2>1, ShortQueues
    <2> QED
      BY <2>2, <2>3
  <1>2. CASE q = <<>>
    BY <1>2, LagIs
  <1>3. CASE q # <<>>
    <2>1. PICK x : q = <<x>>
      BY <1>1, <1>3
    <2>2. IsOutput(c, x) /\ c.mode = "async"
      BY <1>3, <2>1, ShortQueues DEF HasRoom
    <2>3. Lag(c, q, r) = Owed(x, r)
      BY <2>1, <2>2, LagIs
    <2>4. Coming(q, r) = Owed(x, r)
      BY <2>1, LagIs
    <2>5. Owed(x, r) \in Nat
      BY <2>2, OutputFacts
    <2> QED
      BY <2>3, <2>4, <2>5
  <1> QED
    BY <1>2, <1>3

\* While a step is executed its output has room in the queue.
LEMMA RoomInQueue ==
  ASSUME Outputs, pc # "schedule"
  PROVE  HasRoom(config, queue)
  <1>1. /\ IsSeq(queue) /\ Len(queue) <= IF Async THEN 1 ELSE 0
        /\ \A k \in DOMAIN queue : IsOutput(config, queue[k])
    BY DEF Outputs
  <1>2. Len(queue) \in Nat /\ (Len(queue) = 0 => queue = <<>>)
    BY <1>1, SeqFacts
  <1> QED
    BY <1>1, <1>2 DEF HasRoom, Async, Mode

\* While a step is planned, no output on its way has tokens of a request
\* that is not in the batch.
LEMMA NothingQueued ==
  ASSUME LInv, pc # "sample", HasRoom(config, queue),
         NEW r, r \notin ToSet(batch)
  PROVE  Lag(config, queue, r) = 0
  <1>0. Outputs /\ Previous
    BY DEF LInv
  <1>1. CASE queue = <<>>
    BY <1>1, LagIs
  <1>2. CASE queue # <<>>
    <2>1. config.mode = "async"
      BY <1>2 DEF HasRoom
    <2>2. PICK x : queue = <<x>> /\ IsOutput(config, x)
      BY <1>2, QueueIs, ShortQueues DEF HasRoom
    <2>3. queue[Len(queue)] = x
      BY <2>2, ShortQueues
    <2>4. x.batch = batch \/ x.batch = <<>>
      <3>1. CASE pre = <<>>
        BY <1>0, <1>2, <2>1, <2>3, <3>1 DEF Previous, Async, Mode
      <3>2. CASE pre # <<>>
        <4>1. IsPrevious(pre[1])
          BY <1>0, <3>2 DEF Previous
        <4>2. batch = pre[1].batch
          BY <4>1 DEF IsPrevious
        <4>3. queue[Len(queue)].batch = pre[1].batch
          BY <1>2, <4>1 DEF IsPrevious
        <4> QED
          BY <2>3, <4>2, <4>3
      <3> QED
        BY <3>1, <3>2
    <2>5. r \notin ToSet(x.batch)
      BY <2>4, NoBatch
    <2>6. Owed(x, r) = 0
      BY <2>2, <2>5, TokensForIs DEF IsOutput
    <2>7. Lag(config, queue, r) = Owed(x, r)
      BY <2>1, <2>2, LagIs
    <2> QED
      BY <2>6, <2>7
  <1> QED
    BY <1>1, <1>2

\* A request that enters the batch has the scheduler's length, one that
\* stays has the runner's.
LEMMA EnteredFacts ==
  ASSUME Shape, NEW b, NEW h, h = Entered(b)
  PROVE  /\ IsHost(h)
         /\ \A r \in Req \cap ToSet(b) :
              IF r \in ToSet(batch)
              THEN h.num[r] = num[r] /\ h.output[r] = output[r]
              ELSE h.num[r] = Known(r) /\ h.output[r] = received[r]
  <1>1. /\ h.num = [r \in Req |->
              IF r \in ToSet(b) \ ToSet(batch) THEN Known(r)
              ELSE IF r \in ToSet(b) THEN num[r] ELSE 0]
        /\ h.output = [r \in Req |->
              IF r \in ToSet(b) \ ToSet(batch) THEN received[r]
              ELSE IF r \in ToSet(b) THEN output[r] ELSE <<>>]
        /\ DOMAIN h = {"row", "num", "output"}
    BY DEF Entered
  <1>2. \A r \in Req : Known(r) \in Int /\ num[r] \in Int
    BY ConfigFacts
  <1>3. \A r \in Req : IsSeq(output[r]) /\ IsSeq(received[r]) /\ IsSeq(<<>>)
    BY EmptyIsSeq DEF Shape
  <1>4. \A r \in Req : h.num[r] \in Int /\ IsSeq(h.output[r])
    BY <1>1, <1>2, <1>3
  <1>5. IsHost(h)
    BY <1>1, <1>4 DEF IsHost
  <1> QED
    BY <1>1, <1>5

\* A step for nobody empties the batch; its output owes nothing.
LEMMA ExecuteEmptyKeeps ==
  ASSUME LInv, ExecuteEmpty
  PROVE  LInv'
  <1>0. Shape /\ Outputs /\ Phases /\ Previous /\ Lengths
    BY DEF LInv
  <1>1. PICK e : e = Entered(<<>>)
    OBVIOUS
  <1>2. PICK h : h = IF pre = <<>> THEN e ELSE Modified(pre[1], <<>>, e)
    OBVIOUS
  <1>3. PICK z : z = Output(<<>>, <<>>, {})
    OBVIOUS
  <1>4. PICK q : q = queue'
    OBVIOUS
  <1>5. /\ batch' = <<>> /\ pre' = <<>> /\ q = Append(queue, z)
        /\ num' = h.num /\ output' = h.output
        /\ pc = "execute" /\ pc' = "schedule" /\ DOMAIN so = {}
        /\ UNCHANGED <<config, status, received, computed, inflight, so,
                       drafted, state, burst>>
    BY <1>1, <1>2, <1>3, <1>4 DEF ExecuteEmpty, SetHost, stepVars
  <1>6. z.batch = <<>> /\ DOMAIN z.batch = {}
    BY <1>3 DEF Output
  <1>7. /\ IsOutput(config, z)
        /\ \A r : TokensFor(z, r) = <<>> /\ Owed(z, r) = 0
    <2>1. IsOutput(config, z)
      BY <1>6, NoBatch DEF IsOutput, IsDrafted
    <2> QED
      BY <1>6, <2>1, NoBatch, TokensForIs
  <1>8. IsHost(h)
    <2>1. IsHost(e)
      BY <1>0, <1>1, EnteredFacts
    <2>2. ASSUME pre # <<>>
          PROVE  IsHost(h)
      <3>1. PICK p : p = pre[1]
        OBVIOUS
      <3>2. IsResult(config, p)
        BY <1>0, <2>2, <3>1 DEF Previous, IsPrevious
      <3>3. h = Modified(p, <<>>, e)
        BY <1>2, <2>2, <3>1
      <3>4. \A i \in p.counted : p.batch[i] \notin ToSet(<<>>)
        BY NoBatch
      <3> QED
        BY <2>1, <3>2, <3>3, <3>4, ModifiedFacts
    <2> QED
      BY <1>2, <2>1, <2>2
  <1>9. HasRoom(config, queue)
    BY <1>0, <1>5, RoomInQueue
  <1>10. IsAppended(config, queue, z, q)
    BY <1>5, <1>7, <1>9, OutputAppended
  <1>11. Shape'
    <2>1. \A r \in Req : h.num[r] \in Int /\ IsSeq(h.output[r])
      BY <1>8 DEF IsHost
    <2> QED
      BY <1>0, <1>5, <1>8, <2>1, NoBatch DEF Shape, IsHost
  <1>12. Outputs'
    BY <1>4, <1>5, <1>10 DEF Outputs, IsAppended, Async, Mode
  <1>13. Phases'
    BY <1>0, <1>5 DEF Phases, Async, Mode
  <1>14. Previous'
    BY <1>4, <1>5, <1>6, <1>10 DEF Previous, IsAppended
  <1>15. Lengths'
    <2>1. ASSUME NEW r \in Req, status[r] # "finished"
          PROVE  /\ Known(r) < MaxLen
                 /\ Async => inflight[r] = Coming(q, r) + 0
      <3>1. /\ Known(r) < MaxLen
            /\ Async => inflight[r] = Coming(queue, r) + 0
        BY <1>0, <1>5, <2>1 DEF Lengths
      <3>2. Coming(q, r) = Coming(queue, r) + 0 /\ Coming(queue, r) \in Nat
        BY <1>7, <1>10 DEF IsAppended
      <3> QED
        BY <3>1, <3>2
    <2> QED
      BY <1>4, <1>5, <2>1, NoBatch DEF Lengths, Known, MaxLen, Async, Mode
  <1> QED
    BY <1>11, <1>12, <1>13, <1>14, <1>15 DEF LInv

\* A burst's tokens, in the rows already, become an output.
LEMMA SampleBurstKeeps ==
  ASSUME LInv, SampleBurst
  PROVE  LInv'
  <1>0. Shape /\ Outputs /\ Phases /\ Previous /\ Lengths
    BY DEF LInv
  <1>1. PICK z : z = burst[1]
    OBVIOUS
  <1>2. PICK q : q = queue'
    OBVIOUS
  <1>3. /\ burst # <<>> /\ burst' = <<>> /\ q = Append(queue, z)
        /\ pc = "sample" /\ pc' = "schedule"
        /\ UNCHANGED <<config, status, received, computed, inflight, so,
                       drafted, batch, num, output, pre, state>>
    BY <1>1, <1>2 DEF SampleBurst, schedulerVars, stepVars, hostVars
  <1>4. ~ Async /\ IsOutput(config, z) /\ state = <<>> /\ pre = <<>>
    BY <1>0, <1>1, <1>3 DEF Phases
  <1>5. queue = <<>>
    <2>1. IsSeq(queue) /\ Len(queue) <= 0
      BY <1>0, <1>3, <1>4 DEF Outputs
    <2>2. Len(queue) \in Nat /\ (Len(queue) = 0 => queue = <<>>)
      BY <2>1, SeqFacts
    <2> QED
      BY <2>1, <2>2
  <1>6. q = <<z>>
    BY <1>3, <1>5, ShortQueues
  <1>7. Shape'
    BY <1>0, <1>3 DEF Shape
  <1>8. Outputs'
    BY <1>2, <1>3, <1>4, <1>6, ShortQueues DEF Outputs, Async, Mode
  <1>9. Phases'
    BY <1>0, <1>3, <1>4 DEF Phases, Async, Mode
  <1>10. Previous'
    BY <1>3, <1>4 DEF Previous, Async, Mode
  <1>11. Lengths'
    <2>1. \A r : /\ Lag(config, <<>>, r) = 0
                 /\ Lag(config, q, r) = Len(TokensFor(z, r))
      BY <1>4, <1>6, LagIs DEF Async, Mode
    <2>2. \A r : Len(TokensFor(z, r)) \in Nat
      BY <1>4, OutputFacts
    <2>3. \A r : /\ InBurst(burst, r) = Len(TokensFor(z, r))
                 /\ InBurst(<<>>, r) = 0
      BY <1>1, <1>3 DEF InBurst
    <2>4. ASSUME NEW r \in ToSet(batch), status[r] # "finished"
          PROVE  num[r] = Known(r) + Lag(config, q, r) + InBurst(<<>>, r)
      <3>1. num[r] = Known(r) + Lag(config, <<>>, r) + InBurst(burst, r)
        BY <1>0, <1>5, <2>4 DEF Lengths
      <3>2. Known(r) \in Nat
        BY <1>0, <2>4, BatchFacts, ConfigFacts DEF Shape
      <3> QED
        BY <2>1, <2>2, <2>3, <3>1, <3>2
    <2>5. \A r \in ToSet(batch) : num[r] = Prompt[r] + Len(output[r])
      BY <1>0 DEF Lengths
    <2>6. \A r \in Req : status[r] # "finished" => Known(r) < MaxLen
      BY <1>0 DEF Lengths
    <2> QED
      BY <1>2, <1>3, <1>4, <2>4, <2>5, <2>6
         DEF Lengths, Known, MaxLen, Async, Mode
  <1> QED
    BY <1>7, <1>8, <1>9, <1>10, <1>11 DEF LInv

\* The place of a request lies in next_tokens.
LEMMA PlaceInShare ==
  ASSUME NEW b, IsBatch(b), NEW i \in DOMAIN b
  PROVE  Places(b, PaddedReqs(b))[i] \in 0 .. DP * PaddedReqs(b) - 1
  <1>1. PICK w \in Nat \ {0} :
          /\ w = PaddedReqs(b)
          /\ \A d \in 0 .. DP - 1 : Len(OnRank(b, d)) <= w
    BY PaddedReqsFacts
  <1>2. PICK d \in 0 .. DP - 1 : \E k \in 1 .. Len(OnRank(b, d)) :
          Places(b, w)[i] = k - 1 + w * d
    BY PlacesFacts
  <1>3. PICK k \in 1 .. Len(OnRank(b, d)) : Places(b, w)[i] = k - 1 + w * d
    BY <1>2
  <1>4. Len(OnRank(b, d)) \in Nat
    BY IndicesFacts
  <1>5. k \in 1 .. w
    BY <1>1, <1>4
  <1>6. DP \in Nat \ {0}
    BY LayoutAssumption
  <1>7. w * d <= w * (DP - 1) /\ w * d \in Nat /\ w * (DP - 1) = DP * w - w
    BY <1>6
  <1>8. k - 1 + w * d \in 0 .. DP * w - 1
    BY <1>5, <1>6, <1>7
  <1> QED
    BY <1>1, <1>3, <1>8

\* A request that enters the batch has no output on its way: an unfinished
\* request of a batch has what the scheduler expects.
LEMMA EnteredLengths ==
  ASSUME LInv, pc = "execute", NEW b \in SetToSeqs(DOMAIN so),
         NEW h, h = Entered(b), NEW r \in ToSet(b)
  PROVE  /\ r \in Req /\ r \in DOMAIN so
         /\ h.num[r] = Prompt[r] + Len(h.output[r])
         /\ status[r] # "finished" =>
              h.num[r] = Known(r) + Lag(config, queue, r)
  <1>0. Shape /\ Outputs /\ Phases /\ Previous /\ Lengths
    BY DEF LInv
  <1>1. r \in Req /\ r \in DOMAIN so
    BY <1>0, BatchesFacts DEF Shape
  <1>2. IF r \in ToSet(batch)
        THEN h.num[r] = num[r] /\ h.output[r] = output[r]
        ELSE h.num[r] = Known(r) /\ h.output[r] = received[r]
    BY <1>0, <1>1, EnteredFacts
  <1>3. burst = <<>> /\ InBurst(burst, r) = 0
    BY <1>0 DEF Phases, InBurst
  <1>4. Known(r) \in Nat
    BY <1>0, <1>1, ConfigFacts
  <1>5. HasRoom(config, queue)
    BY <1>0, RoomInQueue
  <1>6. CASE r \in ToSet(batch)
    <2>1. num[r] = Prompt[r] + Len(output[r])
      BY <1>0, <1>6 DEF Lengths
    <2>2. status[r] # "finished" => num[r] = Known(r) + Lag(config, queue, r)
      <3>1. Lag(config, queue, r) \in Int
        BY <1>5, LagIsInt
      <3> QED
        BY <1>0, <1>3, <1>4, <1>6, <3>1 DEF Lengths
    <2> QED
      BY <1>1, <1>2, <1>6, <2>1, <2>2
  <1>7. CASE r \notin ToSet(batch)
    <2>1. Lag(config, queue, r) = 0
      BY <1>5, <1>7, NothingQueued
    <2> QED
      BY <1>1, <1>2, <1>4, <1>7, <2>1 DEF Known
  <1> QED
    BY <1>6, <1>7

\* What a step samples for each request is a token, or with drafts some.
LEMMA SampledFacts ==
  ASSUME Shape, NEW b \in SetToSeqs(DOMAIN so), NEW h, NEW w,
         NEW i \in DOMAIN b
  PROVE  IsSample(config, NextOf(b, h, w)[Places(b, PaddedReqs(b))[i]])
  <1>1. IsBatch(b) /\ ToSet(b) = DOMAIN so
    BY BatchesFacts DEF Shape
  <1>2. PICK dr : dr = drafted
    OBVIOUS
  <1>3. \A r \in ToSet(b) : dr[r] \in Nat /\ (config.drafts = 0 => dr[r] = 0)
    BY <1>1, <1>2 DEF Shape, IsDrafted
  <1>4. PICK n, whole, ids, positions :
          NextOf(b, h, w) = NextTokens(b, n, dr, whole, ids, positions, w)
    BY <1>2 DEF NextOf
  <1>5. PICK s \in 0 .. DP * PaddedReqs(b) - 1 :
          s = Places(b, PaddedReqs(b))[i]
    BY <1>1, PlaceInShare
  <1>6. PICK t : t = NextTokens(b, n, dr, whole, ids, positions, w)[s]
    OBVIOUS
  <1>7. /\ IsSeq(t) /\ Len(t) >= 1
        /\ (\A r \in ToSet(b) : dr[r] = 0) => Len(t) = 1
    BY <1>1, <1>3, <1>6, NextTokensFacts
  <1> QED
    BY <1>3, <1>4, <1>5, <1>6, <1>7 DEF IsSample

\* A step that is dispatched is counted on exactly when its result will
\* count: when it computes all that the runner has of the request.
LEMMA ExecuteModelKeeps ==
  ASSUME LInv, ExecuteModel
  PROVE  LInv'
  <1>0. Shape /\ Outputs /\ Phases /\ Previous /\ Lengths
    BY DEF LInv
  <1>1. PICK b \in Batches :
          LET host  == Entered(b)
              width == PaddedTokens(b, so, FALSE)
          IN /\ batch' = b
             /\ SetHost(host)
             /\ state' = <<[batch |-> b,
                            next |-> NextOf(b, host, width),
                            places |-> Places(b, PaddedReqs(b)),
                            ids |-> PreparedIds(b, host, width),
                            first |-> [r \in DOMAIN so |->
                                         computed[r] - Rejected(r)],
                            experts |-> ExpertIndices(b, so, width)]>>
    BY Zenon DEF ExecuteModel
  <1>2. PICK h : h = Entered(b)
    OBVIOUS
  <1>3. PICK w : w = PaddedTokens(b, so, FALSE)
    OBVIOUS
  <1>4. /\ batch' = b /\ num' = h.num /\ output' = h.output
        /\ state' # <<>> /\ state'[1].batch = b
        /\ state'[1].next = NextOf(b, h, w)
        /\ state'[1].places = Places(b, PaddedReqs(b))
    BY <1>1, <1>2, <1>3 DEF SetHost
  <1>5. /\ pc = "execute" /\ pc' = "sample"
        /\ computed' = [r \in Req |-> IF r \in DOMAIN so THEN Advanced(r)
                                      ELSE computed[r]]
        /\ inflight' = [r \in Req |->
             IF Async /\ r \in DOMAIN so /\ Advanced(r) >= Expected(r)
             THEN inflight[r] + 1 + drafted[r] ELSE inflight[r]]
        /\ UNCHANGED <<config, status, received, so, drafted, queue, pre,
                       burst>>
    BY DEF ExecuteModel, ScheduleAhead, stepVars
  <1>6. b \in SetToSeqs(DOMAIN so)
    BY DEF Batches
  <1>7. IsBatch(b) /\ ToSet(b) = DOMAIN so
    BY <1>0, <1>6, BatchesFacts DEF Shape
  <1>8. /\ IsHost(h)
        /\ \A r \in Req \cap ToSet(b) :
             IF r \in ToSet(batch)
             THEN h.num[r] = num[r] /\ h.output[r] = output[r]
             ELSE h.num[r] = Known(r) /\ h.output[r] = received[r]
    BY <1>0, <1>2, EnteredFacts
  <1>9. burst = <<>>
    BY <1>0, <1>5 DEF Phases
  <1>10. \A r \in DOMAIN so : /\ r \in Req /\ so[r] \in Int
                              /\ computed[r] \in Int /\ drafted[r] \in Nat
    BY <1>0, ConfigFacts DEF Shape, IsDrafted
  <1>11. Shape'
    <2>1. \A r \in Req : /\ h.num[r] \in Int /\ IsSeq(h.output[r])
                         /\ computed[r] \in Int /\ inflight[r] \in Int
      BY <1>0, <1>8, ConfigFacts DEF IsHost
    <2>2. num' \in [Req -> Int] /\ DOMAIN output' = Req
      BY <1>4, <1>8 DEF IsHost
    <2>3. \A r \in Req : IsSeq(output'[r])
      BY <1>4, <2>1
    <2>4. computed' \in [Req -> Int]
      BY <1>5, <1>10, <2>1 DEF Advanced
    <2>5. inflight' \in [Req -> Int]
      BY <1>5, <1>10, <2>1
    <2> QED
      BY <1>0, <1>4, <1>5, <1>7, <2>2, <2>3, <2>4, <2>5 DEF Shape
  <1>12. Outputs'
    BY <1>0, <1>5 DEF Outputs, Async, Mode
  <1>13. Phases'
    <2>1. \A i \in DOMAIN b :
            IsSample(config, state'[1].next[state'[1].places[i]])
      BY <1>0, <1>4, <1>6, SampledFacts
    <2> QED
      BY <1>0, <1>4, <1>5, <1>7, <1>9, <2>1 DEF Phases, Async, Mode
  <1>14. Previous'
    <2>1. ASSUME pre # <<>>
          PROVE  IsPrevious(pre[1])'
      <3>1. PICK p : p = pre[1]
        OBVIOUS
      <3>2. IsPrevious(p)
        BY <1>0, <2>1, <3>1 DEF Previous
      <3>3. IsResult(config, p) /\ batch = p.batch
        BY <1>5, <3>2 DEF IsPrevious
      <3>4. ASSUME NEW i \in p.counted, p.batch[i] \in ToSet(b)
            PROVE  Len(output'[p.batch[i]]) >= PlaceholdersOf(p, p.batch[i])
        <4>1. PICK r : r = p.batch[i]
          OBVIOUS
        <4>2. r \in ToSet(batch) /\ r \in Req
          BY <3>3, <4>1, BatchFacts DEF IsResult
        <4>3. Len(output[r]) >= PlaceholdersOf(p, r)
          BY <3>2, <4>1, <4>2 DEF IsPrevious
        <4>4. output'[r] = output[r]
          BY <1>4, <1>8, <3>4, <4>1, <4>2
        <4> QED
          BY <4>1, <4>3, <4>4
      <3>5. IsPrevious(p)'
        BY <1>4, <1>5, <3>2, <3>4 DEF IsPrevious, Drafts
      <3> QED
        BY <1>5, <3>1, <3>5
    <2> QED
      BY <1>0, <1>5, <2>1 DEF Previous, Async, Mode
  <1>15. ASSUME NEW r \in ToSet(b)
         PROVE  /\ r \in Req /\ r \in DOMAIN so
                /\ h.num[r] = Prompt[r] + Len(h.output[r])
                /\ status[r] # "finished" =>
                     h.num[r] = Known(r) + Lag(config, queue, r)
    BY <1>2, <1>5, <1>6, EnteredLengths
  <1>16. HasRoom(config, queue)
    BY <1>0, <1>5, RoomInQueue
  <1>17. ASSUME NEW r \in Req, status[r] # "finished", Async
         PROVE  inflight'[r] = Coming(queue, r) +
                  IF r \in ToSet(b) /\ computed'[r] >= h.num[r]
                  THEN 1 + drafted[r] ELSE 0
    <2>1. inflight[r] = Coming(queue, r) + 0 /\ Coming(queue, r) \in Nat
      BY <1>0, <1>5, <1>16, <1>17, LagIsInt DEF Lengths
    <2>2. CASE r \in ToSet(b)
      <3>1. computed'[r] = Advanced(r)
        BY <1>5, <1>7, <2>2
      <3>2. h.num[r] = Expected(r)
        <4>1. h.num[r] = Known(r) + Lag(config, queue, r)
          BY <1>15, <1>17, <2>2
        <4>2. Lag(config, queue, r) = Coming(queue, r)
          BY <1>16, LagIsInt
        <4> QED
          BY <2>1, <4>1, <4>2 DEF Expected
      <3>3. inflight'[r] = IF Advanced(r) >= Expected(r)
                           THEN inflight[r] + 1 + drafted[r] ELSE inflight[r]
        BY <1>5, <1>7, <1>17, <2>2
      <3>4. drafted[r] \in Nat
        BY <1>7, <1>10, <2>2
      <3> QED
        BY <2>1, <2>2, <3>1, <3>2, <3>3, <3>4
    <2>3. CASE r \notin ToSet(b)
      BY <1>5, <1>7, <2>1, <2>3
    <2> QED
      BY <2>2, <2>3
  <1>18. Lengths'
    <2>1. ASSUME NEW r \in ToSet(b)
          PROVE  /\ h.num[r] = Prompt[r] + Len(h.output[r])
                 /\ status[r] # "finished" =>
                      h.num[r] = Known(r) + Lag(config, queue, r)
                                   + InBurst(<<>>, r)
      <3>1. Known(r) \in Nat /\ Lag(config, queue, r) \in Nat
        BY <1>0, <1>15, <1>16, ConfigFacts, LagIsInt
      <3>2. InBurst(<<>>, r) = 0
        BY DEF InBurst
      <3> QED
        BY <1>15, <3>1, <3>2
    <2>2. \A r \in Req : status[r] # "finished" => Known(r) < MaxLen
      BY <1>0 DEF Lengths
    <2> QED
      BY <1>4, <1>5, <1>9, <1>17, <2>1, <2>2
         DEF Lengths, Known, MaxLen, Async, Mode
  <1> QED
    BY <1>11, <1>12, <1>13, <1>14, <1>18 DEF LInv

\* A burst stops before a request outgrows max_model_len.
LEMMA BurstFits ==
  ASSUME NEW b, ToSet(b) \subseteq Req, NEW h, NEW r \in ToSet(b),
         MaxLen \in Nat, MaxBurst \in Nat,
         \A s \in ToSet(b) : h.num[s] \in Nat /\ h.num[s] < MaxLen
  PROVE  /\ MaxDecodeSteps(h, b) \in Int
         /\ h.num[r] + MaxDecodeSteps(h, b) <= MaxLen
  <1> DEFINE S == {h.num[s] : s \in ToSet(b)}
  <1>1. S \in SUBSET Nat /\ S # {} /\ \A x \in S : x <= MaxLen
    OBVIOUS
  <1>2. Max(S) \in S /\ \A y \in S : Max(S) >= y
    <2> HIDE DEF S
    <2> QED
      BY <1>1, MaxIs
  <1>3. PICK x \in Nat : x = Max(S) /\ x < MaxLen /\ x >= h.num[r]
    BY <1>2
  <1>4. PICK y \in Int : y = MaxLen - x /\ y >= 1
    <2>1. PICK n \in Nat : n = MaxLen
      OBVIOUS
    <2>2. n - x \in Int /\ n - x >= 1
      BY <1>3, <2>1
    <2> QED
      BY <2>1, <2>2
  <1>5. MinRemaining(h, b) = y
    BY <1>3, <1>4 DEF MinRemaining
  <1>6. PICK a \in Int : a = MaxBurst
    OBVIOUS
  <1>7. Min({a, y, y}) \in Int /\ Min({a, y, y}) <= y
    BY MinOfThree, Zenon
  <1>8. {a, y, y} = {a, y}
    OBVIOUS
  <1>9. PICK m \in Int : m = Min({MaxBurst, MinRemaining(h, b)}) /\ m <= y
    BY <1>5, <1>6, <1>7, <1>8
  <1>10. MaxDecodeSteps(h, b) = Max({1, m})
    BY <1>9 DEF MaxDecodeSteps
  <1>11. MaxDecodeSteps(h, b) = IF 1 <= m THEN m ELSE 1
    BY <1>10, MaxOfTwo
  <1>12. h.num[r] \in Nat
    OBVIOUS
  <1> QED
    BY <1>3, <1>4, <1>9, <1>11, <1>12

\* The first token that a burst samples for r.
FirstToken(b, h, r) ==
  NextOf(b, h, PaddedTokens(b, so, TRUE))[
    Places(b, PaddedTokens(b, so, TRUE))[
      CHOOSE i \in DOMAIN b : b[i] = r]][1]

\* A burst for batch b samples len[r] tokens of r, as many as fit, appends
\* them to the host's copy h, and has the output z.
BurstOf(b, h, g, z, tokens, len, fitting) ==
  /\ b \in SetToSeqs(DOMAIN so) /\ h = Entered(b)
  /\ g = WithTokens(fitting, tokens, h)
  /\ batch' = b /\ row' = g.row /\ num' = g.num /\ output' = g.output
  /\ burst' = <<z>> /\ z.batch = b /\ IsOutput(config, z)
  /\ IsBatch(b) /\ ToSet(b) = DOMAIN so
  /\ queue = <<>> /\ pre = <<>> /\ state = <<>>
  /\ ~ Async /\ config.mode # "async"
  /\ fitting \subseteq DOMAIN so
  /\ \A r \in DOMAIN so :
       /\ r \in fitting /\ len[r] \in Nat \ {0}
       /\ r \in Req /\ r \in ToSet(b) /\ status[r] # "finished"
       /\ h.num[r] = Known(r) /\ Known(r) \in Nat /\ Known(r) < MaxLen
       /\ h.num[r] = Prompt[r] + Len(h.output[r])
       /\ h.num[r] + len[r] <= MaxLen
       /\ tokens[r] = [k \in 1 .. len[r] |->
                         <<FirstToken(b, h, r)[1],
                           FirstToken(b, h, r)[2] + k - 1>>]
       /\ IsSeq(tokens[r]) /\ Len(tokens[r]) = len[r]
       /\ TokensFor(z, r) = tokens[r]

\* The tokens of a burst all fit.
LEMMA BurstIs ==
  ASSUME LInv, ExecuteContinueDecode
  PROVE  \E b, h, g, z, tokens, len, fitting :
           BurstOf(b, h, g, z, tokens, len, fitting)
  <1>0. Shape /\ Outputs /\ Phases /\ Previous /\ Lengths
    BY DEF LInv
  <1>1. PICK b \in Batches :
          LET entered == Entered(b)
              width == PaddedTokens(b, so, TRUE)
              next == NextOf(b, entered, width)
              places == Places(b, width)
          IN \E steps \in 1 .. MaxDecodeSteps(entered, b),
                eos \in SUBSET DOMAIN so :
             \E len \in [DOMAIN so -> 1 .. steps] :
               LET first(r) ==
                     next[places[CHOOSE i \in DOMAIN b : b[i] = r]][1]
                   tokens == [r \in DOMAIN so |-> [k \in 1 .. len[r] |->
                                <<first(r)[1], first(r)[2] + k - 1>>]]
                   fitting == {r \in DOMAIN so :
                                 entered.num[r] + len[r] <= MaxLen}
               IN /\ steps < MaxDecodeSteps(entered, b) => eos # {}
                  /\ \A r \in DOMAIN so : len[r] < steps => r \in eos
                  /\ batch' = b
                  /\ SetHost(WithTokens(fitting, tokens, entered))
                  /\ burst' = <<Output(b, [i \in DOMAIN b |-> tokens[b[i]]],
                                       eos)>>
    BY Zenon DEF ExecuteContinueDecode
  <1> DEFINE entered == Entered(b)
             width == PaddedTokens(b, so, TRUE)
             next == NextOf(b, entered, width)
             places == Places(b, width)
             first(r) == next[places[CHOOSE i \in DOMAIN b : b[i] = r]][1]
  <1>2. PICK steps \in 1 .. MaxDecodeSteps(entered, b),
             eos \in SUBSET DOMAIN so :
          \E len \in [DOMAIN so -> 1 .. steps] :
            LET tokens == [r \in DOMAIN so |-> [k \in 1 .. len[r] |->
                             <<first(r)[1], first(r)[2] + k - 1>>]]
                fitting == {r \in DOMAIN so :
                              entered.num[r] + len[r] <= MaxLen}
            IN /\ steps < MaxDecodeSteps(entered, b) => eos # {}
               /\ \A r \in DOMAIN so : len[r] < steps => r \in eos
               /\ batch' = b
               /\ SetHost(WithTokens(fitting, tokens, entered))
               /\ burst' = <<Output(b, [i \in DOMAIN b |-> tokens[b[i]]],
                                    eos)>>
    BY <1>1, Zenon
  <1> HIDE DEF first
  <1>3. PICK len \in [DOMAIN so -> 1 .. steps] :
            LET tokens == [r \in DOMAIN so |-> [k \in 1 .. len[r] |->
                             <<first(r)[1], first(r)[2] + k - 1>>]]
                fitting == {r \in DOMAIN so :
                              entered.num[r] + len[r] <= MaxLen}
            IN /\ steps < MaxDecodeSteps(entered, b) => eos # {}
               /\ \A r \in DOMAIN so : len[r] < steps => r \in eos
               /\ batch' = b
               /\ SetHost(WithTokens(fitting, tokens, entered))
               /\ burst' = <<Output(b, [i \in DOMAIN b |-> tokens[b[i]]],
                                    eos)>>
    BY <1>2, Zenon
  <1> DEFINE toks == [r \in DOMAIN so |-> [k \in 1 .. len[r] |->
                             <<first(r)[1], first(r)[2] + k - 1>>]]
             fits == {r \in DOMAIN so : entered.num[r] + len[r] <= MaxLen}
             tails == [i \in DOMAIN b |-> toks[b[i]]]
  <1>4. /\ batch' = b
        /\ SetHost(WithTokens(fits, toks, entered))
        /\ burst' = <<Output(b, tails, eos)>>
    BY <1>3, Zenon
  <1>5. PICK tokens : tokens = toks
    OBVIOUS
  <1>6. tokens = [r \in DOMAIN so |-> [k \in 1 .. len[r] |->
                    <<first(r)[1], first(r)[2] + k - 1>>]]
    BY <1>5
  <1>7. \A r : first(r) = FirstToken(b, Entered(b), r)
    BY DEF first, FirstToken
  <1>8. PICK fitting : fitting = fits
    OBVIOUS
  <1>9. /\ fitting \subseteq DOMAIN so
        /\ \A r \in DOMAIN so :
             entered.num[r] + len[r] <= MaxLen => r \in fitting
    BY <1>8
  <1>10. PICK z : z = Output(b, tails, eos)
    OBVIOUS
  <1>11. /\ z.batch = b /\ z.drafted = drafted
         /\ z.tokens = [i \in DOMAIN b |-> tokens[b[i]]]
    BY <1>5, <1>10 DEF Output
  <1> HIDE DEF toks, fits, tails
  <1>12. PICK h : h = entered
    OBVIOUS
  <1>13. PICK max : max = MaxDecodeSteps(h, b)
    OBVIOUS
  <1>14. PICK g : g = WithTokens(fitting, tokens, h)
    OBVIOUS
  <1>15. steps \in 1 .. max
    BY <1>12, <1>13
  <1>16. /\ batch' = b /\ row' = g.row /\ num' = g.num
         /\ output' = g.output
         /\ burst' = <<z>> /\ z.batch = b /\ z.drafted = drafted
         /\ z.tokens = [i \in DOMAIN b |-> tokens[b[i]]]
         /\ h = Entered(b)
    <2>1. g = WithTokens(fits, toks, entered)
      BY <1>12, <1>5, <1>8, <1>14
    <2> QED
      BY <1>12, <1>4, <1>10, <1>11, <2>1 DEF SetHost
  <1> HIDE DEF entered, width, next, places
  <1>17. \A r \in DOMAIN so : h.num[r] + len[r] <= MaxLen => r \in fitting
    BY <1>12, <1>9
  <1>18. /\ pc = "execute" /\ pc' = "sample" /\ Mode = "continue"
         /\ computed' = [r \in Req |-> IF r \in DOMAIN so THEN Advanced(r)
                                       ELSE computed[r]]
         /\ inflight' = [r \in Req |->
              IF Async /\ r \in DOMAIN so /\ Advanced(r) >= Expected(r)
              THEN inflight[r] + 1 + drafted[r] ELSE inflight[r]]
         /\ UNCHANGED <<config, status, received, so, drafted, queue, pre,
                        state>>
    BY DEF ExecuteContinueDecode, ScheduleAhead, DecodeOnly, stepVars
  <1>19. ~ Async /\ config.mode # "async" /\ config.drafts = 0
    BY <1>0, <1>18, ConfigFacts DEF Async, Mode
  <1>20. b \in SetToSeqs(DOMAIN so)
    BY DEF Batches
  <1>21. IsBatch(b) /\ ToSet(b) = DOMAIN so
    BY <1>0, <1>20, BatchesFacts DEF Shape
  <1>22. queue = <<>> /\ pre = <<>> /\ state = <<>>
    <2>1. HasRoom(config, queue)
      BY <1>0, <1>18, RoomInQueue
    <2> QED
      BY <1>0, <1>18, <1>19, <2>1 DEF HasRoom, Phases
  <1>23. ASSUME NEW r \in DOMAIN so
         PROVE  /\ r \in Req /\ r \in ToSet(b) /\ status[r] # "finished"
                /\ h.num[r] = Known(r) /\ Known(r) \in Nat /\ Known(r) < MaxLen
                /\ h.num[r] = Prompt[r] + Len(h.output[r])
    <2>1. r \in Req /\ r \in ToSet(b) /\ status[r] # "finished"
      BY <1>0, <1>18, <1>19, <1>21 DEF Shape, Phases
    <2>2. Known(r) \in Nat /\ Known(r) < MaxLen
      BY <1>0, <2>1, ConfigFacts DEF Lengths
    <2>3. /\ h.num[r] = Known(r) + Lag(config, queue, r)
          /\ h.num[r] = Prompt[r] + Len(h.output[r])
      BY <1>16, <1>18, <1>20, <2>1, EnteredLengths
    <2>4. Lag(config, queue, r) = 0
      BY <1>22, LagIs
    <2> QED
      BY <2>1, <2>2, <2>3, <2>4
  <1>24. ASSUME NEW r \in DOMAIN so
         PROVE  /\ r \in fitting /\ len[r] \in Nat \ {0}
                /\ h.num[r] + len[r] <= MaxLen
                /\ IsSeq(tokens[r]) /\ Len(tokens[r]) = len[r]
    <2>1. MaxLen \in Nat /\ MaxBurst \in Nat /\ ToSet(b) \subseteq Req
      BY <1>0, <1>21, <1>23, ConfigFacts DEF MaxLen, MaxBurst
    <2>2. \A s \in ToSet(b) : h.num[s] \in Nat /\ h.num[s] < MaxLen
      BY <1>21, <1>23
    <2>3. max \in Int /\ h.num[r] + max <= MaxLen
      BY <1>13, <1>21, <2>1, <2>2, BurstFits
    <2>4. steps \in Int /\ steps <= max /\ len[r] \in 1 .. steps
      BY <1>15, <2>3
    <2>5. h.num[r] + len[r] <= MaxLen
      BY <1>23, <2>1, <2>3, <2>4
    <2>6. r \in fitting
      BY <1>17, <2>5
    <2>7. PICK m \in Nat \ {0} : m = len[r]
      BY <2>4
    <2>8. PICK t : t = tokens[r]
      OBVIOUS
    <2>9. t = [k \in 1 .. m |-> t[k]]
      BY <1>6, <2>7, <2>8
    <2> QED
      BY <2>6, <2>7, <2>8, <2>9, <2>5, FunctionIsSeq
  <1>25. /\ IsOutput(config, z)
         /\ \A r \in DOMAIN so : TokensFor(z, r) = tokens[r]
    <2>1. IsDrafted(config, drafted, DOMAIN so)
      BY <1>0 DEF Shape
    <2>2. ASSUME NEW i \in DOMAIN b
          PROVE  z.tokens[i] = tokens[b[i]] /\ IsSeq(z.tokens[i])
      BY <1>16, <1>21, <1>24, BatchFacts
    <2>3. IsOutput(config, z)
      BY <1>16, <1>19, <1>21, <2>1, <2>2 DEF IsOutput
    <2>4. ASSUME NEW r \in DOMAIN so
          PROVE  TokensFor(z, r) = tokens[r]
      <3>1. PICK i \in DOMAIN b : b[i] = r
        BY <1>21, BatchFacts
      <3> QED
        BY <1>16, <1>21, <2>2, <3>1, TokensForIs
    <2> QED
      BY <2>3, <2>4
  <1>26. ASSUME NEW r \in DOMAIN so
         PROVE  tokens[r] = [k \in 1 .. len[r] |->
                               <<FirstToken(b, h, r)[1],
                                 FirstToken(b, h, r)[2] + k - 1>>]
    <2>1. tokens[r] = [k \in 1 .. len[r] |->
                         <<first(r)[1], first(r)[2] + k - 1>>]
      BY <1>6
    <2>2. first(r) = FirstToken(b, h, r)
      BY <1>16, <1>7
    <2> QED
      BY <2>1, <2>2
  <1>27. BurstOf(b, h, g, z, tokens, len, fitting)
    BY <1>14, <1>16, <1>19, <1>20, <1>21, <1>22, <1>23, <1>24, <1>25, <1>26,
       <1>9, Zenon DEF BurstOf
  <1> QED
    BY <1>27, Zenon

\* The tokens of a burst all fit, and are written to the rows.
LEMMA ExecuteContinueDecodeKeeps ==
  ASSUME LInv, ExecuteContinueDecode
  PROVE  LInv'
  <1>0. Shape /\ Outputs /\ Phases /\ Previous /\ Lengths
    BY DEF LInv
  <1>1. PICK b, h, g, z, tokens, len, fitting :
          BurstOf(b, h, g, z, tokens, len, fitting)
    BY BurstIs
  <1>2. g = WithTokens(fitting, tokens, h) /\ fitting \subseteq DOMAIN so
    BY <1>1 DEF BurstOf
  <1>3. /\ b \in SetToSeqs(DOMAIN so) /\ h = Entered(b)
        /\ batch' = b /\ num' = g.num /\ output' = g.output
        /\ burst' = <<z>> /\ z.batch = b /\ IsOutput(config, z)
    BY <1>1 DEF BurstOf
  <1>4. /\ pc = "execute" /\ pc' = "sample" /\ Mode = "continue"
        /\ computed' = [r \in Req |-> IF r \in DOMAIN so THEN Advanced(r)
                                      ELSE computed[r]]
        /\ inflight' = [r \in Req |->
             IF Async /\ r \in DOMAIN so /\ Advanced(r) >= Expected(r)
             THEN inflight[r] + 1 + drafted[r] ELSE inflight[r]]
        /\ UNCHANGED <<config, status, received, so, drafted, queue, pre,
                       state>>
    BY DEF ExecuteContinueDecode, ScheduleAhead, DecodeOnly, stepVars
  <1>5. ~ Async /\ config.mode # "async"
    BY <1>1 DEF BurstOf
  <1>6. IsBatch(b) /\ ToSet(b) = DOMAIN so
    BY <1>1 DEF BurstOf
  <1>7. queue = <<>> /\ pre = <<>> /\ state = <<>>
    BY <1>1 DEF BurstOf
  <1>8. ASSUME NEW r \in DOMAIN so
        PROVE  /\ r \in Req /\ r \in ToSet(b) /\ status[r] # "finished"
               /\ h.num[r] = Known(r) /\ Known(r) \in Nat /\ Known(r) < MaxLen
               /\ h.num[r] = Prompt[r] + Len(h.output[r])
    BY <1>1 DEF BurstOf
  <1>9. ASSUME NEW r \in DOMAIN so
        PROVE  /\ r \in fitting /\ len[r] \in Nat
               /\ IsSeq(tokens[r]) /\ Len(tokens[r]) = len[r]
               /\ TokensFor(z, r) = tokens[r]
    BY <1>1 DEF BurstOf
  <1>10. IsHost(h)
    BY <1>0, <1>3, EnteredFacts
  <1>11. /\ IsHost(g)
         /\ \A r \in Req \cap fitting : Grows(h, g, r, Len(tokens[r]))
    <2>1. \A r \in fitting : IsSeq(tokens[r])
      BY <1>2, <1>9
    <2> QED
      BY <1>2, <1>10, <2>1, WithTokensFacts
  <1>12. Shape'
    <2>1. \A r \in Req : /\ g.num[r] \in Int /\ IsSeq(g.output[r])
                         /\ computed[r] \in Int /\ inflight[r] \in Int
      BY <1>0, <1>11, ConfigFacts DEF IsHost
    <2>2. num' \in [Req -> Int] /\ DOMAIN output' = Req
      BY <1>3, <1>11 DEF IsHost
    <2>3. \A r \in Req : IsSeq(output'[r])
      BY <1>3, <2>1
    <2>4. computed' \in [Req -> Int]
      <3>1. \A r \in DOMAIN so : so[r] \in Int
        BY <1>0 DEF Shape
      <3> QED
        BY <1>4, <2>1, <3>1 DEF Advanced
    <2>5. inflight' \in [Req -> Int]
      BY <1>4, <1>5, <2>1
    <2> QED
      BY <1>0, <1>3, <1>4, <1>6, <2>2, <2>3, <2>4, <2>5 DEF Shape
  <1>13. Outputs'
    BY <1>0, <1>4 DEF Outputs, Async, Mode
  <1>14. Phases'
    <2>1. /\ burst' # <<>> /\ burst'[1] = z
      BY <1>3, ShortQueues
    <2> QED
      BY <1>0, <1>3, <1>4, <1>5, <1>6, <1>7, <2>1
         DEF Phases, Async, Mode
  <1>15. Previous'
    BY <1>4, <1>5, <1>7 DEF Previous, Async, Mode
  <1>16. Lengths'
    <2>1. ASSUME NEW r \in ToSet(b)
          PROVE  /\ g.num[r] = Prompt[r] + Len(g.output[r])
                 /\ g.num[r] = Known(r) + Lag(config, queue, r)
                                 + InBurst(<<z>>, r)
      <3>1. r \in DOMAIN so /\ r \in Req /\ r \in fitting
        BY <1>6, <1>8, <1>9
      <3>2. /\ g.num[r] = h.num[r] + len[r]
            /\ Len(g.output[r]) = Len(h.output[r]) + len[r]
            /\ len[r] \in Nat
        BY <1>9, <1>11, <3>1 DEF Grows
      <3>3. Lag(config, queue, r) = 0
        BY <1>7, LagIs
      <3>4. InBurst(<<z>>, r) = len[r]
        BY <1>9, <3>1, ShortQueues DEF InBurst
      <3>5. Prompt[r] \in Nat /\ Len(h.output[r]) \in Nat
        BY <1>0, <1>10, <3>1, ConfigFacts, SeqFacts DEF IsHost
      <3>6. /\ h.num[r] = Known(r) /\ Known(r) \in Nat
            /\ h.num[r] = Prompt[r] + Len(h.output[r])
        BY <1>8, <3>1
      <3>7. g.num[r] = Prompt[r] + Len(g.output[r])
        BY <3>2, <3>5, <3>6
      <3>8. g.num[r] = Known(r) + Lag(config, queue, r) + InBurst(<<z>>, r)
        BY <3>2, <3>3, <3>4, <3>6
      <3> QED
        BY <3>7, <3>8
    <2>2. \A r \in Req : status[r] # "finished" => Known(r) < MaxLen
      BY <1>0 DEF Lengths
    <2> QED
      BY <1>3, <1>4, <1>5, <2>1, <2>2
         DEF Lengths, Known, MaxLen, Async, Mode
  <1> QED
    BY <1>12, <1>13, <1>14, <1>15, <1>16 DEF LInv

\* The result of a step, before it is an output.
IsSampled(e) ==
  /\ e.batch = batch /\ IsBatch(batch) /\ DOMAIN so = ToSet(batch)
  /\ e.counted \subseteq DOMAIN batch
  /\ DOMAIN Extracted(e) = DOMAIN batch
  /\ \A i \in e.counted : IsSample(config, Extracted(e)[i])
  /\ \A i \in DOMAIN batch : i \notin e.counted => Extracted(e)[i] = <<>>
  /\ \A i \in DOMAIN batch :
       i \in e.counted <=> computed[batch[i]] >= num[batch[i]]

\* Results count for the requests whose tokens are all computed.
LEMMA SampledIs ==
  ASSUME LInv, pc = "sample", state # <<>>, NEW e, e = Sampled
  PROVE  IsSampled(e)
  <1>0. Shape /\ Phases /\ Lengths
    BY DEF LInv
  <1>1. /\ e.batch = state[1].batch /\ e.next = state[1].next
        /\ e.places = state[1].places /\ e.counted = Counted(state[1].batch)
    BY DEF Sampled
  <1>2. /\ state[1].batch = batch /\ IsBatch(batch) /\ DOMAIN so = ToSet(batch)
        /\ \A i \in DOMAIN batch :
             IsSample(config, state[1].next[state[1].places[i]])
    BY <1>0 DEF Phases, Shape
  <1>3. \A i \in DOMAIN batch : num[batch[i]]
                                  = Prompt[batch[i]] + Len(output[batch[i]])
    BY <1>0, <1>2, BatchFacts DEF Lengths
  <1>4. /\ e.counted \subseteq DOMAIN batch
        /\ \A i \in DOMAIN batch :
             i \in e.counted <=> computed[batch[i]] >= num[batch[i]]
    BY <1>1, <1>2, <1>3 DEF Counted
  <1>5. Extracted(e) = [i \in DOMAIN batch |->
          IF i \in e.counted THEN e.next[e.places[i]] ELSE <<>>]
    BY <1>1, <1>2 DEF Extracted
  <1> QED
    BY <1>1, <1>2, <1>4, <1>5 DEF IsSampled

\* The output of a step owes the results that count, with their drafts.
LEMMA SampledOutput ==
  ASSUME Shape, NEW e, IsSampled(e),
         NEW z, z = Output(e.batch, Extracted(e), {})
  PROVE  /\ IsOutput(config, z)
         /\ z.batch = batch /\ z.drafted = drafted /\ z.tokens = Extracted(e)
         /\ \A i \in DOMAIN batch : TokensFor(z, batch[i]) = Extracted(e)[i]
         /\ \A i \in e.counted : Owed(z, batch[i]) = 1 + drafted[batch[i]]
         /\ \A i \in DOMAIN batch : i \notin e.counted =>
              Owed(z, batch[i]) = 0 /\ Len(TokensFor(z, batch[i])) = 0
         /\ \A r : r \notin ToSet(batch) => Owed(z, r) = 0
  <1>1. z.batch = batch /\ z.drafted = drafted /\ z.tokens = Extracted(e)
    BY DEF Output, IsSampled
  <1>2. /\ IsBatch(batch)
        /\ \A i \in DOMAIN batch :
             Extracted(e)[i] = <<>> \/ IsSample(config, Extracted(e)[i])
        /\ IsDrafted(config, drafted, ToSet(batch))
    BY DEF IsSampled, Shape
  <1>3. \A i \in DOMAIN batch : IsSeq(Extracted(e)[i])
    BY <1>2, EmptyIsSeq DEF IsSample
  <1>4. IsOutput(config, z)
    BY <1>1, <1>2, <1>3 DEF IsOutput
  <1>5. /\ \A i \in DOMAIN batch : TokensFor(z, batch[i]) = Extracted(e)[i]
        /\ \A r : r \notin ToSet(batch) => Owed(z, r) = 0
    BY <1>1, <1>2, TokensForIs
  <1>6. ASSUME NEW i \in e.counted
        PROVE  Owed(z, batch[i]) = 1 + drafted[batch[i]]
    <2>1. i \in DOMAIN batch /\ IsSample(config, Extracted(e)[i])
      BY DEF IsSampled
    <2>2. Extracted(e)[i] # <<>>
      BY <2>1, EmptyIsSeq DEF IsSample
    <2> QED
      BY <1>1, <1>5, <2>1, <2>2 DEF Owed
  <1>7. ASSUME NEW i \in DOMAIN batch, i \notin e.counted
        PROVE  Owed(z, batch[i]) = 0 /\ Len(TokensFor(z, batch[i])) = 0
    <2>1. TokensFor(z, batch[i]) = <<>>
      BY <1>5, <1>7 DEF IsSampled
    <2> QED
      BY <2>1, EmptyIsSeq DEF Owed
  <1> QED
    BY <1>1, <1>4, <1>5, <1>6, <1>7

\* The host's copies as a record.
LEMMA HostIs ==
  ASSUME Shape, NEW h, h = Host
  PROVE  IsHost(h) /\ h.num = num /\ h.output = output
  BY DEF Host, IsHost, Shape

\* A synchronous step with results e appends them to the rows of the
\* requests hit, of which g is the copy then, and has the output z.
SyncOf(e, g, z, tokens, hit) ==
  /\ e = Sampled /\ IsSampled(e)
  /\ g = WithTokens(hit, tokens, Host)
  /\ row' = g.row /\ num' = g.num /\ output' = g.output
  /\ z = Output(e.batch, Extracted(e), {})
  /\ queue' = Append(queue, z) /\ queue' = <<z>>
  /\ queue = <<>> /\ pre = <<>> /\ burst = <<>>
  /\ \A i \in e.counted : /\ batch[i] \in hit
                          /\ tokens[batch[i]] = Extracted(e)[i]
  /\ \A i \in DOMAIN batch : i \notin e.counted => batch[i] \notin hit
  /\ \A r \in hit : IsSeq(tokens[r])

\* SampleSync does that.
LEMMA SyncIs ==
  ASSUME LInv, SampleSync
  PROVE  \E e, g, z, tokens, hit : SyncOf(e, g, z, tokens, hit)
  <1>0. Shape /\ Outputs /\ Phases
    BY DEF LInv
  <1> DEFINE x == Sampled
             t == [r \in ToSet(x.batch) |->
               Extracted(x)[CHOOSE i \in DOMAIN x.batch : x.batch[i] = r]]
             hits == {x.batch[i] : i \in x.counted}
  <1>1. /\ SetHost(WithTokens(hits, t, Host))
        /\ queue' = Append(queue, Output(x.batch, Extracted(x), {}))
    BY Zenon DEF SampleSync
  <1>2. PICK e : e = x
    OBVIOUS
  <1>3. PICK tokens : tokens = t
    OBVIOUS
  <1>4. PICK hit : hit = hits
    OBVIOUS
  <1>5. PICK g : g = WithTokens(hit, tokens, Host)
    OBVIOUS
  <1>6. PICK z : z = Output(e.batch, Extracted(e), {})
    OBVIOUS
  <1>7. queue' = Append(queue, z)
    BY <1>1, <1>2, <1>6
  <1>8. hit = {e.batch[i] : i \in e.counted}
    BY <1>2, <1>4
  <1>9. tokens = [r \in ToSet(e.batch) |->
          Extracted(e)[CHOOSE i \in DOMAIN e.batch : e.batch[i] = r]]
    BY <1>2, <1>3
  <1> HIDE DEF t, hits
  <1>10. row' = g.row /\ num' = g.num /\ output' = g.output
    BY <1>1, <1>3, <1>4, <1>5 DEF SetHost
  <1>11. e = Sampled
    BY <1>2
  <1> HIDE DEF x
  <1>12. pc = "sample" /\ ~ Async /\ state # <<>>
    BY DEF SampleSync
  <1>13. IsSampled(e)
    BY <1>11, <1>12, SampledIs
  <1>14. /\ IsBatch(batch) /\ e.batch = batch
         /\ e.counted \subseteq DOMAIN batch
         /\ \A i \in e.counted : IsSeq(Extracted(e)[i])
    BY <1>13 DEF IsSampled, IsSample
  <1>15. ASSUME NEW i \in e.counted
         PROVE  batch[i] \in hit /\ tokens[batch[i]] = Extracted(e)[i]
    <2>1. i \in DOMAIN batch
      BY <1>14
    <2>2. /\ batch[i] \in ToSet(batch)
          /\ (CHOOSE j \in DOMAIN batch : batch[j] = batch[i]) = i
      BY <1>14, <2>1, BatchFacts
    <2> QED
      BY <1>8, <1>9, <1>14, <2>2
  <1>16. \A r \in hit : IsSeq(tokens[r])
    BY <1>8, <1>14, <1>15
  <1>17. \A i \in DOMAIN batch : i \notin e.counted => batch[i] \notin hit
    BY <1>8, <1>14 DEF IsBatch
  <1>18. queue = <<>> /\ pre = <<>> /\ burst = <<>>
    <2>1. HasRoom(config, queue)
      BY <1>0, <1>12, RoomInQueue
    <2> QED
      BY <1>0, <1>12, <2>1 DEF HasRoom, Phases, Async, Mode
  <1>19. queue' = <<z>>
    BY <1>7, <1>18, ShortQueues
  <1>20. SyncOf(e, g, z, tokens, hit)
    BY <1>5, <1>6, <1>7, <1>10, <1>11, <1>13, <1>15, <1>16, <1>17, <1>18,
       <1>19, Zenon DEF SyncOf
  <1> QED
    BY <1>20, Zenon

\* Synchronous sampling writes the tokens that it puts into the output.
LEMMA SampleSyncKeeps ==
  ASSUME LInv, SampleSync
  PROVE  LInv'
  <1>0. Shape /\ Outputs /\ Phases /\ Previous /\ Lengths
    BY DEF LInv
  <1>1. PICK e, g, z, tokens, hit : SyncOf(e, g, z, tokens, hit)
    BY SyncIs
  <1>2. /\ g = WithTokens(hit, tokens, Host)
        /\ num' = g.num /\ output' = g.output
        /\ z = Output(e.batch, Extracted(e), {})
        /\ \A r \in hit : IsSeq(tokens[r])
        /\ \A i \in DOMAIN batch : i \notin e.counted => batch[i] \notin hit
    BY <1>1 DEF SyncOf
  <1>3. PICK h : h = Host
    OBVIOUS
  <1>4. PICK q : q = queue'
    OBVIOUS
  <1>5. /\ pc = "sample" /\ pc' = "schedule" /\ ~ Async
        /\ state # <<>> /\ state' = <<>>
        /\ UNCHANGED <<config, status, received, computed, inflight, so,
                       drafted, batch, pre, burst>>
    BY DEF SampleSync, schedulerVars, stepVars
  <1>6. IsSampled(e)
    BY <1>1 DEF SyncOf
  <1>7. /\ IsOutput(config, z)
        /\ \A i \in DOMAIN batch : TokensFor(z, batch[i]) = Extracted(e)[i]
        /\ \A i \in DOMAIN batch : i \notin e.counted =>
             Len(TokensFor(z, batch[i])) = 0
    BY <1>0, <1>2, <1>6, SampledOutput
  <1>8. /\ IsBatch(batch) /\ e.batch = batch
        /\ e.counted \subseteq DOMAIN batch
        /\ \A i \in e.counted : IsSeq(Extracted(e)[i])
    BY <1>6 DEF IsSampled, IsSample
  <1>9. ASSUME NEW i \in e.counted
        PROVE  batch[i] \in hit /\ tokens[batch[i]] = Extracted(e)[i]
    BY <1>1, <1>9 DEF SyncOf
  <1>10. IsHost(h) /\ h.num = num /\ h.output = output
    BY <1>0, <1>3, HostIs
  <1>11. /\ IsHost(g)
         /\ \A r \in Req \cap hit : Grows(h, g, r, Len(tokens[r]))
         /\ \A r \in Req \ hit : Grows(h, g, r, 0)
    BY <1>2, <1>3, <1>10, WithTokensFacts
  <1>12. queue = <<>> /\ pre = <<>> /\ burst = <<>>
    BY <1>1 DEF SyncOf
  <1>13. q = <<z>>
    BY <1>1, <1>4 DEF SyncOf
  <1>14. Shape'
    <2>1. \A r \in Req : g.num[r] \in Int /\ IsSeq(g.output[r])
      BY <1>11 DEF IsHost
    <2>2. num' \in [Req -> Int] /\ DOMAIN output' = Req
      BY <1>2, <1>11 DEF IsHost
    <2>3. \A r \in Req : IsSeq(output'[r])
      BY <1>2, <2>1
    <2> QED
      BY <1>0, <1>5, <2>2, <2>3 DEF Shape
  <1>15. Outputs'
    BY <1>4, <1>5, <1>7, <1>13, ShortQueues DEF Outputs, Async, Mode
  <1>16. Phases'
    BY <1>0, <1>5, <1>12 DEF Phases, Async, Mode
  <1>17. Previous'
    BY <1>5, <1>12 DEF Previous, Async, Mode
  <1>18. Lengths'
    <2>1. ASSUME NEW i \in DOMAIN batch
          PROVE  /\ batch[i] \in Req
                 /\ Len(TokensFor(z, batch[i])) \in Nat
                 /\ Grows(h, g, batch[i], Len(TokensFor(z, batch[i])))
      <3>1. batch[i] \in Req /\ Len(TokensFor(z, batch[i])) \in Nat
        BY <1>7, <1>8, BatchFacts, OutputFacts
      <3>2. CASE i \in e.counted
        BY <1>7, <1>9, <1>11, <3>1, <3>2
      <3>3. CASE i \notin e.counted
        <4>1. batch[i] \notin hit
          BY <1>2, <3>3
        <4> QED
          BY <1>7, <1>11, <3>1, <3>3, <4>1
      <3> QED
        BY <3>1, <3>2, <3>3
    <2>2. ASSUME NEW r \in ToSet(batch)
          PROVE  /\ g.num[r] = Prompt[r] + Len(g.output[r])
                 /\ status[r] # "finished" =>
                      g.num[r] = Known(r) + Lag(config, q, r)
                                   + InBurst(<<>>, r)
      <3>1. PICK n \in Nat : /\ n = Len(TokensFor(z, r)) /\ r \in Req
                             /\ Grows(h, g, r, n)
        <4>1. PICK i \in DOMAIN batch : batch[i] = r
          BY <1>8, BatchFacts
        <4> QED
          BY <2>1, <4>1
      <3>2. /\ g.num[r] = num[r] + n
            /\ Len(g.output[r]) = Len(output[r]) + n
        BY <1>10, <3>1 DEF Grows
      <3>3. Lag(config, q, r) = n
        BY <1>5, <1>13, <3>1, LagIs DEF Async, Mode
      <3>4. InBurst(<<>>, r) = 0 /\ Lag(config, queue, r) = 0
        BY <1>12, LagIs DEF InBurst
      <3>5. /\ num[r] = Prompt[r] + Len(output[r])
            /\ status[r] # "finished" =>
                 num[r] = Known(r) + Lag(config, queue, r) + InBurst(<<>>, r)
        BY <1>0, <1>12 DEF Lengths
      <3>6. /\ Prompt[r] \in Nat /\ Len(output[r]) \in Nat /\ Known(r) \in Nat
            /\ num[r] \in Int
        BY <1>0, <3>1, ConfigFacts
      <3>7. g.num[r] = Prompt[r] + Len(g.output[r])
        BY <3>2, <3>5, <3>6
      <3>8. status[r] # "finished" =>
              g.num[r] = Known(r) + Lag(config, q, r) + InBurst(<<>>, r)
        BY <3>2, <3>3, <3>4, <3>5, <3>6
      <3> QED
        BY <3>7, <3>8
    <2>3. \A r \in Req : status[r] # "finished" => Known(r) < MaxLen
      BY <1>0 DEF Lengths
    <2> QED
      BY <1>2, <1>5, <1>12, <1>4, <2>2, <2>3
         DEF Lengths, Known, MaxLen, Async, Mode
  <1> QED
    BY <1>14, <1>15, <1>16, <1>17, <1>18 DEF LInv

\* Once the results of the previous step have replaced their placeholders,
\* the runner has of a request what the scheduler gets by the last output.
LEMMA PreviousHost ==
  ASSUME LInv, pc = "sample", Async,
         NEW h, h = IF pre = <<>> THEN Host ELSE Modified(pre[1], batch, Host)
  PROVE  /\ IsHost(h)
         /\ \A r \in ToSet(batch) :
              /\ r \in Req
              /\ h.num[r] = Prompt[r] + Len(h.output[r])
              /\ status[r] # "finished" => h.num[r] = Known(r) + Got(queue, r)
  <1>0. Shape /\ Outputs /\ Phases /\ Previous /\ Lengths
    BY DEF LInv
  <1>1. PICK g : g = Host
    OBVIOUS
  <1>2. IsHost(g) /\ g.num = num /\ g.output = output
    BY <1>0, <1>1, HostIs
  <1>3. HasRoom(config, queue) /\ burst = <<>>
    BY <1>0, RoomInQueue DEF Phases
  <1>4. queue = <<>> \/ \E x : queue = <<x>> /\ IsOutput(config, x)
    <2>1. /\ IsSeq(queue) /\ Len(queue) <= 1
          /\ \A k \in DOMAIN queue : IsOutput(config, queue[k])
      BY <1>3 DEF HasRoom
    <2>2. \/ queue = <<>> \/ (\E x : queue = <<x>>)
          \/ \E x, y : queue = <<x, y>>
      BY <2>1, QueueIs
    <2>3. ~ (\E x, y : queue = <<x, y>>)
      BY <2>1, ShortQueues
    <2> QED
      BY <2>1, <2>2, <2>3, ShortQueues
  <1>5. ASSUME NEW r \in ToSet(batch)
        PROVE  /\ r \in Req
               /\ Prompt[r] \in Nat /\ Len(output[r]) \in Nat
               /\ Known(r) \in Nat /\ num[r] \in Int
               /\ num[r] = Prompt[r] + Len(output[r])
               /\ status[r] # "finished" =>
                    num[r] = Known(r) + Lag(config, queue, r)
    <2>1. r \in Req
      BY <1>0, BatchFacts DEF Shape
    <2>2. /\ Prompt[r] \in Nat /\ Len(output[r]) \in Nat
          /\ Known(r) \in Nat /\ num[r] \in Int
      BY <1>0, <2>1, ConfigFacts
    <2>3. /\ num[r] = Prompt[r] + Len(output[r])
          /\ status[r] # "finished" =>
               num[r] = Known(r) + Lag(config, queue, r) + InBurst(burst, r)
      BY <1>0 DEF Lengths
    <2>4. InBurst(burst, r) = 0 /\ Lag(config, queue, r) \in Nat
      BY <1>3, LagIsInt DEF InBurst
    <2>5. status[r] # "finished" => num[r] = Known(r) + Lag(config, queue, r)
      <3> SUFFICES ASSUME status[r] # "finished"
                   PROVE  num[r] = Known(r) + Lag(config, queue, r)
        OBVIOUS
      <3>1. num[r] = Known(r) + Lag(config, queue, r) + InBurst(burst, r)
        BY <2>3
      <3> QED
        BY <2>2, <2>4, <3>1
    <2> QED
      BY <2>1, <2>2, <2>3, <2>5
  <1>6. CASE pre = <<>>
    <2>1. h = g
      BY <1>1, <1>6
    <2>2. ASSUME NEW r \in ToSet(batch)
          PROVE  Lag(config, queue, r) = Got(queue, r)
      <3>1. CASE queue = <<>>
        BY <3>1, LagIs DEF Got
      <3>2. CASE queue # <<>>
        <4>1. PICK x : queue = <<x>> /\ IsOutput(config, x)
          BY <1>4, <3>2
        <4>2. x.batch = <<>>
          BY <1>0, <1>6, <4>1, ShortQueues DEF Previous
        <4>3. TokensFor(x, r) = <<>> /\ Owed(x, r) = 0
          BY <4>1, <4>2, NoBatch, TokensForIs DEF IsOutput
        <4>4. Lag(config, queue, r) = Owed(x, r)
          BY <4>1, LagIs DEF Async, Mode
        <4>5. Got(queue, r) = Len(TokensFor(x, r))
          BY <4>1, ShortQueues DEF Got
        <4> QED
          BY <4>3, <4>4, <4>5, EmptyIsSeq
      <3> QED
        BY <3>1, <3>2
    <2> QED
      BY <1>2, <1>5, <2>1, <2>2
  <1>7. CASE pre # <<>>
    <2>1. PICK p : p = pre[1]
      OBVIOUS
    <2>2. IsPrevious(p)
      BY <1>0, <1>7, <2>1 DEF Previous
    <2>3. /\ IsResult(config, p)
          /\ \A i \in p.counted : p.batch[i] \in ToSet(batch) =>
               Len(g.output[p.batch[i]]) >= PlaceholdersOf(p, p.batch[i])
      BY <1>2, <2>2 DEF IsPrevious
    <2>4. h = Modified(p, batch, g)
      BY <1>1, <1>7, <2>1
    <2>5. /\ IsHost(h)
          /\ \A i \in p.counted : p.batch[i] \in ToSet(batch) =>
               Grows(g, h, p.batch[i],
                     Len(Extracted(p)[i]) - PlaceholdersOf(p, p.batch[i]))
          /\ \A r \in Req :
               ~ (\E i \in p.counted : p.batch[i] = r /\ r \in ToSet(batch))
                 => Grows(g, h, r, 0)
      BY <1>2, <2>3, <2>4, ModifiedFacts
    <2>6. IsBatch(p.batch) /\ p.counted \subseteq DOMAIN p.batch
      BY <2>3 DEF IsResult
    <2>7. ASSUME NEW x, queue = <<x>>
          PROVE  /\ x.batch = p.batch /\ x.tokens = Extracted(p)
                 /\ x.drafted = p.drafted
                 /\ \A r : /\ Lag(config, queue, r) = Owed(x, r)
                           /\ Got(queue, r) = Len(TokensFor(x, r))
      <3>1. queue # <<>> /\ queue[Len(queue)] = x /\ queue[1] = x
        BY <2>7, ShortQueues
      <3>2. ASSUME NEW r
            PROVE  /\ Lag(config, queue, r) = Owed(x, r)
                   /\ Got(queue, r) = Len(TokensFor(x, r))
        <4>1. config.mode = "async"
          BY DEF Async, Mode
        <4>2. Lag(config, <<x>>, r) = Owed(x, r)
          BY <4>1, LagIs
        <4> QED
          BY <2>7, <3>1, <4>2 DEF Got
      <3> QED
        BY <2>2, <3>1, <3>2 DEF IsPrevious
    <2>8. ASSUME NEW r \in ToSet(batch)
          PROVE  /\ r \in Req
                 /\ h.num[r] = Prompt[r] + Len(h.output[r])
                 /\ status[r] # "finished" =>
                      h.num[r] = Known(r) + Got(queue, r)
      <3>1. CASE \E i \in p.counted : p.batch[i] = r
        <4>1. PICK i \in p.counted : p.batch[i] = r
          BY <3>1
        <4>2. PICK n, m : n = Len(Extracted(p)[i]) /\ m = PlaceholdersOf(p, r)
          OBVIOUS
        <4>3. /\ IsSeq(Extracted(p)[i]) /\ m = 1 + p.drafted[r] /\ m \in Nat
              /\ config.drafts = 0 => n = m
          BY <2>3, <4>1, <4>2, ResultFacts
        <4>4. n \in Nat /\ n >= 1
          BY <2>3, <4>1, <4>2, <4>3, SeqFacts DEF IsResult, IsSample
        <4>5. Grows(g, h, r, n - m)
          BY <2>5, <4>1, <4>2
        <4>6. /\ h.num[r] = num[r] + (n - m)
              /\ Len(h.output[r]) = Len(output[r]) + (n - m)
          BY <1>2, <4>5 DEF Grows
        <4>7. status[r] # "finished" =>
                Lag(config, queue, r) + (n - m) = Got(queue, r)
          <5> SUFFICES ASSUME status[r] # "finished"
                       PROVE  Lag(config, queue, r) + (n - m) = Got(queue, r)
            OBVIOUS
          <5>1. CASE queue = <<>>
            <6>1. Lag(config, queue, r) = 0 /\ Got(queue, r) = 0
              BY <5>1, LagIs DEF Got
            <6>2. config.drafts = 0
              <7>1. ~ (Drafts > 0)
                BY <1>5, <2>2, <5>1 DEF IsPrevious
              <7> QED
                BY <1>0, <7>1, ConfigFacts DEF Drafts
            <6> QED
              BY <4>3, <6>1, <6>2
          <5>2. CASE queue # <<>>
            <6>1. PICK x : queue = <<x>> /\ IsOutput(config, x)
              BY <1>4, <5>2
            <6>2. /\ x.batch = p.batch /\ x.tokens = Extracted(p)
                  /\ x.drafted = p.drafted
                  /\ Lag(config, queue, r) = Owed(x, r)
                  /\ Got(queue, r) = Len(TokensFor(x, r))
              BY <2>7, <6>1
            <6>3. TokensFor(x, r) = Extracted(p)[i]
              BY <2>6, <4>1, <6>2, TokensForIs
            <6>4. TokensFor(x, r) # <<>>
              BY <4>2, <4>4, <6>3, EmptyIsSeq
            <6>5. Owed(x, r) = m
              BY <4>3, <6>2, <6>4 DEF Owed
            <6> QED
              BY <4>2, <4>3, <4>4, <6>2, <6>3, <6>5
          <5> QED
            BY <5>1, <5>2
        <4>8. Lag(config, queue, r) \in Nat
          BY <1>3, LagIsInt
        <4>9. h.num[r] = Prompt[r] + Len(h.output[r])
          BY <1>5, <4>3, <4>4, <4>6
        <4>10. status[r] # "finished" => h.num[r] = Known(r) + Got(queue, r)
          <5> SUFFICES ASSUME status[r] # "finished"
                       PROVE  h.num[r] = Known(r) + Got(queue, r)
            OBVIOUS
          <5>1. /\ Lag(config, queue, r) + (n - m) = Got(queue, r)
                /\ num[r] = Known(r) + Lag(config, queue, r)
            BY <1>5, <4>7
          <5> QED
            BY <1>5, <4>3, <4>4, <4>6, <4>8, <5>1
        <4> QED
          BY <1>5, <4>9, <4>10
      <3>2. CASE ~ (\E i \in p.counted : p.batch[i] = r)
        <4>1. Grows(g, h, r, 0)
          BY <1>5, <2>5, <3>2
        <4>2. h.num[r] = num[r] /\ Len(h.output[r]) = Len(output[r])
          BY <1>2, <1>5, <4>1 DEF Grows
        <4>3. Lag(config, queue, r) = Got(queue, r)
          <5>1. CASE queue = <<>>
            BY <5>1, LagIs DEF Got
          <5>2. CASE queue # <<>>
            <6>1. PICK x : queue = <<x>> /\ IsOutput(config, x)
              BY <1>4, <5>2
            <6>2. /\ x.batch = p.batch /\ x.tokens = Extracted(p)
                  /\ Lag(config, queue, r) = Owed(x, r)
                  /\ Got(queue, r) = Len(TokensFor(x, r))
              BY <2>7, <6>1
            <6>3. TokensFor(x, r) = <<>>
              <7>1. CASE r \notin ToSet(x.batch)
                BY <6>1, <7>1, TokensForIs DEF IsOutput
              <7>2. CASE r \in ToSet(x.batch)
                <8>1. PICK i \in DOMAIN p.batch : p.batch[i] = r
                  BY <2>6, <6>2, <7>2, BatchFacts
                <8>2. i \notin p.counted
                  BY <3>2, <8>1
                <8>3. Extracted(p)[i] = <<>>
                  BY <8>2 DEF Extracted
                <8> QED
                  BY <2>6, <6>2, <8>1, <8>3, TokensForIs
              <7> QED
                BY <7>1, <7>2
            <6>4. Owed(x, r) = 0
              BY <6>3 DEF Owed
            <6> QED
              BY <6>2, <6>3, <6>4, EmptyIsSeq
          <5> QED
            BY <5>1, <5>2
        <4> QED
          BY <1>5, <4>2, <4>3
      <3> QED
        BY <3>1, <3>2
    <2> QED
      BY <2>5, <2>8
  <1> QED
    BY <1>6, <1>7

\* An asynchronous step with results e leaves placeholders in the host's
\* copy h of the requests hit, which is g then; it has the output z, and
\* keeps p for the next step.
AsyncOf(e, h, g, z, p, hit) ==
  /\ e = Sampled /\ IsSampled(e)
  /\ h = IF pre = <<>> THEN Host ELSE Modified(pre[1], batch, Host)
  /\ g = WithPlaceholders(hit, h)
  /\ row' = g.row /\ num' = g.num /\ output' = g.output
  /\ z = Output(e.batch, Extracted(e), {}) /\ queue' = Append(queue, z)
  /\ hit = {e.batch[i] : i \in e.counted}
  /\ pre' = <<p>> /\ p.batch = e.batch /\ p.counted = e.counted
  /\ p.drafted = drafted /\ p.next = e.next /\ p.places = e.places
  /\ p.placeholders = Placeholders(e)
  /\ Drafts = 0 => p.device = [s \in DOMAIN e.next |-> e.next[s][1]]

\* SampleAsync does that.
LEMMA AsyncIs ==
  ASSUME LInv, SampleAsync
  PROVE  \E e, h, g, z, p, hit : AsyncOf(e, h, g, z, p, hit)
  <1> DEFINE x == Sampled
             f == IF pre = <<>> THEN Host ELSE Modified(pre[1], batch, Host)
             hits == {x.batch[i] : i \in x.counted}
  <1>1. PICK right \in [ToSet(x.batch) -> 0 .. Drafts] :
          /\ SetHost(WithPlaceholders(hits, f))
          /\ pre' = <<[batch |-> x.batch, next |-> x.next,
                       places |-> x.places, counted |-> x.counted,
                       drafted |-> drafted, placeholders |-> Placeholders(x),
                       rejected |-> RejectedTokens(x),
                       device |-> KeptTokens(x, right)]>>
          /\ queue' = Append(queue, Output(x.batch, Extracted(x), {}))
    BY Zenon DEF SampleAsync
  <1>2. PICK e : e = x
    OBVIOUS
  <1>3. PICK hit : hit = hits
    OBVIOUS
  <1>4. PICK h : h = f
    OBVIOUS
  <1>5. PICK g : g = WithPlaceholders(hit, h)
    OBVIOUS
  <1>6. PICK z : z = Output(e.batch, Extracted(e), {})
    OBVIOUS
  <1>7. PICK p : p = [batch |-> x.batch, next |-> x.next,
                      places |-> x.places, counted |-> x.counted,
                      drafted |-> drafted, placeholders |-> Placeholders(x),
                      rejected |-> RejectedTokens(x),
                      device |-> KeptTokens(x, right)]
    OBVIOUS
  <1>8. row' = g.row /\ num' = g.num /\ output' = g.output
    <2> HIDE DEF x, f, hits
    <2> QED
      BY <1>1, <1>3, <1>4, <1>5 DEF SetHost
  <1>9. queue' = Append(queue, z)
    BY <1>1, <1>2, <1>6
  <1>10. pre' = <<p>>
    <2> HIDE DEF x
    <2> QED
      BY <1>1, <1>7
  <1>11. /\ p.batch = e.batch /\ p.counted = e.counted
         /\ p.drafted = drafted /\ p.next = e.next /\ p.places = e.places
         /\ p.placeholders = Placeholders(e)
         /\ p.device = KeptTokens(e, right)
    <2> HIDE DEF x
    <2> QED
      BY <1>2, <1>7
  <1>12. hit = {e.batch[i] : i \in e.counted}
    BY <1>2, <1>3
  <1>13. h = IF pre = <<>> THEN Host ELSE Modified(pre[1], batch, Host)
    BY <1>4
  <1>14. e = Sampled
    BY <1>2
  <1> HIDE DEF x, f, hits
  <1>15. Drafts = 0 => p.device = [s \in DOMAIN e.next |-> e.next[s][1]]
    <2>1. Drafts = 0 =>
            KeptTokens(e, right) = [s \in DOMAIN e.next |-> e.next[s][1]]
      BY Zenon DEF KeptTokens
    <2> QED
      BY <1>11, <2>1
  <1>16. IsSampled(e)
    <2>1. pc = "sample" /\ state # <<>>
      BY DEF SampleAsync
    <2> QED
      BY <1>14, <2>1, SampledIs
  <1>17. AsyncOf(e, h, g, z, p, hit)
    BY <1>5, <1>6, <1>8, <1>9, <1>10, <1>11, <1>12, <1>13, <1>14, <1>15,
       <1>16, Zenon DEF AsyncOf
  <1> QED
    BY <1>17, Zenon

\* Asynchronous sampling leaves as many placeholders as its output owes.
LEMMA SampleAsyncKeeps ==
  ASSUME LInv, SampleAsync
  PROVE  LInv'
  <1>0. Shape /\ Outputs /\ Phases /\ Previous /\ Lengths
    BY DEF LInv
  <1>1. PICK e, h, g, z, p, hit : AsyncOf(e, h, g, z, p, hit)
    BY AsyncIs
  <1>2. g = WithPlaceholders(hit, h)
    BY <1>1 DEF AsyncOf
  <1>3. PICK q : q = queue'
    OBVIOUS
  <1>4. /\ num' = g.num /\ output' = g.output /\ q = Append(queue, z)
        /\ hit = {e.batch[i] : i \in e.counted}
        /\ h = IF pre = <<>> THEN Host ELSE Modified(pre[1], batch, Host)
    BY <1>1, <1>3 DEF AsyncOf
  <1>5. /\ pre' = <<p>> /\ p.batch = e.batch /\ p.counted = e.counted
        /\ p.drafted = drafted /\ p.next = e.next /\ p.places = e.places
    BY <1>1 DEF AsyncOf
  <1>6. pre' # <<>> /\ p = pre'[1]
    BY <1>5, ShortQueues
  <1>7. /\ pc = "sample" /\ pc' = "schedule" /\ Async
        /\ state # <<>> /\ state' = <<>>
        /\ UNCHANGED <<config, status, received, computed, inflight, so,
                       drafted, batch, burst>>
    BY DEF SampleAsync, schedulerVars, stepVars
  <1>8. IsSampled(e) /\ z = Output(e.batch, Extracted(e), {})
    BY <1>1 DEF AsyncOf
  <1>9. /\ IsBatch(batch) /\ e.batch = batch /\ DOMAIN so = ToSet(batch)
        /\ e.counted \subseteq DOMAIN batch
        /\ \A i \in e.counted : IsSample(config, Extracted(e)[i])
        /\ \A i \in DOMAIN batch :
             i \in e.counted <=> computed[batch[i]] >= num[batch[i]]
    BY <1>8 DEF IsSampled
  <1>10. /\ IsOutput(config, z) /\ z.batch = batch /\ z.drafted = drafted
         /\ z.tokens = Extracted(e)
         /\ \A i \in e.counted : Owed(z, batch[i]) = 1 + drafted[batch[i]]
         /\ \A i \in DOMAIN batch : i \notin e.counted => Owed(z, batch[i]) = 0
         /\ \A r : r \notin ToSet(batch) => Owed(z, r) = 0
    BY <1>0, <1>8, SampledOutput
  <1>11. HasRoom(config, queue) /\ burst = <<>>
    BY <1>0, <1>7, RoomInQueue DEF Phases
  <1>12. IsAppended(config, queue, z, q)
    BY <1>4, <1>10, <1>11, OutputAppended
  <1>13. /\ IsHost(h)
         /\ \A r \in ToSet(batch) :
              /\ r \in Req
              /\ h.num[r] = Prompt[r] + Len(h.output[r])
              /\ status[r] # "finished" => h.num[r] = Known(r) + Got(queue, r)
    BY <1>4, <1>7, PreviousHost
  <1>14. \A r \in ToSet(batch) : /\ r \in DOMAIN drafted /\ drafted[r] \in Nat
    BY <1>0, <1>9 DEF Shape, IsDrafted
  <1>15. \A i \in e.counted : batch[i] \in hit /\ batch[i] \in ToSet(batch)
    BY <1>4, <1>9, BatchFacts
  <1>16. \A r \in hit : \E i \in e.counted : batch[i] = r
    BY <1>4, <1>9
  <1>17. /\ IsHost(g)
         /\ \A r \in Req \cap hit : Grows(h, g, r, 1 + drafted[r])
         /\ \A r \in Req \ hit : Grows(h, g, r, 0)
    <2>1. \A r \in hit : drafted[r] \in Nat
      BY <1>14, <1>15, <1>16
    <2> QED
      BY <1>2, <1>13, <2>1, WithPlaceholdersFacts
  <1>18. ASSUME NEW r \in ToSet(batch)
         PROVE  /\ Grows(h, g, r, Owed(z, r))
                /\ Owed(z, r) = IF computed[r] >= num[r] THEN 1 + drafted[r]
                                ELSE 0
    <2>1. PICK i \in DOMAIN batch : batch[i] = r
      BY <1>9, BatchFacts
    <2>2. CASE i \in e.counted
      BY <1>9, <1>10, <1>13, <1>15, <1>17, <2>1, <2>2
    <2>3. CASE i \notin e.counted
      <3>1. r \notin hit
        BY <1>9, <1>16, <2>1, <2>3 DEF IsBatch
      <3> QED
        BY <1>9, <1>10, <1>13, <1>17, <2>1, <2>3, <3>1
    <2> QED
      BY <2>2, <2>3
  <1>19. Shape'
    <2>1. \A r \in Req : g.num[r] \in Int /\ IsSeq(g.output[r])
      BY <1>17 DEF IsHost
    <2>2. num' \in [Req -> Int] /\ DOMAIN output' = Req
      BY <1>4, <1>17 DEF IsHost
    <2>3. \A r \in Req : IsSeq(output'[r])
      BY <1>4, <2>1
    <2> QED
      BY <1>0, <1>7, <2>2, <2>3 DEF Shape
  <1>20. Outputs'
    BY <1>3, <1>7, <1>12 DEF Outputs, IsAppended, Async, Mode
  <1>21. Phases'
    BY <1>0, <1>7, <1>11 DEF Phases, Async, Mode
  <1>22. Previous'
    <2>1. Extracted(p) = Extracted(e)
      BY <1>5 DEF Extracted
    <2>2. IsResult(config, p)
      <3>1. IsDrafted(config, drafted, ToSet(batch))
        BY <1>0, <1>9 DEF Shape
      <3> QED
        BY <1>9, <1>5, <2>1, <3>1 DEF IsResult
    <2>3. ASSUME NEW i \in p.counted
          PROVE  Len(g.output[p.batch[i]]) >= PlaceholdersOf(p, p.batch[i])
      <3>1. PICK r : r = p.batch[i] /\ r = batch[i] /\ r \in ToSet(batch)
                     /\ r \in Req /\ r \in hit
        BY <1>9, <1>13, <1>15, <1>5
      <3>2. PlaceholdersOf(p, r) = 1 + drafted[r]
        BY <1>14, <1>5, <3>1 DEF PlaceholdersOf
      <3>3. Len(g.output[r]) = Len(h.output[r]) + (1 + drafted[r])
        BY <1>17, <3>1 DEF Grows
      <3>4. Len(h.output[r]) \in Nat
        BY <1>13, <3>1, SeqFacts DEF IsHost
      <3> QED
        BY <1>14, <3>1, <3>2, <3>3, <3>4
    <2>4. q # <<>> /\ q[Len(q)] = z
      BY <1>12 DEF IsAppended
    <2>5. IsPrevious(p)'
      BY <1>3, <1>4, <1>7, <1>9, <1>10, <1>5, <2>1, <2>2, <2>3, <2>4
         DEF IsPrevious, Drafts
    <2> QED
      BY <1>6, <2>5 DEF Previous
  <1>23. Lengths'
    <2>1. ASSUME NEW r \in ToSet(batch)
          PROVE  /\ g.num[r] = Prompt[r] + Len(g.output[r])
                 /\ status[r] # "finished" =>
                      g.num[r] = Known(r) + Lag(config, q, r)
                                   + InBurst(<<>>, r)
      <3>1. PICK n \in Nat : n = Owed(z, r)
        BY <1>12 DEF IsAppended
      <3>2. /\ g.num[r] = h.num[r] + n
            /\ Len(g.output[r]) = Len(h.output[r]) + n
        BY <1>18, <3>1 DEF Grows
      <3>3. Lag(config, q, r) = Got(queue, r) + n /\ Got(queue, r) \in Nat
        BY <1>7, <1>12, <3>1 DEF IsAppended, Async, Mode
      <3>4. InBurst(<<>>, r) = 0
        BY DEF InBurst
      <3>5. /\ r \in Req
            /\ h.num[r] = Prompt[r] + Len(h.output[r])
            /\ status[r] # "finished" => h.num[r] = Known(r) + Got(queue, r)
        BY <1>13
      <3>6. /\ Prompt[r] \in Nat /\ Known(r) \in Nat
            /\ Len(h.output[r]) \in Nat
        BY <1>0, <1>13, <3>5, ConfigFacts, SeqFacts DEF IsHost
      <3>7. g.num[r] = Prompt[r] + Len(g.output[r])
        BY <3>2, <3>5, <3>6
      <3>8. status[r] # "finished" =>
              g.num[r] = Known(r) + Lag(config, q, r) + InBurst(<<>>, r)
        BY <3>2, <3>3, <3>4, <3>5, <3>6
      <3> QED
        BY <3>7, <3>8
    <2>2. ASSUME NEW r \in Req, status[r] # "finished"
          PROVE  /\ Known(r) < MaxLen
                 /\ inflight[r] = Coming(q, r) + 0
      <3>1. /\ Known(r) < MaxLen
            /\ inflight[r] = Coming(queue, r) +
                 IF r \in ToSet(batch) /\ computed[r] >= num[r]
                 THEN 1 + drafted[r] ELSE 0
        BY <1>0, <1>7, <2>2 DEF Lengths
      <3>2. Owed(z, r) = IF r \in ToSet(batch) /\ computed[r] >= num[r]
                         THEN 1 + drafted[r] ELSE 0
        BY <1>10, <1>18
      <3>3. /\ Coming(q, r) = Coming(queue, r) + Owed(z, r)
            /\ Coming(queue, r) \in Nat /\ Owed(z, r) \in Nat
        BY <1>12 DEF IsAppended
      <3> QED
        BY <3>1, <3>2, <3>3
    <2> QED
      BY <1>3, <1>4, <1>7, <1>11, <2>1, <2>2
         DEF Lengths, Known, MaxLen, Async, Mode
  <1> QED
    BY <1>19, <1>20, <1>21, <1>22, <1>23 DEF LInv

-----------------------------------------------------------------------------
(* The theorem.                                                            *)

\* The empty list adds nothing.
LEMMA ConcatEmpty ==
  ASSUME NEW t, IsSeq(t)
  PROVE  t \o <<>> = t /\ <<>> \o t = t
  <1>1. PICK S : S = ToSet(t)
    OBVIOUS
  <1>2. t \in Seq(S)
    BY <1>1 DEF IsSeq
  <1> QED
    BY <1>2

\* The elements of w are what FlattenSeq's recursion makes of the n lists s.
Flattens(w, s, n) ==
  /\ n \in Nat \ {0}
  /\ s = [k \in 1 .. n |-> s[k]] /\ w = [k \in 1 .. n |-> w[k]]
  /\ \A k \in 1 .. n : w[k] = IF k = 1 THEN s[k] ELSE w[k - 1] \o s[k]

\* That recursion has one value.
LEMMA FlattenIs ==
  ASSUME NEW n, NEW s, NEW w, Flattens(w, s, n)
  PROVE  FlattenSeq(s) = w[n]
  <1> USE DEF Flattens
  <1> DEFINE Step(f) == [i \in 1 .. Len(s) |->
               IF i = 1 THEN s[i] ELSE f[i - 1] \o s[i]]
  <1>1. IsSeq(s) /\ Len(s) = n
    BY FunctionIsSeq
  <1>2. w = Step(w)
    BY <1>1
  <1>3. PICK f : f = (CHOOSE g : g = Step(g))
    OBVIOUS
  <1>4. f = Step(f)
    BY <1>2, <1>3, Zenon
  <1>5. FlattenSeq(s) = f[n]
    BY <1>1, <1>3 DEF FlattenSeq
  <1>6. PICK T : T = {k \in Nat : k \in 1 .. n => f[k] = w[k]}
    OBVIOUS
  <1>7. ASSUME NEW k \in Nat, \A m \in Nat : m < k => m \in T
        PROVE  k \in T
    <2> SUFFICES ASSUME k \in 1 .. n PROVE f[k] = w[k]
      BY <1>6
    <2>1. f[k] = IF k = 1 THEN s[k] ELSE f[k - 1] \o s[k]
      BY <1>1, <1>4
    <2>2. k # 1 => k - 1 \in Nat /\ k - 1 < k /\ k - 1 \in 1 .. n
      OBVIOUS
    <2>3. k # 1 => f[k - 1] = w[k - 1]
      BY <1>6, <1>7, <2>2
    <2> QED
      BY <2>1, <2>3
  <1>8. Nat \subseteq T
    BY <1>7, NatAll
  <1>9. n \in Nat /\ n \in 1 .. n
    OBVIOUS
  <1>10. f[n] = w[n]
    BY <1>6, <1>8, <1>9
  <1> QED
    BY <1>5, <1>10

\* A list of which at most one piece is not empty flattens to that piece.
LEMMA FlattenOne ==
  ASSUME NEW n \in Nat, NEW s, s = [k \in 1 .. n |-> s[k]],
         NEW t, IsSeq(t), \A i \in 1 .. n : s[i] = <<>> \/ s[i] = t,
         \A i, j \in 1 .. n : s[i] # <<>> /\ s[j] # <<>> => i = j,
         t # <<>> => \E i \in 1 .. n : s[i] = t
  PROVE  FlattenSeq(s) = t
  <1>1. IsSeq(s) /\ Len(s) = n
    BY FunctionIsSeq
  <1>2. CASE n = 0
    <2>1. FlattenSeq(s) = s
      BY <1>1, <1>2 DEF FlattenSeq
    <2>2. s = <<>> /\ t = <<>>
      BY <1>1, <1>2, SeqFacts
    <2> QED
      BY <2>1, <2>2
  <1>3. CASE n # 0
    <2>1. PICK w : w = [k \in 1 .. n |->
            IF \E i \in 1 .. k : s[i] # <<>> THEN t ELSE <<>>]
      OBVIOUS
    <2>2. ASSUME NEW k \in 1 .. n
          PROVE  w[k] = IF k = 1 THEN s[k] ELSE w[k - 1] \o s[k]
      <3>1. w[k] = IF \E i \in 1 .. k : s[i] # <<>> THEN t ELSE <<>>
        BY <2>1
      <3>2. CASE k = 1
        <4>1. \A i \in 1 .. k : i = 1
          BY <3>2
        <4> QED
          BY <3>1, <3>2, <4>1
      <3>3. CASE k # 1
        <4>1. k - 1 \in 1 .. n /\ k \in 1 .. k
          BY <3>3
        <4>2. w[k - 1]
                = IF \E i \in 1 .. k - 1 : s[i] # <<>> THEN t ELSE <<>>
          BY <2>1, <4>1
        <4>3. \A i \in 1 .. k : i = k \/ i \in 1 .. k - 1
          OBVIOUS
        <4>4. \A i \in 1 .. k - 1 : i \in 1 .. k /\ i # k /\ i \in 1 .. n
          OBVIOUS
        <4>5. CASE s[k] # <<>>
          <5>1. s[k] = t /\ w[k] = t
            BY <3>1, <4>1, <4>5
          <5>2. w[k - 1] = <<>>
            BY <4>2, <4>4, <4>5
          <5> QED
            BY <3>3, <5>1, <5>2, ConcatEmpty
        <4>6. CASE s[k] = <<>>
          <5>1. w[k] = w[k - 1]
            BY <3>1, <4>2, <4>3, <4>4, <4>6
          <5>2. IsSeq(w[k - 1])
            BY <4>2, EmptyIsSeq
          <5> QED
            BY <3>3, <4>6, <5>1, <5>2, ConcatEmpty
        <4> QED
          BY <4>5, <4>6
      <3> QED
        BY <3>2, <3>3
    <2>3. n \in 1 .. n
      BY <1>3
    <2>4. FlattenSeq(s) = w[n]
      <3>1. w = [k \in 1 .. n |-> w[k]]
        BY <2>1
      <3>2. \A k \in 1 .. n :
              w[k] = IF k = 1 THEN s[k] ELSE w[k - 1] \o s[k]
        BY <2>2
      <3>3. Flattens(w, s, n)
        BY <1>3, <3>1, <3>2 DEF Flattens
      <3> QED
        BY <3>3, FlattenIs
    <2>5. w[n] = t
      <3>1. w[n] = IF \E i \in 1 .. n : s[i] # <<>> THEN t ELSE <<>>
        BY <2>1, <2>3
      <3>2. CASE t = <<>>
        BY <3>1, <3>2
      <3>3. CASE t # <<>>
        BY <3>1, <3>3
      <3> QED
        BY <3>2, <3>3
    <2> QED
      BY <2>4, <2>5
  <1> QED
    BY <1>2, <1>3

\* With at most one output on its way, its tokens are all that is queued.
LEMMA QueuedIs ==
  ASSUME NEW r, queue = <<>> \/ \E x : queue = <<x>> /\ IsOutput(config, x)
  PROVE  Queued(r) = IF queue = <<>> THEN <<>> ELSE TokensFor(queue[1], r)
  <1> DEFINE Part(q) == [i \in DOMAIN queue[q].batch |->
               IF queue[q].batch[i] = r THEN queue[q].tokens[i] ELSE <<>>]
             Parts == [q \in DOMAIN queue |-> FlattenSeq(Part(q))]
  <1>1. Queued(r) = FlattenSeq(Parts)
    BY DEF Queued
  <1>2. CASE queue = <<>>
    <2>1. Parts = [q \in 1 .. 0 |-> Parts[q]]
      BY <1>2, ShortQueues
    <2> HIDE DEF Parts
    <2>2. FlattenSeq(Parts) = <<>>
      <3>1. IsSeq(Parts) /\ Len(Parts) = 0
        BY <2>1, FunctionIsSeq
      <3>2. FlattenSeq(Parts) = Parts /\ Parts = <<>>
        BY <3>1, SeqFacts DEF FlattenSeq
      <3> QED
        BY <3>2
    <2> QED
      BY <1>1, <1>2, <2>2
  <1>3. CASE queue # <<>>
    <2>1. PICK x : queue = <<x>> /\ IsOutput(config, x)
      BY <1>3
    <2>2. PICK t : t = TokensFor(x, r)
      OBVIOUS
    <2>3. IsSeq(t)
      BY <2>1, <2>2, OutputFacts
    <2>4. DOMAIN queue = 1 .. 1 /\ queue[1] = x
      BY <2>1, ShortQueues
    <2>5. PICK s : s = Part(1)
      OBVIOUS
    <2>6. s = [i \in DOMAIN x.batch |->
                IF x.batch[i] = r THEN x.tokens[i] ELSE <<>>]
      BY <2>4, <2>5
    <2>7. IsBatch(x.batch)
      BY <2>1 DEF IsOutput
    <2>8. PICK n \in Nat : n = Len(x.batch) /\ DOMAIN x.batch = 1 .. n
      BY <2>7 DEF IsBatch
    <2>9. s = [k \in 1 .. n |-> s[k]]
      BY <2>6, <2>8
    <2>10. \A i \in 1 .. n : s[i] = <<>> \/ (x.batch[i] = r /\ s[i] = t)
      BY <2>2, <2>6, <2>7, <2>8, TokensForIs
    <2>11. \A i, j \in 1 .. n : s[i] # <<>> /\ s[j] # <<>> => i = j
      BY <2>7, <2>8, <2>10 DEF IsBatch
    <2>12. t # <<>> => \E i \in 1 .. n : s[i] = t
      <3> SUFFICES ASSUME t # <<>> PROVE \E i \in 1 .. n : s[i] = t
        OBVIOUS
      <3>1. r \in ToSet(x.batch)
        BY <2>2, <2>7, TokensForIs
      <3>2. PICK i \in DOMAIN x.batch : x.batch[i] = r
        BY <2>7, <3>1, BatchFacts
      <3> QED
        BY <2>2, <2>6, <2>7, <2>8, <3>2, TokensForIs
    <2>13. FlattenSeq(s) = t
      BY <2>3, <2>9, <2>10, <2>11, <2>12, FlattenOne
    <2>14. Parts = [q \in 1 .. 1 |-> t]
      BY <2>4, <2>5, <2>13
    <2> HIDE DEF Parts
    <2>15. FlattenSeq(Parts) = t
      <3>1. Parts = [q \in 1 .. 1 |-> Parts[q]] /\ Parts[1] = t
        BY <2>14
      <3>2. 1 \in 1 .. 1 /\ \A i \in 1 .. 1 : i = 1
        OBVIOUS
      <3>3. /\ \A i \in 1 .. 1 : Parts[i] = <<>> \/ Parts[i] = t
            /\ \A i, j \in 1 .. 1 :
                 Parts[i] # <<>> /\ Parts[j] # <<>> => i = j
            /\ t # <<>> => \E i \in 1 .. 1 : Parts[i] = t
        BY <3>1, <3>2
      <3> QED
        BY <2>3, <3>1, <3>3, FlattenOne
    <2> QED
      BY <1>1, <1>3, <2>2, <2>4, <2>15
  <1> QED
    BY <1>2, <1>3

\* Initially there is nothing to disagree about.
LEMMA InitLInv ==
  ASSUME Init
  PROVE  LInv
  <1> USE DEF Init
  <1>1. Shape
    BY NoBatch, EmptyIsSeq, ShortQueues DEF Shape, IsDrafted
  <1>2. Outputs
    BY ShortQueues DEF Outputs
  <1>3. Phases
    BY DEF Phases
  <1>4. Previous
    BY DEF Previous
  <1>5. Lengths
    <2>1. ASSUME NEW r \in Req, status[r] # "finished"
          PROVE  Known(r) < MaxLen /\ inflight[r] = Coming(queue, r) + 0
      <3>1. r \in config.reqs
        BY <2>1
      <3>2. Prompt[r] \in 1 .. MaxLen - 1 /\ MaxLen \in Nat
        BY <1>1, <3>1, ConfigFacts DEF MaxLen
      <3>3. Len(received[r]) = 0
        BY EmptyIsSeq
      <3>4. Coming(queue, r) = 0
        BY LagIs
      <3> QED
        BY <3>2, <3>3, <3>4 DEF Known
    <2> QED
      BY <2>1, NoBatch DEF Lengths
  <1> QED
    BY <1>1, <1>2, <1>3, <1>4, <1>5 DEF LInv

\* A step that changes nothing keeps the invariant.
LEMMA StutterKeeps ==
  ASSUME LInv, UNCHANGED vars
  PROVE  LInv'
  BY DEF LInv, Shape, Outputs, Phases, Previous, Lengths, IsPrevious, Async,
         Mode, MaxLen, Drafts, Known, vars, schedulerVars, stepVars, hostVars

\* The inductive invariant: in every mode scheduler and runner know at every
\* phase of a step how much the other is behind.
THEOREM LengthsInvariant == Spec => []LInv
  <1>1. Init => LInv
    BY InitLInv
  <1>2. LInv /\ [Next]_vars => LInv'
    <2> SUFFICES ASSUME LInv, [Next]_vars PROVE LInv'
      OBVIOUS
    <2>1. CASE Schedule
      BY <2>1, ScheduleKeeps
    <2>2. CASE \E r \in Req : Abort(r)
      BY <2>2, AbortKeeps
    <2>3. CASE Deliver
      BY <2>3, DeliverKeeps
    <2>4. CASE ExecuteEmpty
      BY <2>4, ExecuteEmptyKeeps
    <2>5. CASE ExecuteModel
      BY <2>5, ExecuteModelKeeps
    <2>6. CASE ExecuteContinueDecode
      BY <2>6, ExecuteContinueDecodeKeeps
    <2>7. CASE SampleBurst
      BY <2>7, SampleBurstKeeps
    <2>8. CASE SampleSync
      BY <2>8, SampleSyncKeeps
    <2>9. CASE SampleAsync
      BY <2>9, SampleAsyncKeeps
    <2>10. CASE UNCHANGED vars
      BY <2>10, StutterKeeps
    <2> QED
      BY <2>1, <2>2, <2>3, <2>4, <2>5, <2>6, <2>7, <2>8, <2>9, <2>10 DEF Next
  <1> QED
    BY <1>1, <1>2, PTL DEF Spec

\* Between steps the invariant says that the lengths agree.
LEMMA LengthsFollow ==
  ASSUME LInv
  PROVE  LengthsAgree
  <1>0. Shape /\ Outputs /\ Phases /\ Previous /\ Lengths
    BY DEF LInv
  <1> SUFFICES ASSUME pc = "schedule", Drafts > 0 => Len(queue) <= 1,
                      NEW r \in ToSet(batch), status[r] = "running"
               PROVE  num[r] = Known(r) + IF Async THEN inflight[r]
                                          ELSE Len(Queued(r))
    BY DEF LengthsAgree
  <1>1. r \in Req /\ Known(r) \in Nat
    BY <1>0, BatchFacts, ConfigFacts DEF Shape
  <1>2. num[r] = Known(r) + Lag(config, queue, r) + InBurst(burst, r)
    BY <1>0 DEF Lengths
  <1>3. InBurst(burst, r) = 0
    BY <1>0 DEF Phases, InBurst
  <1>4. \/ queue = <<>> \/ \E x : queue = <<x>> /\ IsOutput(config, x)
        \/ \E x, y : queue = <<x, y>> /\ IsOutput(config, x)
                                      /\ IsOutput(config, y)
    <2>1. /\ IsSeq(queue) /\ Len(queue) <= 2
          /\ \A k \in DOMAIN queue : IsOutput(config, queue[k])
      BY <1>0 DEF Outputs
    <2>2. \/ queue = <<>> \/ (\E x : queue = <<x>>)
          \/ \E x, y : queue = <<x, y>>
      BY <2>1, QueueIs
    <2> QED
      BY <2>1, <2>2, ShortQueues
  <1>5. CASE Async
    <2>1. inflight[r] = Coming(queue, r) + 0
      BY <1>0, <1>1, <1>5 DEF Lengths
    <2>2. Lag(config, queue, r) = Coming(queue, r) /\ Coming(queue, r) \in Nat
      <3>0. config.mode = "async"
        BY <1>5 DEF Async, Mode
      <3>1. CASE queue = <<>>
        BY <3>1, LagIs
      <3>2. CASE \E x : queue = <<x>> /\ IsOutput(config, x)
        <4>1. PICK x : queue = <<x>> /\ IsOutput(config, x)
          BY <3>2
        <4>2. /\ Lag(config, <<x>>, r) = Owed(x, r)
              /\ Coming(<<x>>, r) = Owed(x, r)
          BY <3>0, LagIs
        <4>3. Owed(x, r) \in Nat
          BY <4>1, OutputFacts
        <4> QED
          BY <4>1, <4>2, <4>3
      <3>3. CASE \E x, y : queue = <<x, y>> /\ IsOutput(config, x)
                                            /\ IsOutput(config, y)
        <4>1. PICK x, y : queue = <<x, y>> /\ IsOutput(config, x)
                                           /\ IsOutput(config, y)
          BY <3>3
        <4>2. config.drafts = 0
          <5>1. ~ (Drafts > 0)
            BY <4>1, ShortQueues
          <5> QED
            BY <1>0, <5>1, ConfigFacts DEF Drafts
        <4>3. Owed(x, r) = Len(TokensFor(x, r)) /\ Owed(x, r) \in Nat
          BY <3>0, <4>1, <4>2, OutputFacts
        <4>4. Owed(y, r) \in Nat
          BY <4>1, OutputFacts
        <4>5. Lag(config, <<x, y>>, r) = Len(TokensFor(x, r)) + Owed(y, r)
          BY <3>0, LagIs
        <4>6. Coming(<<x, y>>, r) = Owed(x, r) + Owed(y, r)
          BY LagIs
        <4> QED
          BY <4>1, <4>3, <4>4, <4>5, <4>6
      <3> QED
        BY <1>4, <3>1, <3>2, <3>3
    <2> QED
      BY <1>1, <1>2, <1>3, <1>5, <2>1, <2>2
  <1>6. CASE ~ Async
    <2>1. queue = <<>> \/ \E x : queue = <<x>> /\ IsOutput(config, x)
      <3>1. Len(queue) <= 1
        BY <1>0, <1>6 DEF Outputs
      <3>2. ~ (\E x, y : queue = <<x, y>>)
        BY <3>1, ShortQueues
      <3> QED
        BY <1>4, <3>2
    <2>2. Queued(r) = IF queue = <<>> THEN <<>> ELSE TokensFor(queue[1], r)
      BY <2>1, QueuedIs
    <2>3. Lag(config, queue, r) = Len(Queued(r)) /\ Len(Queued(r)) \in Nat
      <3>0. config.mode # "async"
        BY <1>6 DEF Async, Mode
      <3>1. CASE queue = <<>>
        BY <2>2, <3>1, EmptyIsSeq, LagIs
      <3>2. CASE queue # <<>>
        <4>1. PICK x : queue = <<x>> /\ IsOutput(config, x)
          BY <2>1, <3>2
        <4>2. Queued(r) = TokensFor(x, r)
          BY <2>2, <3>2, <4>1, ShortQueues
        <4>3. Lag(config, <<x>>, r) = Len(TokensFor(x, r))
          BY <3>0, LagIs
        <4>4. Len(TokensFor(x, r)) \in Nat
          BY <4>1, OutputFacts
        <4> QED
          BY <4>1, <4>2, <4>3, <4>4
      <3> QED
        BY <3>1, <3>2
    <2> QED
      BY <1>1, <1>2, <1>3, <1>6, <2>3
  <1> QED
    BY <1>5, <1>6

\* Scheduler and runner agree between steps how long an unfinished request
\* is, however requests are scheduled, preempted, aborted or stopped, rows
\* permuted, outputs delayed and drafts rejected.
THEOREM LengthsKept == Spec => []LengthsAgree
  <1>1. LInv => LengthsAgree
    BY LengthsFollow
  <1> QED
    BY <1>1, LengthsInvariant, PTL

-----------------------------------------------------------------------------
(* The tokens themselves, without drafts; a runner in bursts has a budget  *)
(* of more than one token.                                                 *)

\* What is proved of the tokens is proved of these deployments.
Plain == Drafts = 0 /\ (Mode = "continue" => Chunk > 1)

\* The tokens t are those of r from position p on.
Continues(t, r, p) == \A k \in DOMAIN t : t[k] = <<r, p + k - 1>>

\* The first n tokens of r are right in its row and in output_token_ids.
Holds(h, r, n) ==
  /\ \A p \in 0 .. n - 1 : h.row[r][p] = <<r, p>>
  /\ \A k \in 1 .. n - Prompt[r] : h.output[r][k] = <<r, Prompt[r] + k - 1>>

\* The elements of a concatenation and of a prefix.
LEMMA ConcatAt ==
  ASSUME NEW s, NEW t, IsSeq(s), IsSeq(t)
  PROVE  /\ \A k \in 1 .. Len(s) : (s \o t)[k] = s[k]
         /\ \A k \in 1 .. Len(t) : (s \o t)[Len(s) + k] = t[k]
  <1>1. PICK S : S = ToSet(s) \cup ToSet(t)
    OBVIOUS
  <1>2. s \in Seq(S) /\ t \in Seq(S)
    BY <1>1 DEF IsSeq
  <1>3. s \o t \in Seq(S)
    BY <1>2
  <1>4. PICK u \in Seq(S) : u = s \o t
    BY <1>3
  <1>5. \A k \in 1 .. Len(s) : u[k] = s[k]
    BY <1>2, <1>4
  <1>6. \A k \in 1 .. Len(t) : u[Len(s) + k] = t[k]
    <2> SUFFICES ASSUME NEW k \in 1 .. Len(t) PROVE u[Len(s) + k] = t[k]
      OBVIOUS
    <2>1. Len(s) \in Nat /\ Len(t) \in Nat
      BY <1>2
    <2>2. PICK j \in 1 .. Len(s) + Len(t) : j = Len(s) + k
      BY <2>1
    <2>3. u[j] = t[j - Len(s)]
      BY <1>2, <1>4, <2>1, <2>2
    <2> QED
      BY <2>1, <2>2, <2>3
  <1> QED
    BY <1>4, <1>5, <1>6

\* A prefix has the elements of the sequence.
LEMMA PrefixAt ==
  ASSUME NEW s, IsSeq(s), NEW m \in 0 .. Len(s), NEW k \in 1 .. m
  PROVE  SubSeq(s, 1, m)[k] = s[k]
  <1>1. PICK S : S = ToSet(s)
    OBVIOUS
  <1>2. s \in Seq(S) /\ m \in Nat
    BY <1>1, SeqFacts DEF IsSeq
  <1>3. SubSeq(s, 1, m) = [i \in 1 .. m |-> s[i]]
    BY <1>2
  <1> QED
    BY <1>3

\* Tokens that continue those of r are right where WithTokens() puts them.
LEMMA WithTokensHolds ==
  ASSUME Shape, NEW who, NEW tokens, NEW g, IsHost(g), NEW r \in Req,
         NEW m \in Nat, Holds(g, r, m), NEW h, h = WithTokens(who, tokens, g)
  PROVE  /\ r \notin who => Holds(h, r, m)
         /\ \A l \in Nat :
              /\ r \in who /\ IsSeq(tokens[r]) /\ Len(tokens[r]) = l
              /\ Continues(tokens[r], r, m) /\ g.num[r] = m
              /\ m = Prompt[r] + Len(g.output[r]) /\ m + l <= MaxLen
              => Holds(h, r, m + l)
  <1>1. MaxLen \in Nat /\ Prompt[r] \in Nat
    BY ConfigFacts DEF MaxLen
  <1>2. h.row = [q \in Req |-> IF q \in who
          THEN [p \in 0 .. MaxLen - 1 |->
                  IF p - g.num[q] + 1 \in DOMAIN tokens[q]
                  THEN tokens[q][p - g.num[q] + 1] ELSE g.row[q][p]]
          ELSE g.row[q]]
    BY Zenon DEF WithTokens
  <1>3. h.output = [q \in Req |->
          IF q \in who THEN g.output[q] \o tokens[q] ELSE g.output[q]]
    BY DEF WithTokens
  <1>4. ASSUME r \notin who PROVE Holds(h, r, m)
    <2>1. h.row[r] = g.row[r] /\ h.output[r] = g.output[r]
      BY <1>2, <1>3, <1>4
    <2> QED
      BY <2>1 DEF Holds
  <1>5. ASSUME NEW l \in Nat, r \in who,
               IsSeq(tokens[r]), Len(tokens[r]) = l,
               Continues(tokens[r], r, m), g.num[r] = m,
               m = Prompt[r] + Len(g.output[r]), m + l <= MaxLen
        PROVE  Holds(h, r, m + l)
    <2>1. PICK t : t = tokens[r]
      OBVIOUS
    <2>2. /\ IsSeq(t) /\ Len(t) = l /\ DOMAIN t = 1 .. l
          /\ \A k \in 1 .. l : t[k] = <<r, m + k - 1>>
      BY <1>5, <2>1, SeqFacts DEF Continues
    <2>3. PICK z \in Nat : z = m + l
      OBVIOUS
    <2>4. ASSUME NEW p \in 0 .. z - 1
          PROVE  h.row[r][p] = <<r, p>>
      <3>1. h.row[r] = [e \in 0 .. MaxLen - 1 |->
                  IF e - m + 1 \in DOMAIN t
                  THEN t[e - m + 1] ELSE g.row[r][e]]
        BY <1>2, <1>5, <2>1
      <3>2. p \in 0 .. MaxLen - 1
        BY <1>1, <1>5, <2>3
      <3>3. h.row[r][p] = IF p - m + 1 \in DOMAIN t
                          THEN t[p - m + 1] ELSE g.row[r][p]
        BY <3>1, <3>2
      <3>4. CASE p < m
        <4>1. ~ (p - m + 1 \in 1 .. l) /\ p \in 0 .. m - 1
          BY <3>4
        <4> QED
          BY <2>2, <3>3, <4>1 DEF Holds
      <3>5. CASE p >= m
        <4>1. PICK k \in 1 .. l : k = p - m + 1
          BY <2>3, <3>5
        <4>2. t[k] = <<r, m + k - 1>> /\ m + k - 1 = p
          BY <2>2, <4>1
        <4> QED
          BY <2>2, <3>3, <4>1, <4>2
      <3> QED
        BY <3>4, <3>5
    <2>5. ASSUME NEW k \in 1 .. z - Prompt[r]
          PROVE  h.output[r][k] = <<r, Prompt[r] + k - 1>>
      <3>1. PICK s : s = g.output[r]
        OBVIOUS
      <3>2. PICK n \in Nat : n = Len(s) /\ IsSeq(s) /\ m = Prompt[r] + n
        BY <1>5, <3>1, SeqFacts DEF IsHost
      <3>3. h.output[r] = s \o t
        BY <1>3, <1>5, <2>1, <3>1
      <3>4. /\ \A i \in 1 .. n : (s \o t)[i] = s[i]
            /\ \A i \in 1 .. l : (s \o t)[n + i] = t[i]
        BY <2>2, <3>2, ConcatAt
      <3>5. CASE k <= n
        <4>1. k \in 1 .. n /\ k \in 1 .. m - Prompt[r]
          BY <1>1, <3>2, <3>5
        <4>2. g.output[r][k] = <<r, Prompt[r] + k - 1>>
          BY <4>1 DEF Holds
        <4> QED
          BY <3>1, <3>3, <3>4, <4>1, <4>2
      <3>6. CASE k > n
        <4>1. PICK a \in Nat : a = Prompt[r]
          BY <1>1
        <4>2. k \in Int /\ m = a + n /\ k <= z - a
          BY <3>2, <4>1
        <4>3. PICK i \in 1 .. l : i = k - n
          BY <2>3, <3>6, <4>2
        <4>4. n + i = k /\ m + i - 1 = Prompt[r] + k - 1
          BY <4>3, <4>1, <4>2
        <4>5. (s \o t)[k] = <<r, m + i - 1>>
          BY <2>2, <3>4, <4>3, <4>4
        <4> QED
          BY <3>3, <4>4, <4>5
      <3> QED
        BY <3>2, <3>5, <3>6
    <2>6. Holds(h, r, z)
      BY <2>4, <2>5 DEF Holds
    <2> QED
      BY <2>3, <2>6
  <1> QED
    BY <1>4, <1>5

\* Placeholders that are taken out are not among the tokens that are right.
LEMMA WithoutPlaceholdersHolds ==
  ASSUME Shape, NEW who, NEW e, NEW g, IsHost(g), NEW r \in Req,
         NEW m \in Nat, Holds(g, r, m),
         r \in who => /\ PlaceholdersOf(e, r) = 1
                      /\ Prompt[r] + Len(g.output[r]) = m + 1
                      /\ m >= Prompt[r],
         NEW h, h = WithoutPlaceholders(who, e, g)
  PROVE  Holds(h, r, m)
  <1>1. /\ h.row = g.row
        /\ h.output = [q \in Req |-> IF q \in who
              THEN SubSeq(g.output[q], 1,
                          Len(g.output[q]) - PlaceholdersOf(e, q))
              ELSE g.output[q]]
    BY DEF WithoutPlaceholders, IsHost
  <1>2. CASE r \notin who
    <2>1. h.output[r] = g.output[r]
      BY <1>1, <1>2
    <2> QED
      BY <1>1, <2>1 DEF Holds
  <1>3. CASE r \in who
    <2>1. PICK s : s = g.output[r]
      OBVIOUS
    <2>2. IsSeq(s) /\ Len(s) \in Nat /\ Prompt[r] \in Nat
      BY <2>1, ConfigFacts, SeqFacts DEF IsHost
    <2>3. PICK n \in 0 .. Len(s) : n = Len(s) - 1 /\ n = m - Prompt[r]
      BY <1>3, <2>1, <2>2
    <2>4. h.output[r] = SubSeq(s, 1, n)
      BY <1>1, <1>3, <2>1, <2>3
    <2>5. ASSUME NEW k \in 1 .. n
          PROVE  h.output[r][k] = s[k]
      BY <2>2, <2>4, PrefixAt
    <2> QED
      BY <1>1, <2>1, <2>3, <2>5 DEF Holds
  <1> QED
    BY <1>2, <1>3

\* Placeholders are appended after the tokens that are right.
LEMMA WithPlaceholdersHolds ==
  ASSUME Shape, NEW who, NEW g, IsHost(g), NEW r \in Req,
         r \in who => drafted[r] \in Nat,
         NEW m \in Nat, Holds(g, r, m), m <= Prompt[r] + Len(g.output[r]),
         NEW h, h = WithPlaceholders(who, g)
  PROVE  Holds(h, r, m)
  <1>1. /\ h.row = g.row
        /\ h.output = [q \in Req |-> IF q \in who
              THEN g.output[q] \o [j \in 1 .. 1 + drafted[q] |-> Zero]
              ELSE g.output[q]]
    BY DEF WithPlaceholders, IsHost
  <1>2. CASE r \notin who
    <2>1. h.output[r] = g.output[r]
      BY <1>1, <1>2
    <2> QED
      BY <1>1, <2>1 DEF Holds
  <1>3. CASE r \in who
    <2>1. PICK s : s = g.output[r]
      OBVIOUS
    <2>2. IsSeq(s) /\ Len(s) \in Nat /\ Prompt[r] \in Nat
      BY <2>1, ConfigFacts, SeqFacts DEF IsHost
    <2>3. PICK n \in Nat : n = 1 + drafted[r]
      BY <1>3
    <2>4. PICK t : t = [j \in 1 .. n |-> Zero]
      OBVIOUS
    <2>5. t = [j \in 1 .. n |-> t[j]]
      BY <2>4
    <2>6. IsSeq(t)
      BY <2>5, FunctionIsSeq
    <2>7. h.output[r] = s \o t
      BY <1>1, <1>3, <2>1, <2>3, <2>4
    <2>8. \A k \in 1 .. Len(s) : (s \o t)[k] = s[k]
      BY <2>2, <2>6, ConcatAt
    <2>9. \A k \in 1 .. m - Prompt[r] : k \in 1 .. Len(s)
      BY <2>1, <2>2
    <2> QED
      BY <1>1, <2>1, <2>7, <2>8, <2>9 DEF Holds
  <1> QED
    BY <1>2, <1>3

\* Without drafts the host's copy of a request is right to its end once its
\* only placeholder has been replaced.
LEMMA ModifiedHolds ==
  ASSUME Shape, config.drafts = 0, NEW e, IsResult(config, e), NEW b,
         NEW g, IsHost(g),
         \A i \in e.counted : e.batch[i] \in ToSet(b) =>
           Len(g.output[e.batch[i]]) >= PlaceholdersOf(e, e.batch[i]),
         NEW h, h = Modified(e, b, g),
         NEW r \in Req, NEW n \in Nat, n = g.num[r],
         n = Prompt[r] + Len(g.output[r]), n <= MaxLen
  PROVE  /\ \A i \in e.counted :
              /\ e.batch[i] = r /\ r \in ToSet(b) /\ Holds(g, r, n - 1)
              /\ Extracted(e)[i] = <<<<r, n - 1>>>>
              => Holds(h, r, n)
         /\ /\ ~ (\E i \in e.counted : e.batch[i] = r /\ r \in ToSet(b))
            /\ Holds(g, r, n)
            => Holds(h, r, n)
  <1>1. PICK hit, tokens :
          /\ Replaced(e, b, hit, tokens)
          /\ Modified(e, b, g)
               = WithTokens(hit, tokens, WithoutPlaceholders(hit, e, g))
    BY ModifiedIs
  <1>2. /\ \A i \in e.counted : e.batch[i] \in ToSet(b) =>
             /\ e.batch[i] \in hit
             /\ tokens[e.batch[i]] = Extracted(e)[i]
        /\ \A q \in hit : \E i \in e.counted :
             e.batch[i] = q /\ q \in ToSet(b)
    BY <1>1 DEF Replaced
  <1>3. PICK f : f = WithoutPlaceholders(hit, e, g)
    OBVIOUS
  <1>4. h = WithTokens(hit, tokens, f)
    BY <1>1, <1>3
  <1>5. \A q \in hit : /\ q \in Req /\ PlaceholdersOf(e, q) = 1
                       /\ Len(g.output[q]) >= PlaceholdersOf(e, q)
    <2> SUFFICES ASSUME NEW q \in hit
                 PROVE  /\ q \in Req /\ PlaceholdersOf(e, q) = 1
                        /\ Len(g.output[q]) >= PlaceholdersOf(e, q)
      OBVIOUS
    <2>1. PICK i \in e.counted : e.batch[i] = q /\ q \in ToSet(b)
      BY <1>2
    <2>2. /\ q \in Req /\ PlaceholdersOf(e, q) = 1 + e.drafted[q]
      BY <2>1, ResultFacts
    <2>3. e.drafted[q] = 0
      <3>1. /\ IsDrafted(config, e.drafted, ToSet(e.batch))
            /\ i \in DOMAIN e.batch /\ IsBatch(e.batch)
        BY DEF IsResult
      <3>2. q \in ToSet(e.batch)
        BY <2>1, <3>1, BatchFacts
      <3> QED
        BY <3>1, <3>2 DEF IsDrafted
    <2> QED
      BY <2>1, <2>2, <2>3
  <1>6. /\ IsHost(f)
        /\ \A q \in Req \cap hit : Grows(g, f, q, - PlaceholdersOf(e, q))
        /\ \A q \in Req \ hit : Grows(g, f, q, 0)
    BY <1>3, <1>5, WithoutPlaceholdersFacts
  <1>7. ASSUME NEW i \in e.counted, e.batch[i] = r, r \in ToSet(b),
               Holds(g, r, n - 1), Extracted(e)[i] = <<<<r, n - 1>>>>
        PROVE  Holds(h, r, n)
    <2>1. r \in hit /\ tokens[r] = <<<<r, n - 1>>>>
      BY <1>2, <1>7
    <2>2. PlaceholdersOf(e, r) = 1 /\ Len(g.output[r]) >= 1
      BY <1>5, <2>1
    <2>3. Len(g.output[r]) \in Nat /\ Prompt[r] \in Nat
      BY ConfigFacts, SeqFacts DEF IsHost
    <2>4. PICK m \in Nat : /\ m = n - 1 /\ m >= Prompt[r]
                           /\ Prompt[r] + Len(g.output[r]) = m + 1
      BY <2>2, <2>3
    <2>5. Holds(g, r, m)
      BY <1>7, <2>4
    <2>6. Holds(f, r, m)
      BY <1>3, <2>2, <2>4, <2>5, WithoutPlaceholdersHolds
    <2>7. Grows(g, f, r, - 1)
      BY <1>6, <2>1, <2>2
    <2>8. f.num[r] = m /\ m = Prompt[r] + Len(f.output[r])
      <3>1. PICK a \in Nat, l \in Nat :
              a = Prompt[r] /\ l = Len(g.output[r])
        BY <2>3
      <3>2. f.num[r] = n + (- 1) /\ Len(f.output[r]) = l + (- 1)
        BY Zenon, <2>7, <3>1 DEF Grows
      <3>3. n + (- 1) = m /\ m = a + (l + (- 1))
        BY <2>4, <3>1
      <3> QED
        BY <3>1, <3>2, <3>3
    <2>9. PICK t : t = tokens[r]
      OBVIOUS
    <2>10. IsSeq(t) /\ Len(t) = 1 /\ Continues(t, r, m)
      <3>1. t = <<<<r, m>>>>
        BY <2>1, <2>4, <2>9
      <3>2. DOMAIN t = {1} /\ t[1] = <<r, m>>
        BY <3>1, ShortQueues
      <3>3. m + 1 - 1 = m
        OBVIOUS
      <3> QED
        BY <3>1, <3>2, <3>3, OneIsSeq DEF Continues
    <2>11. m + 1 <= MaxLen /\ m + 1 = n
      BY <2>4
    <2>12. Holds(h, r, m + 1)
      BY <1>4, <1>6, <2>1, <2>6, <2>8, <2>9, <2>10, <2>11, WithTokensHolds
    <2> QED
      BY <2>11, <2>12
  <1>8. ASSUME ~ (\E i \in e.counted : e.batch[i] = r /\ r \in ToSet(b)),
               Holds(g, r, n)
        PROVE  Holds(h, r, n)
    <2>1. r \notin hit
      BY <1>2, <1>8
    <2>2. Holds(f, r, n)
      BY <1>3, <1>8, <2>1, WithoutPlaceholdersHolds
    <2> QED
      BY <1>4, <1>6, <2>1, <2>2, WithTokensHolds
  <1> QED
    BY <1>7, <1>8

\* The last token of r is a placeholder.
Pending(r) == pre # <<>> /\ \E i \in pre[1].counted : pre[1].batch[i] = r

\* How many tokens of r the host knows.
Filled(r) == num[r] - IF Pending(r) THEN 1 ELSE 0

\* The rows have the tokens of their requests.
RowsRight ==
  \A r \in ToSet(batch) : num[r] <= MaxLen /\ Holds(Host, r, Filled(r))

\* The scheduler has been given the tokens of its requests, and the outputs
\* on their way continue them.
ReceivedRight == \A r \in Req : Continues(received[r], r, Prompt[r])

QueueRight ==
  \A r \in Req : status[r] # "finished" =>
    /\ queue # <<>> => Continues(TokensFor(queue[1], r), r, Known(r))
    /\ Len(queue) = 2 => Continues(TokensFor(queue[2], r), r,
                                   Known(r) + Len(TokensFor(queue[1], r)))

\* The i-th request of e, r, has a result: the token at position n.
Kept(e, i, r, n) ==
  /\ e.next[e.places[i]] = <<<<r, n>>>>
  /\ e.placeholders[r] \in Nat
  /\ e.device[e.placeholders[r]] = <<r, n>>

\* The device has the tokens of the placeholders, where the next step will
\* look for them; that step computes those tokens, if not earlier ones.
PreRight ==
  pre # <<>> =>
    /\ DOMAIN pre[1].placeholders
         = {pre[1].batch[i] : i \in pre[1].counted}
    /\ \A i \in pre[1].counted : \A r \in ToSet(batch) :
         pre[1].batch[i] = r =>
           /\ Kept(pre[1], i, r, num[r] - 1)
           /\ (pc = "execute" => r \in DOMAIN so) => computed[r] >= num[r] - 1

\* A step that computes all of a request's tokens samples the next one.
StateRight ==
  state # <<>> =>
    \A i \in DOMAIN batch :
      /\ state[1].places[i] \in Nat \cap DOMAIN state[1].next
      /\ computed[batch[i]] >= num[batch[i]] =>
           state[1].next[state[1].places[i]]
             = <<<<batch[i], num[batch[i]]>>>>

\* The tokens of an output are the last ones of their requests.
IsLast(out) ==
  \A r \in Req : TokensFor(out, r) # <<>> =>
    r \in ToSet(batch) /\ computed[r] = num[r] - Len(TokensFor(out, r))

BurstRight ==
  /\ burst # <<>> =>
       /\ IsLast(burst[1])
       /\ \A r \in ToSet(batch) :
            Continues(TokensFor(burst[1], r), r,
                      num[r] - Len(TokensFor(burst[1], r)))
  /\ ~ Async /\ queue # <<>> => IsLast(queue[1])

\* What there is of r for the next step to compute.
Target(r) == IF r \in ToSet(batch) THEN num[r] ELSE Known(r)

\* A step computes no more tokens of a request than there are.
StepsRight ==
  /\ \A r \in Req : computed[r] \in 0 .. MaxLen - 1
  /\ ~ Async => \A r \in Req : inflight[r] = 0
  /\ pc = "execute" => \A r \in DOMAIN so :
       /\ Known(r) <= MaxLen
       /\ so[r] \in 1 .. Chunk
       /\ computed[r] + so[r] <= MaxLen - 1
       /\ computed[r] + so[r] <= Target(r)
       /\ ~ Async => so[r] = Chunk \/ computed[r] + so[r] = Target(r)
  /\ pc = "sample" /\ state # <<>> =>
       \A r \in ToSet(batch) : computed[r] <= num[r]

VInv ==
  /\ RowsRight /\ ReceivedRight /\ QueueRight /\ PreRight /\ StateRight
  /\ BurstRight /\ StepsRight

\* The rows stay right when nothing of the host changes.
LEMMA RowsStay ==
  ASSUME RowsRight, UNCHANGED <<config, batch, row, num, output, pre>>
  PROVE  RowsRight'
  BY DEF RowsRight, Holds, Host, Filled, Pending, MaxLen

\* A client that leaves changes no token.
LEMMA AbortRight ==
  ASSUME LInv, VInv, NEW r \in Req, Abort(r)
  PROVE  VInv'
  <1>1. /\ status' = [status EXCEPT ![r] = "finished"]
        /\ UNCHANGED <<config, received, computed, inflight, so, drafted,
                       queue, pc, batch, row, num, output, pre, state, burst>>
        /\ pc = "schedule"
    BY DEF Abort, hostVars, stepVars
  <1>2. \A s \in Req : status[s] = "finished" => status'[s] = "finished"
    BY <1>1 DEF LInv, Shape
  <1>3. RowsRight'
    BY <1>1, RowsStay DEF VInv
  <1>4. ReceivedRight' /\ QueueRight'
    BY <1>1, <1>2 DEF VInv, ReceivedRight, QueueRight, Known
  <1>5. PreRight'
    BY <1>1 DEF VInv, PreRight
  <1>6. StateRight' /\ BurstRight'
    BY <1>1 DEF VInv, StateRight, BurstRight, IsLast, Async, Mode
  <1>7. StepsRight'
    BY <1>1 DEF VInv, StepsRight, Async, Mode, MaxLen
  <1> QED
    BY <1>3, <1>4, <1>5, <1>6, <1>7 DEF VInv

\* A step that changes nothing.
LEMMA StutterRight ==
  ASSUME VInv, UNCHANGED vars
  PROVE  VInv'
  <1>1. UNCHANGED <<config, status, received, computed, inflight, so, drafted,
                    queue, pc, batch, row, num, output, pre, state, burst>>
    BY DEF vars, schedulerVars, stepVars, hostVars
  <1>2. RowsRight'
    BY <1>1, RowsStay DEF VInv
  <1>3. ReceivedRight' /\ QueueRight'
    BY <1>1 DEF VInv, ReceivedRight, QueueRight, Known
  <1>4. PreRight'
    BY <1>1 DEF VInv, PreRight
  <1>5. StateRight' /\ BurstRight'
    BY <1>1 DEF VInv, StateRight, BurstRight, IsLast, Async, Mode
  <1>6. StepsRight'
    BY <1>1 DEF VInv, StepsRight, Async, Mode, MaxLen, Chunk, Target, Known
  <1> QED
    BY <1>2, <1>3, <1>4, <1>5, <1>6 DEF VInv

\* Without drafts the scheduler expects exactly what there is to compute.
LEMMA ExpectedIs ==
  ASSUME LInv, StepsRight, pc = "schedule",
         Len(queue) <= IF Async THEN 1 ELSE 0,
         NEW r \in Req, status[r] # "finished"
  PROVE  /\ Expected(r) = Target(r) /\ Target(r) \in Int
         /\ ~ Async => Expected(r) <= MaxLen - 1
  <1>0. Shape /\ Outputs /\ Phases /\ Previous /\ Lengths
    BY DEF LInv
  <1>1. HasRoom(config, queue)
    <2>1. IsSeq(queue) /\ \A k \in DOMAIN queue : IsOutput(config, queue[k])
      BY <1>0 DEF Outputs
    <2>2. Len(queue) \in Nat /\ (Len(queue) = 0 => queue = <<>>)
      BY <2>1, SeqFacts
    <2> QED
      BY <2>1, <2>2 DEF HasRoom, Async, Mode
  <1>2. /\ Known(r) \in Nat /\ num[r] \in Int /\ inflight[r] \in Int
        /\ MaxLen \in Nat /\ Known(r) < MaxLen
    BY <1>0, ConfigFacts DEF Lengths, MaxLen
  <1>3. Lag(config, queue, r) \in Nat
        /\ Lag(config, queue, r) = Coming(queue, r)
    BY <1>1, LagIsInt
  <1>4. inflight[r] = Lag(config, queue, r)
    <2>1. CASE Async
      <3>1. inflight[r] = Coming(queue, r) + 0
        BY <1>0, <2>1 DEF Lengths
      <3> QED
        BY <1>3, <3>1
    <2>2. CASE ~ Async
      <3>1. queue = <<>>
        BY <1>1, <2>2 DEF HasRoom, Async, Mode
      <3>2. Lag(config, queue, r) = 0
        BY <3>1, LagIs
      <3> QED
        BY <2>2, <3>2 DEF StepsRight
    <2> QED
      BY <2>1, <2>2
  <1>5. ~ Async => inflight[r] = 0
    BY DEF StepsRight
  <1>6. Known(r) + inflight[r] = Target(r)
    <2>1. CASE r \in ToSet(batch)
      <3>1. InBurst(burst, r) = 0
        BY <1>0 DEF Phases, InBurst
      <3>2. num[r] = Known(r) + Lag(config, queue, r) + InBurst(burst, r)
        BY <1>0, <2>1 DEF Lengths
      <3> QED
        BY <1>2, <1>3, <1>4, <2>1, <3>1, <3>2 DEF Target
    <2>2. CASE r \notin ToSet(batch)
      <3>1. Lag(config, queue, r) = 0
        BY <1>1, <2>2, NothingQueued
      <3> QED
        BY <1>2, <1>4, <2>2, <3>1 DEF Target
    <2> QED
      BY <2>1, <2>2
  <1> QED
    BY <1>2, <1>5, <1>6 DEF Expected

\* Without drafts a step computes what is expected, within the budget and
\* the model's length.
LEMMA ScheduledIs ==
  ASSUME Shape, Drafts = 0, NEW r \in Req, NEW c \in Int
  PROVE  /\ Scheduled(r, c) \in Int /\ Scheduled(r, c) <= Chunk
         /\ c + Scheduled(r, c) <= MaxLen - 1
         /\ c + Scheduled(r, c) <= Expected(r)
         /\ Expected(r) <= MaxLen - 1 =>
              Scheduled(r, c) = Chunk \/ c + Scheduled(r, c) = Expected(r)
  <1>1. Chunk \in Int /\ MaxLen \in Int /\ Expected(r) \in Int
    BY ConfigFacts DEF Chunk, MaxLen, Expected
  <1>2. PICK a \in Int, b \in Int, x \in Int :
          a = Chunk /\ b = MaxLen - 1 - c /\ x = Expected(r) - c
    BY <1>1
  <1>3. Scheduled(r, c) = Min({a, b, x})
    <2>1. Expected(r) - c + (IF inflight[r] > 0 THEN Drafts ELSE 0) = x
      BY <1>1, <1>2
    <2> QED
      BY <1>2, <2>1 DEF Scheduled
  <1>4. PICK m \in Int : m = Scheduled(r, c) /\ m <= a /\ m <= b /\ m <= x
    <2>1. /\ Min({a, b, x}) \in Int
          /\ Min({a, b, x}) <= a /\ Min({a, b, x}) <= b /\ Min({a, b, x}) <= x
      BY MinOfThree, Zenon
    <2> QED
      BY <1>3, <2>1
  <1>5. m = a \/ m = b \/ m = x
    <2>1. Min({a, b, x}) = a \/ Min({a, b, x}) = b \/ Min({a, b, x}) = x
      BY MinIsOne, Zenon
    <2> QED
      BY <1>3, <1>4, <2>1
  <1>6. c + m <= MaxLen - 1 /\ c + m <= Expected(r)
    BY <1>1, <1>2, <1>4
  <1>7. Expected(r) <= MaxLen - 1 => m = Chunk \/ c + m = Expected(r)
    BY <1>1, <1>2, <1>4, <1>5
  <1> QED
    BY <1>2, <1>4, <1>6, <1>7

\* A request that is scheduled computes what is left of it; one that is
\* skipped or preempted has no part in the step.
LEMMA ScheduleRight ==
  ASSUME LInv, Plain, VInv, Schedule
  PROVE  VInv'
  <1>0. PICK S \in SUBSET {r \in Req : status[r] # "finished"},
             P \in SUBSET {r \in Req : status[r] # "finished"} :
          /\ P \subseteq {r \in Req : status[r] = "running"} \ S
          /\ LET from == [r \in Req |-> IF r \in P THEN 0 ELSE computed[r]]
             IN /\ \A r \in S : Scheduled(r, from[r]) > 0
                /\ so' = [r \in S |-> Scheduled(r, from[r])]
                /\ drafted' = [r \in S |->
                     Max({0, from[r] + so'[r] - Expected(r)})]
                /\ computed' = from
          /\ status' = [r \in Req |-> IF r \in S THEN "running"
                                      ELSE IF r \in P THEN "preempted"
                                      ELSE status[r]]
    BY Zenon DEF Schedule
  <1>1. PICK from :
            /\ from = [r \in Req |-> IF r \in P THEN 0 ELSE computed[r]]
            /\ \A r \in S : Scheduled(r, from[r]) > 0
            /\ so' = [r \in S |-> Scheduled(r, from[r])]
            /\ computed' = from
            /\ status' = [r \in Req |-> IF r \in S THEN "running"
                                        ELSE IF r \in P THEN "preempted"
                                        ELSE status[r]]
    BY <1>0
  <1>2. /\ UNCHANGED <<config, received, inflight, queue, batch, row, num,
                       output, pre, state, burst>>
        /\ pc = "schedule" /\ pc' = "execute"
        /\ Len(queue) <= IF Async THEN 1 ELSE 0
    BY DEF Schedule, hostVars
  <1>3. Shape /\ Outputs /\ Phases
    BY DEF LInv
  <1>4. \A r \in Req : status'[r] = "finished" <=> status[r] = "finished"
    BY <1>1
  <1>5. state = <<>> /\ burst = <<>>
    BY <1>2, <1>3 DEF Phases
  <1>6. RowsRight'
    BY <1>2, RowsStay DEF VInv
  <1>7. ReceivedRight' /\ QueueRight'
    BY <1>2, <1>4 DEF VInv, ReceivedRight, QueueRight, Known
  <1>8. PreRight'
    <2>1. \A r \in Req : r \in DOMAIN so' => computed'[r] = computed[r]
      BY <1>0, <1>1
    <2>2. \A r \in ToSet(batch) : r \in Req
      BY <1>3, BatchFacts DEF Shape
    <2> QED
      BY <1>2, <2>1, <2>2 DEF VInv, PreRight
  <1>9. StateRight'
    BY <1>2, <1>5 DEF StateRight
  <1>10. BurstRight'
    <2>1. ~ Async => queue = <<>>
      <3>1. IsSeq(queue)
        BY <1>3 DEF Outputs
      <3> QED
        BY <1>2, <3>1, SeqFacts
    <2> QED
      BY <1>2, <1>5, <2>1 DEF BurstRight, Async, Mode
  <1>11. StepsRight'
    <2>1. MaxLen \in Nat \ {0}
      BY <1>3, ConfigFacts DEF MaxLen
    <2>2. \A r \in Req : computed'[r] \in 0 .. MaxLen - 1
      BY <1>1, <2>1 DEF VInv, StepsRight
    <2>3. ASSUME NEW r \in DOMAIN so'
          PROVE  /\ Known(r) <= MaxLen
                 /\ so'[r] \in 1 .. Chunk
                 /\ computed'[r] + so'[r] <= MaxLen - 1
                 /\ computed'[r] + so'[r] <= Target(r)
                 /\ ~ Async => \/ so'[r] = Chunk
                               \/ computed'[r] + so'[r] = Target(r)
      <3>1. r \in S /\ r \in Req /\ status[r] # "finished"
        BY <1>1, <2>3
      <3>2. PICK c \in Int : c = computed'[r]
        BY <2>2, <3>1
      <3>3. so'[r] = Scheduled(r, c) /\ Scheduled(r, c) > 0
        BY <1>1, <3>1, <3>2
      <3>4. /\ Scheduled(r, c) \in Int /\ Scheduled(r, c) <= Chunk
            /\ c + Scheduled(r, c) <= MaxLen - 1
            /\ c + Scheduled(r, c) <= Expected(r)
            /\ Expected(r) <= MaxLen - 1 =>
                 Scheduled(r, c) = Chunk \/ c + Scheduled(r, c) = Expected(r)
        BY <1>3, <3>1, ScheduledIs DEF Plain
      <3>5. /\ Expected(r) = Target(r)
            /\ ~ Async => Expected(r) <= MaxLen - 1
        BY <1>2, <3>1, ExpectedIs DEF VInv
      <3>6. Chunk \in Nat
        BY <1>3, ConfigFacts DEF Chunk
      <3>7. Known(r) <= MaxLen
        <4>1. Known(r) < MaxLen /\ Known(r) \in Nat
          BY <1>3, <3>1, ConfigFacts DEF LInv, Lengths
        <4> QED
          BY <2>1, <4>1
      <3> QED
        BY <3>2, <3>3, <3>4, <3>5, <3>6, <3>7
    <2>4. ~ Async => \A r \in Req : inflight[r] = 0
      BY DEF VInv, StepsRight
    <2>5. \A r : Target(r)' = Target(r)
      BY <1>2 DEF Target, Known
    <2> QED
      BY <1>2, <2>2, <2>3, <2>4, <2>5
         DEF StepsRight, Async, Mode, MaxLen, Chunk, Known
  <1> QED
    BY <1>6, <1>7, <1>8, <1>9, <1>10, <1>11 DEF VInv

\* A burst's tokens continue what the scheduler has.
LEMMA SampleBurstRight ==
  ASSUME LInv, VInv, SampleBurst
  PROVE  VInv'
  <1>0. Shape /\ Outputs /\ Phases /\ Lengths
    BY DEF LInv
  <1>1. PICK z : z = burst[1]
    OBVIOUS
  <1>2. /\ burst # <<>> /\ burst' = <<>> /\ queue' = Append(queue, z)
        /\ pc = "sample" /\ pc' = "schedule"
        /\ UNCHANGED <<config, status, received, computed, inflight, so,
                       drafted, batch, row, num, output, pre, state>>
    BY <1>1 DEF SampleBurst, schedulerVars, stepVars, hostVars
  <1>3. ~ Async /\ IsOutput(config, z) /\ state = <<>> /\ pre = <<>>
    BY <1>0, <1>1, <1>2 DEF Phases
  <1>4. queue = <<>>
    <2>1. HasRoom(config, queue)
      BY <1>0, <1>2, RoomInQueue
    <2> QED
      BY <1>3, <2>1 DEF HasRoom, Async, Mode
  <1>5. queue' = <<z>> /\ queue'[1] = z /\ Len(queue') = 1
    BY <1>2, <1>4, ShortQueues
  <1>6. RowsRight'
    BY <1>2, RowsStay DEF VInv
  <1>7. ReceivedRight'
    BY <1>2 DEF VInv, ReceivedRight
  <1>8. /\ IsLast(z)
        /\ \A r \in ToSet(batch) : Continues(TokensFor(z, r), r,
                                     num[r] - Len(TokensFor(z, r)))
    BY <1>1, <1>2 DEF VInv, BurstRight
  <1>9. QueueRight'
    <2>1. ASSUME NEW r \in Req, status[r] # "finished"
          PROVE  Continues(TokensFor(z, r), r, Known(r))
      <3>1. CASE TokensFor(z, r) = <<>>
        BY <3>1, ShortQueues DEF Continues
      <3>2. CASE TokensFor(z, r) # <<>>
        <4>1. r \in ToSet(batch)
          BY <1>8, <3>2 DEF IsLast
        <4>2. PICK l \in Nat : l = Len(TokensFor(z, r))
          BY <1>3, OutputFacts
        <4>3. Lag(config, queue, r) = 0
          BY <1>4, LagIs
        <4>4. InBurst(burst, r) = l
          BY <1>1, <1>2, <4>2 DEF InBurst
        <4>5. num[r] = Known(r) + Lag(config, queue, r) + InBurst(burst, r)
          BY <1>0, <2>1, <4>1 DEF Lengths
        <4>6. Known(r) \in Nat
          BY <1>0, ConfigFacts
        <4>7. num[r] - l = Known(r)
          BY <4>3, <4>4, <4>5, <4>6
        <4> QED
          BY <1>8, <4>1, <4>2, <4>7
      <3> QED
        BY <3>1, <3>2
    <2> QED
      BY <1>2, <1>5, <2>1 DEF QueueRight, Known
  <1>10. PreRight' /\ StateRight'
    BY <1>2, <1>3 DEF PreRight, StateRight
  <1>11. BurstRight'
    BY <1>2, <1>5, <1>8 DEF BurstRight, IsLast
  <1>12. StepsRight'
    BY <1>2 DEF VInv, StepsRight, Async, Mode, MaxLen
  <1> QED
    BY <1>6, <1>7, <1>9, <1>10, <1>11, <1>12 DEF VInv

\* A step for nobody has no tokens.
LEMMA ExecuteEmptyRight ==
  ASSUME LInv, VInv, ExecuteEmpty
  PROVE  VInv'
  <1>0. Shape /\ Outputs /\ Phases
    BY DEF LInv
  <1>1. PICK z : z = Output(<<>>, <<>>, {})
    OBVIOUS
  <1>2. /\ batch' = <<>> /\ pre' = <<>> /\ queue' = Append(queue, z)
        /\ pc = "execute" /\ pc' = "schedule"
        /\ UNCHANGED <<config, status, received, computed, inflight, so,
                       drafted, state, burst>>
    BY <1>1 DEF ExecuteEmpty, stepVars
  <1>3. /\ z.batch = <<>> /\ IsBatch(z.batch)
        /\ \A r : TokensFor(z, r) = <<>>
    BY <1>1, NoBatch, TokensForIs DEF Output
  <1>4. HasRoom(config, queue)
    BY <1>0, <1>2, RoomInQueue
  <1>5. \/ queue = <<>> /\ queue' = <<z>> /\ queue'[1] = z
                        /\ Len(queue') = 1
        \/ /\ config.mode = "async" /\ queue # <<>>
           /\ queue'[1] = queue[1] /\ queue'[2] = z
    <2>1. CASE queue = <<>>
      BY <1>2, <2>1, ShortQueues
    <2>2. CASE queue # <<>>
      <3>1. PICK x : queue = <<x>>
        BY <1>4, <2>2, QueueIs, ShortQueues DEF HasRoom
      <3>2. queue' = <<x, z>>
        BY <1>2, <3>1, ShortQueues
      <3> QED
        BY <1>4, <2>2, <3>1, <3>2, ShortQueues DEF HasRoom
    <2> QED
      BY <2>1, <2>2
  <1>6. RowsRight'
    BY <1>2, NoBatch DEF RowsRight
  <1>7. ReceivedRight'
    BY <1>2 DEF VInv, ReceivedRight
  <1>8. QueueRight'
    <2>1. \A r, p : Continues(TokensFor(z, r), r, p)
      BY <1>3, ShortQueues DEF Continues
    <2> QED
      BY <1>2, <1>5, <2>1 DEF VInv, QueueRight, Known
  <1>9. PreRight' /\ StateRight'
    BY <1>0, <1>2 DEF PreRight, StateRight, Phases
  <1>10. BurstRight'
    BY <1>0, <1>2, <1>3, <1>5 DEF BurstRight, IsLast, Async, Mode, Phases
  <1>11. StepsRight'
    BY <1>2 DEF VInv, StepsRight, Async, Mode, MaxLen
  <1> QED
    BY <1>6, <1>7, <1>8, <1>9, <1>10, <1>11 DEF VInv

\* Initially there are no tokens but those of the prompts.
LEMMA InitRight ==
  ASSUME Init
  PROVE  VInv
  <1> USE DEF Init
  <1>1. MaxLen \in Nat \ {0}
    BY InitLInv, ConfigFacts DEF LInv, MaxLen
  <1>2. RowsRight
    BY NoBatch DEF RowsRight
  <1>3. ReceivedRight
    BY ShortQueues DEF ReceivedRight, Continues
  <1>4. QueueRight
    BY ShortQueues DEF QueueRight
  <1>5. PreRight /\ StateRight /\ BurstRight
    BY DEF PreRight, StateRight, BurstRight
  <1>6. StepsRight
    BY <1>1 DEF StepsRight
  <1> QED
    BY <1>2, <1>3, <1>4, <1>5, <1>6 DEF VInv

\* Tokens that continue others make up one row of tokens.
LEMMA ContinuesConcat ==
  ASSUME NEW s, NEW t, IsSeq(s), IsSeq(t), NEW r, NEW p \in Nat,
         Continues(s, r, p), Continues(t, r, p + Len(s))
  PROVE  Continues(s \o t, r, p)
  <1>1. PICK n \in Nat, l \in Nat : n = Len(s) /\ l = Len(t)
    BY SeqFacts
  <1>2. DOMAIN s = 1 .. n /\ DOMAIN t = 1 .. l
    BY <1>1, SeqFacts
  <1>3. PICK u : u = s \o t
    OBVIOUS
  <1>4. IsSeq(u) /\ Len(u) = n + l
    BY <1>1, <1>3, ConcatIsSeq
  <1>5. DOMAIN u = 1 .. n + l
    BY <1>4, SeqFacts
  <1>6. /\ \A k \in 1 .. n : u[k] = s[k]
        /\ \A k \in 1 .. l : u[n + k] = t[k]
    BY <1>1, <1>3, ConcatAt
  <1>7. ASSUME NEW k \in 1 .. n + l
        PROVE  u[k] = <<r, p + k - 1>>
    <2>1. CASE k <= n
      <3>1. k \in 1 .. n
        BY <2>1
      <3> QED
        BY <1>2, <1>6, <3>1 DEF Continues
    <2>2. CASE k > n
      <3>1. PICK i \in 1 .. l : i = k - n
        BY <2>2
      <3>2. n + i = k /\ p + n + i - 1 = p + k - 1
        BY <3>1
      <3>3. t[i] = <<r, p + n + i - 1>>
        BY <1>1, <1>2 DEF Continues
      <3> QED
        BY <1>6, <3>2, <3>3
    <2> QED
      BY <2>1, <2>2
  <1> QED
    BY <1>3, <1>5, <1>7 DEF Continues

\* The scheduler takes the tokens that come next; without drafts it has
\* counted them as computed, if it runs ahead.
LEMMA DeliverRight ==
  ASSUME LInv, Plain, VInv, Deliver
  PROVE  VInv'
  <1>0. Shape /\ Outputs /\ Phases /\ config.drafts = 0
    BY DEF LInv, Plain, Drafts
  <1>1. PICK out, tokens, got, stopped : Delivery(out, tokens, got, stopped)
    BY DeliverIs
  <1>2. /\ out = Head(queue)
        /\ tokens = [r \in Req |->
             IF r \in ToSet(out.batch) /\ status[r] # "finished"
             THEN out.tokens[CHOOSE i \in DOMAIN out.batch : out.batch[i] = r]
             ELSE <<>>]
        /\ got = {r \in Req : tokens[r] # <<>>}
        /\ received' = [r \in Req |-> received[r] \o tokens[r]]
        /\ inflight' = [r \in Req |->
             IF Async /\ r \in got THEN inflight[r] - 1 - out.drafted[r]
             ELSE inflight[r]]
        /\ computed' = [r \in Req |->
             IF r \in got /\ computed[r] > 0
             THEN computed[r] + Len(tokens[r]) - 1 - out.drafted[r]
             ELSE computed[r]]
        /\ status' = [r \in Req |-> IF r \in stopped THEN "finished"
                                    ELSE status[r]]
    BY <1>1, Zenon DEF Delivery
  <1>3. /\ queue # <<>> /\ queue' = Tail(queue)
        /\ UNCHANGED <<config, so, drafted, pc, batch, row, num, output, pre,
                       state, burst>>
    BY DEF Deliver, hostVars, stepVars
  <1>4. \/ queue = <<out>> /\ queue' = <<>>
        \/ \E y : queue = <<out, y>> /\ queue' = <<y>>
    <2>1. (\E x : queue = <<x>>) \/ (\E x, y : queue = <<x, y>>)
      BY <1>0, <1>3, QueueIs DEF Outputs
    <2>2. ASSUME NEW x, queue = <<x>> PROVE queue = <<out>> /\ queue' = <<>>
      BY <1>2, <1>3, <2>2, ShortQueues
    <2>3. ASSUME NEW x, NEW y, queue = <<x, y>>
          PROVE  queue = <<out, y>> /\ queue' = <<y>>
      BY <1>2, <1>3, <2>3, ShortQueues
    <2> QED
      BY <2>1, <2>2, <2>3
  <1>5. IsOutput(config, out) /\ queue[1] = out
    BY <1>0, <1>4, ShortQueues DEF Outputs
  <1>6. ASSUME NEW r \in Req
        PROVE  /\ IsSeq(tokens[r])
               /\ status[r] # "finished" => tokens[r] = TokensFor(out, r)
               /\ r \in got => /\ status[r] # "finished"
                               /\ r \in ToSet(out.batch)
                               /\ out.drafted[r] = 0
                               /\ Len(tokens[r]) \in Nat \ {0}
               /\ r \notin got => tokens[r] = <<>>
    <2>1. CASE r \in ToSet(out.batch) /\ status[r] # "finished"
      <3>1. tokens[r] = TokensFor(out, r)
        BY <1>2, <2>1 DEF TokensFor
      <3>2. IsDrafted(config, out.drafted, ToSet(out.batch))
        BY <1>5 DEF IsOutput
      <3>3. out.drafted[r] = 0
        BY <1>0, <2>1, <3>2 DEF IsDrafted
      <3>4. IsSeq(tokens[r])
        BY <1>5, <3>1, OutputFacts
      <3>5. r \in got <=> tokens[r] # <<>>
        BY <1>2
      <3>6. tokens[r] # <<>> => Len(tokens[r]) \in Nat \ {0}
        BY <3>4, SeqFacts
      <3> QED
        BY <2>1, <3>1, <3>3, <3>4, <3>5, <3>6
    <2>2. CASE ~ (r \in ToSet(out.batch) /\ status[r] # "finished")
      <3>1. tokens[r] = <<>> /\ r \notin got
        BY <1>2, <2>2
      <3>2. status[r] # "finished" => TokensFor(out, r) = <<>>
        BY <2>2 DEF TokensFor
      <3> QED
        BY <3>1, <3>2, EmptyIsSeq
    <2> QED
      BY <2>1, <2>2
  <1>7. \A r \in Req : status'[r] # "finished" => status[r] # "finished"
    BY <1>2
  <1>8. \A r \in Req : Known(r) \in Nat /\ IsSeq(received[r])
                       /\ Prompt[r] \in Nat /\ Len(received[r]) \in Nat
    BY <1>0, ConfigFacts DEF Shape
  <1>9. RowsRight'
    BY <1>3, RowsStay DEF VInv
  <1>10. ReceivedRight'
    <2>1. ASSUME NEW r \in Req
          PROVE  Continues(received'[r], r, Prompt[r])
      <3>1. Continues(received[r], r, Prompt[r])
        BY DEF VInv, ReceivedRight
      <3>2. received'[r] = received[r] \o tokens[r]
        BY <1>2
      <3>3. CASE r \in got
        <4>1. Continues(tokens[r], r, Known(r))
          BY <1>3, <1>5, <1>6, <3>3 DEF VInv, QueueRight
        <4> QED
          BY <1>6, <1>8, <3>1, <3>2, <4>1, ContinuesConcat DEF Known
      <3>4. CASE r \notin got
        BY <1>6, <1>8, <3>1, <3>2, <3>4, ConcatEmpty
      <3> QED
        BY <3>3, <3>4
    <2> QED
      BY <2>1 DEF ReceivedRight
  <1>11. QueueRight'
    <2>1. ASSUME NEW y, queue = <<out, y>>, queue' = <<y>>,
                 NEW r \in Req, status'[r] # "finished"
          PROVE  Continues(TokensFor(y, r), r, Prompt[r] + Len(received'[r]))
      <3>1. status[r] # "finished" /\ tokens[r] = TokensFor(out, r)
        BY <1>6, <1>7, <2>1
      <3>2. Len(queue) = 2 /\ queue[2] = y
        BY <2>1, ShortQueues
      <3>3. Continues(TokensFor(y, r), r, Known(r) + Len(TokensFor(out, r)))
        BY <1>5, <3>1, <3>2 DEF VInv, QueueRight
      <3>4. Len(received'[r]) = Len(received[r]) + Len(tokens[r])
        BY <1>2, <1>6, <1>8, ConcatIsSeq
      <3>5. Len(tokens[r]) \in Nat
        BY <1>6, SeqFacts
      <3>6. Known(r) + Len(tokens[r]) = Prompt[r] + Len(received'[r])
        <4>1. PICK a \in Nat, n \in Nat, l \in Nat :
                a = Prompt[r] /\ n = Len(received[r]) /\ l = Len(tokens[r])
          BY <1>8, <3>5
        <4>2. Known(r) = a + n /\ Len(received'[r]) = n + l
          BY <3>4, <4>1 DEF Known
        <4>3. (a + n) + l = a + (n + l)
          OBVIOUS
        <4> QED
          BY <4>1, <4>2, <4>3
      <3> QED
        BY <3>1, <3>3, <3>6
    <2> QED
      BY <1>4, <2>1, ShortQueues DEF QueueRight, Known
  <1>12. ~ Async => /\ pc = "schedule" /\ state = <<>> /\ burst = <<>>
                    /\ pre = <<>> /\ queue = <<out>> /\ queue' = <<>>
    <2> SUFFICES ASSUME ~ Async
                 PROVE  /\ pc = "schedule" /\ state = <<>> /\ burst = <<>>
                        /\ pre = <<>> /\ queue = <<out>> /\ queue' = <<>>
      OBVIOUS
    <2>1. ~ (\E y : queue = <<out, y>>)
      BY <1>0, ShortQueues DEF Outputs
    <2>2. pc = "schedule"
      BY <1>0, <1>4, <2>1, ShortQueues DEF Outputs
    <2> QED
      BY <1>0, <1>4, <2>1, <2>2 DEF Phases
  <1>13. MaxLen \in Nat \ {0} /\ \A r \in Req : computed[r] \in 0 .. MaxLen - 1
    BY <1>0, ConfigFacts DEF VInv, StepsRight, MaxLen
  <1>14. Async => \A r \in Req : computed'[r] = computed[r]
    <2> SUFFICES ASSUME Async, NEW r \in Req, r \in got, computed[r] > 0
                 PROVE  computed'[r] = computed[r]
      BY <1>2
    <2>1. tokens[r] = TokensFor(out, r) /\ tokens[r] # <<>>
      BY <1>2, <1>6
    <2>2. Len(tokens[r]) = 1
      <3>1. config.mode = "async"
        BY DEF Async, Mode
      <3>2. Owed(out, r) = Len(TokensFor(out, r))
        BY <1>0, <1>5, <3>1, OutputFacts
      <3>3. Owed(out, r) = 1
        BY <1>6, <2>1 DEF Owed
      <3> QED
        BY <2>1, <3>2, <3>3
    <2>3. out.drafted[r] = 0
      BY <1>6
    <2>4. computed'[r] = computed[r] + Len(tokens[r]) - 1 - out.drafted[r]
      BY <1>2
    <2> QED
      BY <1>13, <2>2, <2>3, <2>4
  <1>15. \A r \in Req : computed'[r] \in 0 .. MaxLen - 1
    <2>1. ASSUME ~ Async, NEW r \in Req, r \in got, computed[r] > 0
          PROVE  computed'[r] \in 0 .. MaxLen - 1
      <3>1. /\ computed'[r] = computed[r] + Len(tokens[r]) - 1
                                - out.drafted[r]
            /\ out.drafted[r] = 0 /\ Len(tokens[r]) \in Nat \ {0}
            /\ tokens[r] = TokensFor(out, r) /\ tokens[r] # <<>>
        BY <1>2, <1>6, <2>1
      <3>2. /\ r \in ToSet(batch)
            /\ computed[r] = num[r] - Len(TokensFor(out, r))
        BY <1>3, <1>5, <2>1, <3>1 DEF VInv, BurstRight, IsLast
      <3>3. num[r] <= MaxLen /\ num[r] \in Int
        BY <1>0, <3>2, ConfigFacts DEF VInv, RowsRight
      <3> QED
        BY <1>13, <2>1, <3>1, <3>2, <3>3
    <2>2. ASSUME NEW r \in Req, ~ (r \in got /\ computed[r] > 0)
          PROVE  computed'[r] \in 0 .. MaxLen - 1
      BY <1>2, <1>13, <2>2
    <2> QED
      BY <1>13, <1>14, <2>1, <2>2
  <1>16. PreRight'
    <2>1. CASE Async
      <3>1. \A r \in ToSet(batch) : r \in Req
        BY <1>0, BatchFacts DEF Shape
      <3> QED
        BY <1>3, <1>14, <2>1, <3>1 DEF VInv, PreRight
    <2>2. CASE ~ Async
      BY <1>3, <1>12, <2>2 DEF PreRight
    <2> QED
      BY <2>1, <2>2
  <1>17. StateRight'
    <2>1. CASE Async
      <3>1. \A i \in DOMAIN batch : batch[i] \in Req
        BY <1>0, BatchFacts DEF Shape
      <3> QED
        BY <1>3, <1>14, <2>1, <3>1 DEF VInv, StateRight
    <2>2. CASE ~ Async
      BY <1>3, <1>12, <2>2 DEF StateRight
    <2> QED
      BY <2>1, <2>2
  <1>18. BurstRight'
    BY <1>0, <1>3, <1>12 DEF BurstRight, Async, Mode, Phases
  <1>19. ASSUME pc = "execute", NEW r \in Req
         PROVE  Target(r)' = Target(r)
    <2>1. CASE r \in ToSet(batch)
      BY <1>3, <2>1 DEF Target
    <2>2. CASE r \notin ToSet(batch)
      <3>1. HasRoom(config, queue)
        BY <1>0, <1>19, RoomInQueue
      <3>2. Lag(config, queue, r) = 0
        BY <1>19, <2>2, <3>1, NothingQueued
      <3>3. Async /\ config.mode = "async"
        BY <1>12, <1>19 DEF Async, Mode
      <3>4. queue = <<out>>
        BY <1>4, <3>1, ShortQueues DEF HasRoom
      <3>5. Owed(out, r) = 0
        BY <3>2, <3>3, <3>4, LagIs
      <3>6. Owed(out, r) = Len(TokensFor(out, r)) /\ IsSeq(TokensFor(out, r))
        BY <1>0, <1>5, <3>3, OutputFacts
      <3>7. TokensFor(out, r) = <<>>
        BY <3>5, <3>6, SeqFacts
      <3>8. tokens[r] = <<>>
        BY <1>6, <3>7
      <3>9. received'[r] = received[r]
        BY <1>2, <1>8, <3>8, ConcatEmpty
      <3> QED
        BY <1>3, <3>9 DEF Target, Known
    <2> QED
      BY <2>1, <2>2
  <1>20. StepsRight'
    <2>1. ~ Async => \A r \in Req : inflight'[r] = 0
      BY <1>2 DEF VInv, StepsRight
    <2>2. ASSUME pc = "execute", NEW r \in DOMAIN so
          PROVE  /\ Prompt[r] + Len(received'[r]) <= MaxLen
                 /\ so[r] \in 1 .. Chunk
                 /\ computed'[r] + so[r] <= MaxLen - 1
                 /\ computed'[r] + so[r] <= Target(r)'
                 /\ ~ Async => so[r] = Chunk
                               \/ computed'[r] + so[r] = Target(r)'
      <3>1. r \in Req
        BY <1>0 DEF Shape
      <3>2. computed'[r] = computed[r] /\ Async
        BY <1>12, <1>14, <2>2, <3>1
      <3>3. Target(r)' = Target(r)
        BY <1>19, <2>2, <3>1
      <3>4. Prompt[r] + Len(received'[r]) <= MaxLen
        <4>1. CASE r \notin got
          <5>1. received'[r] = received[r]
            <6>1. received'[r] = received[r] \o tokens[r]
              BY <1>2, <3>1
            <6>2. tokens[r] = <<>> /\ IsSeq(received[r])
              BY <1>6, <1>8, <3>1, <4>1
            <6> QED
              BY <6>1, <6>2, ConcatEmpty
          <5> QED
            BY <2>2, <5>1 DEF VInv, StepsRight, Known
        <4>2. CASE r \in got
          <5>1. /\ Len(received'[r]) = Len(received[r]) + Len(tokens[r])
                /\ status[r] # "finished"
            BY <1>2, <1>6, <1>8, <3>1, <4>2, ConcatIsSeq
          <5>2. Len(tokens[r]) = 1
            <6>1. config.mode = "async"
              BY <3>2 DEF Async, Mode
            <6>2. Owed(out, r) = Len(TokensFor(out, r))
              BY <1>0, <1>5, <6>1, OutputFacts
            <6>3. tokens[r] = TokensFor(out, r) /\ tokens[r] # <<>>
                  /\ out.drafted[r] = 0
              BY <1>2, <1>6, <3>1, <4>2
            <6>4. Owed(out, r) = 1
              BY <6>3 DEF Owed
            <6> QED
              BY <6>2, <6>3, <6>4
          <5>3. Known(r) < MaxLen
            BY <3>1, <5>1 DEF LInv, Lengths
          <5>4. PICK a \in Nat, n \in Nat :
                  a = Prompt[r] /\ n = Len(received[r])
            BY <1>8, <3>1
          <5>5. Known(r) = a + n /\ Len(received'[r]) = n + 1
            BY <5>1, <5>2, <5>4 DEF Known
          <5>6. a + n < MaxLen => a + (n + 1) <= MaxLen
            BY <1>13
          <5> QED
            BY <5>3, <5>4, <5>5, <5>6
        <4> QED
          BY <4>1, <4>2
      <3> QED
        BY <2>2, <3>2, <3>3, <3>4 DEF VInv, StepsRight
    <2>3. ASSUME pc = "sample", state # <<>>, NEW r \in ToSet(batch)
          PROVE  computed'[r] <= num[r]
      <3>1. r \in Req
        BY <1>0, BatchFacts DEF Shape
      <3>2. computed'[r] = computed[r]
        BY <1>12, <1>14, <2>3, <3>1
      <3> QED
        BY <2>3, <3>2 DEF VInv, StepsRight
    <2> QED
      BY <1>3, <1>15, <2>1, <2>2, <2>3
         DEF StepsRight, Async, Mode, MaxLen, Chunk, Known
  <1> QED
    BY <1>9, <1>10, <1>11, <1>16, <1>17, <1>18, <1>20 DEF VInv

\* The row of a request that enters the batch has what the scheduler has
\* received; the others keep theirs.
LEMMA EnteredHolds ==
  ASSUME Shape, RowsRight, ReceivedRight, NEW b, NEW h, h = Entered(b),
         NEW r \in ToSet(b), r \in Req
  PROVE  /\ r \in ToSet(batch) => Holds(h, r, Filled(r))
         /\ r \notin ToSet(batch) /\ Known(r) <= MaxLen =>
              Holds(h, r, Known(r))
  <1> DEFINE known(q) == [p \in 0 .. MaxLen - 1 |->
               IF p < Prompt[q] THEN <<q, p>>
               ELSE IF p < Known(q) THEN received[q][p - Prompt[q] + 1]
               ELSE Zero]
  <1>1. /\ h.row = [q \in Req |->
              IF q \in ToSet(b) \ ToSet(batch) THEN known(q)
              ELSE IF q \in ToSet(b) THEN row[q]
              ELSE [p \in 0 .. MaxLen - 1 |-> Zero]]
        /\ h.output = [q \in Req |->
              IF q \in ToSet(b) \ ToSet(batch) THEN received[q]
              ELSE IF q \in ToSet(b) THEN output[q] ELSE <<>>]
    BY Zenon DEF Entered
  <1> HIDE DEF known
  <1>2. CASE r \in ToSet(batch)
    <2>1. h.row[r] = row[r] /\ h.output[r] = output[r]
      BY <1>1, <1>2
    <2>2. Holds(Host, r, Filled(r))
      BY <1>2 DEF RowsRight
    <2> QED
      BY <1>2, <2>1, <2>2 DEF Holds, Host
  <1>3. CASE r \notin ToSet(batch)
    <2> SUFFICES ASSUME Known(r) <= MaxLen PROVE Holds(h, r, Known(r))
      BY <1>3
    <2>1. h.row[r] = known(r) /\ h.output[r] = received[r]
      BY <1>1, <1>3
    <2>2. PICK a \in Nat, n \in Nat : a = Prompt[r] /\ n = Len(received[r])
      BY ConfigFacts
    <2>3. PICK m \in Nat : m = Known(r) /\ m = a + n
      BY <2>2 DEF Known
    <2>4. MaxLen \in Nat
      BY ConfigFacts DEF MaxLen
    <2>5. \A k \in 1 .. n : received[r][k] = <<r, a + k - 1>>
      <3>1. DOMAIN received[r] = 1 .. n
        BY <2>2, SeqFacts DEF Shape
      <3> QED
        BY <2>2, <3>1 DEF ReceivedRight, Continues
    <2>6. ASSUME NEW p \in 0 .. m - 1
          PROVE  h.row[r][p] = <<r, p>>
      <3>1. p \in 0 .. MaxLen - 1
        BY <2>3, <2>4
      <3>2. known(r)[p] = IF p < a THEN <<r, p>>
                          ELSE IF p < m THEN received[r][p - a + 1] ELSE Zero
        BY <2>2, <2>3, <3>1 DEF known
      <3>3. CASE p < a
        BY <2>1, <3>2, <3>3
      <3>4. CASE p >= a
        <4>1. PICK k \in 1 .. n : k = p - a + 1
          BY <2>3, <3>4
        <4>2. a + k - 1 = p /\ ~ (p < a) /\ p < m
          BY <3>4, <4>1
        <4> QED
          BY <2>1, <2>5, <3>2, <4>1, <4>2
      <3> QED
        BY <3>3, <3>4
    <2>7. ASSUME NEW k \in 1 .. m - a
          PROVE  h.output[r][k] = <<r, a + k - 1>>
      BY <2>1, <2>3, <2>5
    <2>8. Holds(h, r, m)
      BY <2>2, <2>6, <2>7 DEF Holds
    <2> QED
      BY <2>3, <2>8
  <1> QED
    BY <1>2, <1>3

\* A request of a step: its tokens are right up to those of the step before,
\* and the step computes some of them.
LEMMA EnteredRequest ==
  ASSUME LInv, Plain, VInv, pc = "execute", NEW b \in SetToSeqs(DOMAIN so),
         NEW h, h = Entered(b), NEW r \in ToSet(b)
  PROVE  /\ r \in Req /\ r \in DOMAIN so
         /\ h.num[r] = Target(r) /\ h.num[r] \in Nat /\ h.num[r] <= MaxLen
         /\ h.num[r] = Prompt[r] + Len(h.output[r])
         /\ so[r] \in 1 .. Chunk /\ computed[r] \in Nat
         /\ computed[r] + so[r] <= h.num[r]
         /\ Pending(r) =>
              /\ r \in ToSet(batch) /\ num[r] = h.num[r] /\ so[r] = 1
              /\ computed[r] = h.num[r] - 1 /\ computed[r] >= Prompt[r]
              /\ Holds(h, r, h.num[r] - 1)
         /\ ~ Pending(r) => Holds(h, r, h.num[r])
  <1>0. Shape /\ Outputs /\ Phases /\ Previous /\ Lengths
    BY DEF LInv
  <1>1. /\ r \in Req /\ r \in DOMAIN so
        /\ h.num[r] = Prompt[r] + Len(h.output[r])
    BY EnteredLengths
  <1>2. IF r \in ToSet(batch)
        THEN h.num[r] = num[r] /\ h.output[r] = output[r]
        ELSE h.num[r] = Known(r) /\ h.output[r] = received[r]
    BY <1>0, <1>1, EnteredFacts
  <1>3. h.num[r] = Target(r)
    BY <1>2 DEF Target
  <1>4. /\ Known(r) <= MaxLen /\ so[r] \in 1 .. Chunk
        /\ computed[r] + so[r] <= Target(r) /\ computed[r] \in 0 .. MaxLen - 1
    BY <1>1 DEF VInv, StepsRight
  <1>5. /\ Prompt[r] \in Nat /\ Len(output[r]) \in Nat
        /\ Len(received[r]) \in Nat
    BY <1>0, <1>1, ConfigFacts
  <1>6. h.num[r] \in Nat
    BY <1>1, <1>2, <1>5
  <1>7. h.num[r] <= MaxLen
    BY <1>2, <1>4 DEF VInv, RowsRight
  <1>8. /\ r \in ToSet(batch) => Holds(h, r, Filled(r))
        /\ r \notin ToSet(batch) => Holds(h, r, Known(r))
    BY <1>0, <1>1, <1>4, EnteredHolds DEF VInv
  <1>9. ASSUME Pending(r)
        PROVE  /\ r \in ToSet(batch) /\ num[r] = h.num[r] /\ so[r] = 1
               /\ computed[r] = h.num[r] - 1 /\ computed[r] >= Prompt[r]
               /\ Holds(h, r, h.num[r] - 1)
    <2>1. PICK p : p = pre[1]
      OBVIOUS
    <2>2. PICK k \in p.counted : pre # <<>> /\ p.batch[k] = r
      BY <1>9, <2>1 DEF Pending
    <2>3. IsPrevious(p)
      BY <1>0, <2>1, <2>2 DEF Previous
    <2>4. IsResult(config, p) /\ batch = p.batch
      BY <2>3 DEF IsPrevious
    <2>5. r \in ToSet(batch)
      BY <2>2, <2>4, BatchFacts DEF IsResult
    <2>6. computed[r] >= num[r] - 1
      BY <1>1, <2>1, <2>2, <2>5 DEF VInv, PreRight
    <2>7. Len(output[r]) >= 1
      <3>1. Len(output[r]) >= PlaceholdersOf(p, r)
        BY <2>2, <2>3, <2>5 DEF IsPrevious
      <3>2. /\ PlaceholdersOf(p, r) = 1 + p.drafted[r]
            /\ PlaceholdersOf(p, r) \in Nat
        BY <2>2, <2>4, ResultFacts
      <3>3. p.drafted[r] \in Nat
        <4>1. IsDrafted(config, p.drafted, ToSet(batch))
          BY <2>4 DEF IsResult
        <4> QED
          BY <2>5, <4>1 DEF IsDrafted
      <3> QED
        BY <1>5, <3>1, <3>2, <3>3
    <2>8. PICK n \in Nat : n = num[r] /\ n = h.num[r]
                           /\ n = Prompt[r] + Len(output[r])
      BY <1>1, <1>2, <1>6, <2>5
    <2>9. so[r] \in Nat /\ so[r] >= 1 /\ computed[r] + so[r] <= n
          /\ computed[r] \in Nat /\ computed[r] >= n - 1
      <3>1. Chunk \in Nat
        BY <1>0, ConfigFacts DEF Chunk
      <3> QED
        BY <1>3, <1>4, <2>6, <2>8, <3>1
    <2>10. so[r] = 1 /\ computed[r] = n - 1
      BY <2>9
    <2>11. Filled(r) = n - 1
      BY <1>9, <2>8 DEF Filled
    <2>12. computed[r] >= Prompt[r]
      BY <1>5, <2>7, <2>8, <2>10
    <2> QED
      BY <1>8, <2>5, <2>8, <2>10, <2>11, <2>12
  <1>10. ASSUME ~ Pending(r)
         PROVE  Holds(h, r, h.num[r])
    <2>1. CASE r \in ToSet(batch)
      <3>1. Filled(r) = h.num[r]
        BY <1>2, <1>6, <1>10, <2>1 DEF Filled
      <3> QED
        BY <1>8, <2>1, <3>1
    <2>2. CASE r \notin ToSet(batch)
      BY <1>2, <1>8, <2>2
    <2> QED
      BY <2>1, <2>2
  <1>11. computed[r] \in Nat
    BY <1>4
  <1> QED
    BY <1>1, <1>3, <1>4, <1>6, <1>7, <1>9, <1>10, <1>11

\* A step is fed the tokens of each of its requests: the row's, or in the
\* place of the last one that of the previous step.
LEMMA FedIs ==
  ASSUME LInv, Plain, VInv, pc = "execute", NEW b \in SetToSeqs(DOMAIN so),
         NEW h, h = Entered(b), NEW w, IsCount(b, so), Fits(b, so, w),
         NEW r \in ToSet(b), NEW j \in 0 .. so[r] - 1
  PROVE  PreparedIds(b, h, w)[FirstPlace(b, so, r, w) + j]
           = <<r, computed[r] + j>>
  <1>0. Shape /\ Previous /\ config.drafts = 0
    BY DEF LInv, Plain, Drafts
  <1>1. IsBatch(b) /\ ToSet(b) = DOMAIN so
    BY <1>0, BatchesFacts DEF Shape
  <1>2. /\ r \in Req /\ r \in DOMAIN so /\ h.num[r] \in Nat
        /\ so[r] \in 1 .. Chunk /\ computed[r] \in Nat
        /\ computed[r] + so[r] <= h.num[r]
        /\ Pending(r) =>
             /\ r \in ToSet(batch) /\ num[r] = h.num[r] /\ so[r] = 1
             /\ computed[r] = h.num[r] - 1 /\ computed[r] >= Prompt[r]
        /\ ~ Pending(r) => Holds(h, r, h.num[r])
    BY EnteredRequest
  <1>3. PICK f : f = FirstPlace(b, so, r, w)
    OBVIOUS
  <1>4. PICK ids : ids = InputIds(b, so, computed, h.row, w)
    OBVIOUS
  <1>5. PICK n, c, fed : n = so /\ c = computed /\ fed = h.row
    OBVIOUS
  <1>6. /\ IsCount(b, n) /\ Fits(b, n, w) /\ j \in 0 .. n[r] - 1
        /\ c[r] \in Int /\ f = FirstPlace(b, n, r, w)
        /\ ids = InputIds(b, n, c, fed, w)
    BY <1>2, <1>3, <1>4, <1>5
  <1>7. ids[f + j] = h.row[r][computed[r] + j]
    <2>1. FeedsRows(ids, b, n, c, fed, w)
      BY <1>1, <1>6, InputIdsAt
    <2> QED
      BY <1>5, <1>6, <2>1 DEF FeedsRows
  <1>8. f + j \in DOMAIN ids
    <2>1. f + j \in 0 .. DP * w - 1
      BY <1>1, <1>3, FirstPlaceFacts
    <2> QED
      BY <1>4, <2>1 DEF InputIds
  <1>9. Chunk \in Nat
    BY <1>0, ConfigFacts DEF Chunk
  <1>10. ~ Pending(r) => ids[f + j] = <<r, computed[r] + j>>
    <2> SUFFICES ASSUME ~ Pending(r)
                 PROVE  ids[f + j] = <<r, computed[r] + j>>
      OBVIOUS
    <2>1. PICK p \in Nat : p = computed[r] + j /\ p \in 0 .. h.num[r] - 1
      BY <1>2, <1>9
    <2>2. h.row[r][p] = <<r, p>>
      BY <1>2, <2>1 DEF Holds
    <2> QED
      BY <1>7, <2>1, <2>2
  <1>11. CASE pre = <<>>
    <2>1. PreparedIds(b, h, w) = ids
      BY <1>4, <1>11 DEF PreparedIds
    <2>2. ~ Pending(r)
      BY <1>11 DEF Pending
    <2> QED
      BY <1>3, <1>10, <2>1, <2>2
  <1>12. CASE pre # <<>>
    <2>1. PICK ph, device, dec :
            /\ ph = pre[1].placeholders /\ device = pre[1].device
            /\ dec = Decoding(b)
      OBVIOUS
    <2>2. PICK sub : sub = Substituted(ids,
            SubstitutionIndices(b, n, dec, ph, w, 1), device)
      OBVIOUS
    <2>3. PreparedIds(b, h, w) = sub
      <3>1. 1 + Drafts = 1
        BY <1>0 DEF Drafts
      <3> QED
        BY <1>4, <1>12, <1>5, <2>1, <2>2, <3>1 DEF PreparedIds
    <2>4. DOMAIN ph = {pre[1].batch[i] : i \in pre[1].counted}
      BY <1>12, <2>1 DEF VInv, PreRight
    <2>5. r \in DOMAIN ph <=> Pending(r)
      BY <1>12, <2>4 DEF Pending
    <2>6. /\ r \in dec /\ r \in DOMAIN ph => sub[f + j] = device[ph[r] * 1 + j]
          /\ ~ (r \in dec /\ r \in DOMAIN ph) => sub[f + j] = ids[f + j]
      <3>1. PICK one \in Nat : one = 1
        OBVIOUS
      <3>2. sub = Substituted(ids,
              SubstitutionIndices(b, n, dec, ph, w, one), device)
        BY <2>2, <3>1
      <3>3. TakesFrom(sub, ids, b, n, w, dec \cap DOMAIN ph, ph, one, device)
        BY <1>1, <1>6, <3>2, SubstitutedAt
      <3> QED
        BY <1>8, <1>6, <3>1, <3>3 DEF TakesFrom
    <2>7. CASE ~ Pending(r)
      BY <1>3, <1>10, <2>3, <2>5, <2>6, <2>7
    <2>8. CASE Pending(r)
      <3>1. PICK i \in pre[1].counted : pre[1].batch[i] = r
        BY <2>8 DEF Pending
      <3>2. Kept(pre[1], i, r, num[r] - 1)
        BY <1>2, <1>12, <2>8, <3>1 DEF VInv, PreRight
      <3>3. device[ph[r]] = <<r, num[r] - 1>> /\ ph[r] \in Nat
        BY <2>1, <3>2 DEF Kept
      <3>4. r \in dec
        BY <1>2, <2>1, <2>8 DEF Decoding
      <3>5. j = 0 /\ computed[r] + j = num[r] - 1
        BY <1>2, <2>8
      <3>6. ph[r] * 1 + j = ph[r]
        BY <3>3, <3>5
      <3>7. sub[f + j] = <<r, num[r] - 1>>
        BY <2>5, <2>6, <2>8, <3>3, <3>4, <3>6
      <3> QED
        BY <1>3, <2>3, <3>5, <3>7
    <2> QED
      BY <2>7, <2>8
  <1> QED
    BY <1>11, <1>12

\* A step that computes all there is of a request samples the token after.
LEMMA NextIs ==
  ASSUME LInv, Plain, VInv, pc = "execute", NEW b \in SetToSeqs(DOMAIN so),
         NEW h, h = Entered(b), NEW w, IsCount(b, so), Fits(b, so, w),
         NEW i \in DOMAIN b, NEW r, r = b[i],
         NEW m \in Nat, m = h.num[r], computed[r] + so[r] >= m
  PROVE  NextOf(b, h, w)[Places(b, PaddedReqs(b))[i]] = <<<<r, m>>>>
  <1>0. Shape /\ config.drafts = 0 /\ Drafts = 0
    BY DEF LInv, Plain, Drafts
  <1>1. IsBatch(b) /\ ToSet(b) = DOMAIN so
    BY <1>0, BatchesFacts DEF Shape
  <1>2. r \in ToSet(b)
    BY <1>1, BatchFacts
  <1>3. /\ r \in Req /\ r \in DOMAIN so
        /\ h.num[r] = Prompt[r] + Len(h.output[r])
        /\ so[r] \in 1 .. Chunk /\ computed[r] \in Nat
        /\ computed[r] + so[r] <= h.num[r]
    BY <1>2, EnteredRequest
  <1>4. Chunk \in Nat
    BY <1>0, ConfigFacts DEF Chunk
  <1>5. PICK a \in Nat, l \in Nat :
          a = computed[r] /\ l = so[r] /\ l >= 1 /\ a + l = m
    BY <1>3, <1>4
  <1>6. drafted[r] = 0
    <2>1. IsDrafted(config, drafted, DOMAIN so)
      BY <1>0 DEF Shape
    <2> QED
      BY <1>0, <1>3, <2>1 DEF IsDrafted
  <1>7. PICK n, dr, whole, ids, c, u :
          /\ n = so /\ dr = drafted /\ whole = Whole(b, h)
          /\ ids = PreparedIds(b, h, w)
          /\ c = computed /\ u = [q \in Req |-> Rejected(q)]
    OBVIOUS
  <1>8. PICK positions : positions = Positions(b, n, c, u, w)
    OBVIOUS
  <1>9. NextOf(b, h, w) = NextTokens(b, n, dr, whole, ids, positions, w)
    <2>1. positions = PreparedPositions(b, w)
      BY <1>7, <1>8, Zenon DEF PreparedPositions
    <2> QED
      BY <1>7, <2>1, Zenon DEF NextOf
  <1>10. IsCount(b, n) /\ Fits(b, n, w)
    BY <1>7
  <1>11. PICK f \in Nat : f = FirstPlace(b, n, r, w)
    <2>1. PICK j \in 0 .. n[r] - 1 : j = 0
      BY <1>5, <1>7
    <2>2. FirstPlace(b, n, r, w) \in Nat
      BY <1>1, <1>2, <1>10, <2>1, FirstPlaceFacts
    <2> QED
      BY <2>2
  <1>12. u[r] = 0
    BY <1>0, <1>3, <1>7 DEF Rejected
  <1>13. ASSUME NEW j \in 0 .. n[r] - 1
         PROVE  positions[f + j] = a + j
    <2>1. Counts(positions, b, n, c, u, w)
      BY <1>1, <1>8, <1>10, PositionsAt
    <2>2. positions[f + j] = c[r] + j - u[r]
      BY <1>2, <1>11, <2>1 DEF Counts
    <2> QED
      BY <1>5, <1>7, <1>12, <2>2
  <1>14. ASSUME NEW j \in 0 .. n[r] - 1
         PROVE  ids[f + j] = <<r, positions[f + j]>>
    <2>1. PreparedIds(b, h, w)[FirstPlace(b, so, r, w) + j]
            = <<r, computed[r] + j>>
      BY <1>2, <1>7, FedIs
    <2> QED
      BY <1>5, <1>7, <1>11, <1>13, <2>1
  <1>15. r \in whole
    <2>1. computed[r] + so[r] >= Prompt[r] + Len(h.output[r])
      BY <1>3
    <2> QED
      BY <1>2, <1>7, <2>1 DEF Whole
  <1>16. PICK p \in Nat : p = positions[f + (n[r] - 1)] /\ p + 1 = m
    <2>1. n[r] - 1 \in 0 .. n[r] - 1
      BY <1>5, <1>7
    <2>2. positions[f + (n[r] - 1)] = a + (n[r] - 1)
      BY <1>13, <2>1
    <2> QED
      BY <1>5, <1>7, <2>2
  <1>17. n[r] >= 1 /\ dr[r] = 0
    BY <1>5, <1>6, <1>7
  <1>18. NextTokens(b, n, dr, whole, ids, positions, w)[
           Places(b, PaddedReqs(b))[i]] = <<<<r, p + 1>>>>
    BY <1>1, <1>10, <1>11, <1>14, <1>15, <1>16, <1>17, NextAt
  <1> QED
    BY <1>9, <1>16, <1>18

\* A request's place in next_tokens is one of its places.
LEMMA PlaceInNext ==
  ASSUME NEW b, IsBatch(b), NEW i \in DOMAIN b, NEW h, NEW w
  PROVE  Places(b, PaddedReqs(b))[i] \in Nat \cap DOMAIN NextOf(b, h, w)
  <1>1. Places(b, PaddedReqs(b))[i] \in 0 .. DP * PaddedReqs(b) - 1
    BY PlaceInShare
  <1>2. DOMAIN NextOf(b, h, w) = 0 .. DP * PaddedReqs(b) - 1
    BY DEF NextOf, NextTokens
  <1> QED
    BY <1>1, <1>2

\* A dispatched step will sample the next token of each request of which it
\* computes all there is; it leaves the rows right.
LEMMA ExecuteModelRight ==
  ASSUME LInv, Plain, VInv, ExecuteModel
  PROVE  VInv'
  <1>0. Shape /\ Outputs /\ Phases
    BY DEF LInv
  <1>1. PICK b \in Batches :
          LET host  == Entered(b)
              width == PaddedTokens(b, so, FALSE)
          IN /\ batch' = b
             /\ SetHost(host)
             /\ state' = <<[batch |-> b,
                            next |-> NextOf(b, host, width),
                            places |-> Places(b, PaddedReqs(b)),
                            ids |-> PreparedIds(b, host, width),
                            first |-> [r \in DOMAIN so |->
                                         computed[r] - Rejected(r)],
                            experts |-> ExpertIndices(b, so, width)]>>
    BY Zenon DEF ExecuteModel
  <1>2. PICK h : h = Entered(b)
    OBVIOUS
  <1>3. PICK w : w = PaddedTokens(b, so, FALSE)
    OBVIOUS
  <1>4. /\ batch' = b /\ row' = h.row /\ num' = h.num /\ output' = h.output
        /\ state'[1].next = NextOf(b, h, w)
        /\ state'[1].places = Places(b, PaddedReqs(b))
    BY <1>1, <1>2, <1>3 DEF SetHost
  <1>5. /\ pc = "execute" /\ pc' = "sample"
        /\ computed' = [r \in Req |-> IF r \in DOMAIN so THEN Advanced(r)
                                      ELSE computed[r]]
        /\ inflight' = [r \in Req |->
             IF Async /\ r \in DOMAIN so /\ Advanced(r) >= Expected(r)
             THEN inflight[r] + 1 + drafted[r] ELSE inflight[r]]
        /\ UNCHANGED <<config, status, received, so, drafted, queue, pre,
                       burst>>
    BY DEF ExecuteModel, ScheduleAhead, stepVars
  <1>6. b \in SetToSeqs(DOMAIN so)
    BY DEF Batches
  <1>7. IsBatch(b) /\ ToSet(b) = DOMAIN so
    BY <1>0, <1>6, BatchesFacts DEF Shape
  <1>8. ASSUME NEW r \in ToSet(b)
        PROVE  /\ r \in Req /\ r \in DOMAIN so
               /\ h.num[r] \in Nat /\ h.num[r] <= MaxLen
               /\ so[r] \in 1 .. Chunk /\ computed[r] \in Nat
               /\ computed[r] + so[r] <= h.num[r]
               /\ Pending(r) =>
                    /\ r \in ToSet(batch) /\ num[r] = h.num[r] /\ so[r] = 1
                    /\ computed[r] = h.num[r] - 1
                    /\ Holds(h, r, h.num[r] - 1)
               /\ ~ Pending(r) => Holds(h, r, h.num[r])
    BY <1>2, <1>5, <1>6, EnteredRequest
  <1>9. \A r \in ToSet(b) : computed'[r] = computed[r] + so[r]
    BY <1>5, <1>7, <1>8 DEF Advanced
  <1>10. IsCount(b, so) /\ Fits(b, so, w)
    <2>1. PICK c \in Nat : c = config.chunk /\ c = Chunk
      BY <1>0, ConfigFacts DEF Chunk
    <2>2. \E p \in Paddings : p >= Cardinality(Req) * c
      BY <1>0, <2>1, RunnerAssumption DEF Shape
    <2>3. \A r \in ToSet(b) : so[r] \in 0 .. c
      BY <1>8, <2>1
    <2>4. Fits(b, so, PaddedTokens(b, so, FALSE))
      BY <1>7, <2>2, <2>3, TokensFit
    <2>5. IsCount(b, so)
      BY <1>7, <2>3, TokensBound
    <2> QED
      BY <1>3, <2>4, <2>5
  <1>11. RowsRight'
    <2>1. \A r : Pending(r)' <=> Pending(r)
      BY <1>5 DEF Pending
    <2>2. ASSUME NEW r \in ToSet(b)
          PROVE  Holds(h, r, h.num[r] - IF Pending(r) THEN 1 ELSE 0)
      <3>1. CASE Pending(r)
        BY <1>8, <3>1
      <3>2. CASE ~ Pending(r)
        <4>1. h.num[r] - 0 = h.num[r]
          BY <1>8
        <4> QED
          BY <1>8, <3>2, <4>1
      <3> QED
        BY <3>1, <3>2
    <2>3. ASSUME NEW r \in ToSet(b)
          PROVE  Holds(Host, r, Filled(r))'
      <3>1. PICK n : n = h.num[r] - IF Pending(r) THEN 1 ELSE 0
        OBVIOUS
      <3>2. Filled(r)' = n
        BY <1>4, <2>1, <3>1 DEF Filled
      <3>3. Holds(h, r, n)
        BY <2>2, <3>1
      <3> QED
        BY <1>4, <3>2, <3>3 DEF Holds, Host
    <2> QED
      BY <1>4, <1>5, <1>8, <2>3 DEF RowsRight, MaxLen
  <1>12. ReceivedRight' /\ QueueRight'
    BY <1>5 DEF VInv, ReceivedRight, QueueRight, Known
  <1>13. PreRight'
    <2>1. ASSUME NEW i \in pre[1].counted, NEW r \in ToSet(b),
                 pre # <<>>, pre[1].batch[i] = r
          PROVE  Kept(pre[1], i, r, num'[r] - 1) /\ computed'[r] >= num'[r] - 1
      <3>1. Pending(r)
        BY <2>1 DEF Pending
      <3>2. /\ r \in ToSet(batch) /\ num'[r] = num[r]
            /\ computed'[r] >= num'[r] - 1
        BY <1>4, <1>8, <1>9, <3>1
      <3>3. Kept(pre[1], i, r, num[r] - 1)
        BY <2>1, <3>2 DEF VInv, PreRight
      <3> QED
        BY <3>2, <3>3
    <2> QED
      BY <1>4, <1>5, <2>1 DEF VInv, PreRight
  <1>14. StateRight'
    <2>1. ASSUME NEW i \in DOMAIN b
          PROVE  /\ state'[1].places[i] \in Nat \cap DOMAIN state'[1].next
                 /\ computed'[b[i]] >= num'[b[i]] =>
                      state'[1].next[state'[1].places[i]]
                        = <<<<b[i], num'[b[i]]>>>>
      <3>1. state'[1].places[i] \in Nat \cap DOMAIN state'[1].next
        BY <1>4, <1>7, PlaceInNext
      <3>2. PICK r \in ToSet(b) : r = b[i]
        BY <1>7, BatchFacts
      <3>3. ASSUME computed'[r] >= num'[r]
            PROVE  NextOf(b, h, w)[Places(b, PaddedReqs(b))[i]]
                     = <<<<r, h.num[r]>>>>
        <4>1. PICK m \in Nat : m = h.num[r]
          BY <1>8
        <4>2. computed[r] + so[r] >= m
          BY <1>4, <1>9, <3>3, <4>1
        <4>3. NextOf(b, h, w)[Places(b, PaddedReqs(b))[i]] = <<<<r, m>>>>
          BY <1>2, <1>5, <1>6, <1>10, <3>2, <4>1, <4>2, NextIs
        <4> QED
          BY <4>1, <4>3
      <3> QED
        BY <1>4, <3>1, <3>2, <3>3
    <2> QED
      BY <1>4, <2>1 DEF StateRight
  <1>15. BurstRight'
    <2>1. burst = <<>>
      BY <1>0, <1>5 DEF Phases
    <2>2. ~ Async => queue = <<>>
      <3>1. HasRoom(config, queue)
        BY <1>0, <1>5, RoomInQueue
      <3> QED
        BY <3>1 DEF HasRoom, Async, Mode
    <2> QED
      BY <1>5, <2>1, <2>2 DEF BurstRight, Async, Mode
  <1>16. StepsRight'
    <2>1. MaxLen \in Nat \ {0} /\ Chunk \in Nat
      BY <1>0, ConfigFacts DEF MaxLen, Chunk
    <2>2. ASSUME NEW r \in Req
          PROVE  computed'[r] \in 0 .. MaxLen - 1
      <3>1. computed[r] \in 0 .. MaxLen - 1
        BY DEF VInv, StepsRight
      <3>2. CASE r \in DOMAIN so
        <4>1. so[r] \in 1 .. Chunk /\ computed[r] + so[r] <= MaxLen - 1
          BY <1>5, <3>2 DEF VInv, StepsRight
        <4>2. computed'[r] = computed[r] + so[r]
          BY <1>7, <1>9, <3>2
        <4> QED
          BY <2>1, <3>1, <4>1, <4>2
      <3>3. CASE r \notin DOMAIN so
        BY <1>5, <3>1, <3>3
      <3> QED
        BY <3>2, <3>3
    <2>3. ~ Async => \A r \in Req : inflight'[r] = 0
      BY <1>5 DEF VInv, StepsRight
    <2>4. \A r \in ToSet(b) : computed'[r] <= num'[r]
      BY <1>4, <1>8, <1>9
    <2> QED
      BY <1>4, <1>5, <2>2, <2>3, <2>4 DEF StepsRight, Async, Mode, MaxLen
  <1> QED
    BY <1>11, <1>12, <1>13, <1>14, <1>15, <1>16 DEF VInv

\* A burst continues the tokens of its requests, which the step before it
\* has left to its own tokens.
LEMMA ExecuteContinueDecodeRight ==
  ASSUME LInv, Plain, VInv, ExecuteContinueDecode
  PROVE  VInv'
  <1>0. Shape /\ Outputs /\ Phases
    BY DEF LInv
  <1>1. PICK b, h, g, z, tokens, len, fitting :
          BurstOf(b, h, g, z, tokens, len, fitting)
    BY BurstIs
  <1>2. /\ b \in SetToSeqs(DOMAIN so) /\ h = Entered(b)
        /\ g = WithTokens(fitting, tokens, h)
        /\ batch' = b /\ row' = g.row /\ num' = g.num /\ output' = g.output
        /\ burst' = <<z>> /\ z.batch = b /\ IsOutput(config, z)
        /\ fitting \subseteq DOMAIN so
    BY <1>1 DEF BurstOf
  <1>3. \A r \in DOMAIN so :
          /\ r \in fitting /\ len[r] \in Nat \ {0}
          /\ h.num[r] + len[r] <= MaxLen
          /\ tokens[r] = [k \in 1 .. len[r] |->
                            <<FirstToken(b, h, r)[1],
                              FirstToken(b, h, r)[2] + k - 1>>]
          /\ IsSeq(tokens[r]) /\ Len(tokens[r]) = len[r]
          /\ TokensFor(z, r) = tokens[r]
    BY <1>1, Zenon DEF BurstOf
  <1>4. /\ pc = "execute" /\ pc' = "sample" /\ Mode = "continue"
        /\ \A r \in DOMAIN so : so[r] = 1
        /\ computed' = [r \in Req |-> IF r \in DOMAIN so THEN Advanced(r)
                                      ELSE computed[r]]
        /\ inflight' = [r \in Req |->
             IF Async /\ r \in DOMAIN so /\ Advanced(r) >= Expected(r)
             THEN inflight[r] + 1 + drafted[r] ELSE inflight[r]]
        /\ UNCHANGED <<config, status, received, so, drafted, queue, pre,
                       state>>
    BY DEF ExecuteContinueDecode, ScheduleAhead, DecodeOnly, stepVars
  <1>5. /\ ~ Async /\ Chunk > 1 /\ Chunk \in Nat
        /\ queue = <<>> /\ pre = <<>> /\ state = <<>>
    <2>1. ~ Async /\ Chunk > 1 /\ config.mode # "async"
      BY <1>4 DEF Async, Mode, Plain
    <2>2. HasRoom(config, queue)
      BY <1>0, <1>4, RoomInQueue
    <2> QED
      BY <1>0, <1>4, <2>1, <2>2, ConfigFacts DEF HasRoom, Phases, Chunk
  <1>6. IsBatch(b) /\ ToSet(b) = DOMAIN so
    BY <1>0, <1>2, BatchesFacts DEF Shape
  <1>7. ASSUME NEW r \in DOMAIN so
        PROVE  /\ r \in Req /\ r \in ToSet(b)
               /\ h.num[r] \in Nat /\ computed[r] \in Nat
               /\ computed[r] + 1 = h.num[r]
               /\ computed[r] + 1 <= MaxLen - 1
               /\ h.num[r] = Prompt[r] + Len(h.output[r])
               /\ Holds(h, r, h.num[r])
    <2>1. r \in ToSet(b)
      BY <1>6
    <2>2. /\ r \in Req /\ h.num[r] = Target(r) /\ h.num[r] \in Nat
          /\ computed[r] \in Nat
          /\ h.num[r] = Prompt[r] + Len(h.output[r])
          /\ ~ Pending(r) => Holds(h, r, h.num[r])
      BY <1>2, <1>4, <2>1, EnteredRequest
    <2>3. ~ Pending(r) /\ so[r] = 1 /\ so[r] # Chunk
      BY <1>4, <1>5 DEF Pending
    <2>4. /\ computed[r] + so[r] <= MaxLen - 1
          /\ so[r] = Chunk \/ computed[r] + so[r] = Target(r)
      BY <1>4, <1>5 DEF VInv, StepsRight
    <2> QED
      BY <2>1, <2>2, <2>3, <2>4
  <1>8. PICK w : w = PaddedTokens(b, so, TRUE)
    OBVIOUS
  <1>9. w = PaddedReqs(b) /\ IsCount(b, so) /\ Fits(b, so, w)
    BY <1>4, <1>6, <1>8, BurstTokensFit
  <1>10. ASSUME NEW r \in DOMAIN so
         PROVE  FirstToken(b, h, r) = <<r, h.num[r]>>
    <2>1. \E i \in DOMAIN b : b[i] = r
      BY <1>6, <1>7, BatchFacts
    <2>2. PICK i \in DOMAIN b : /\ i = (CHOOSE k \in DOMAIN b : b[k] = r)
                                /\ r = b[i]
      BY <2>1
    <2>3. PICK m \in Nat : m = h.num[r] /\ computed[r] + so[r] >= m
      BY <1>4, <1>7
    <2>4. pc = "execute" /\ b \in SetToSeqs(DOMAIN so) /\ h = Entered(b)
      BY <1>2, <1>4
    <2>5. NextOf(b, h, w)[Places(b, PaddedReqs(b))[i]] = <<<<r, m>>>>
      <3>1. i \in DOMAIN b /\ r = b[i]
        BY <2>2
      <3>2. IsCount(b, so) /\ Fits(b, so, w)
        BY <1>9
      <3> QED
        BY <2>3, <2>4, <3>1, <3>2, NextIs
    <2>6. FirstToken(b, h, r) = NextOf(b, h, w)[Places(b, w)[i]][1]
      BY <1>8, <2>2 DEF FirstToken
    <2>7. NextOf(b, h, w)[Places(b, w)[i]] = <<<<r, m>>>>
      BY <1>9, <2>5
    <2>8. <<<<r, m>>>>[1] = <<r, m>>
      OBVIOUS
    <2> QED
      BY <2>3, <2>6, <2>7, <2>8
  <1>11. ASSUME NEW r \in DOMAIN so
         PROVE  Continues(tokens[r], r, h.num[r])
    <2>1. PICK t, l, m : t = tokens[r] /\ l = len[r] /\ m = h.num[r]
      OBVIOUS
    <2>2. t = [k \in 1 .. l |-> <<FirstToken(b, h, r)[1],
                                  FirstToken(b, h, r)[2] + k - 1>>]
      BY <1>3, <2>1
    <2>3. FirstToken(b, h, r)[1] = r /\ FirstToken(b, h, r)[2] = m
      BY <1>10, <2>1
    <2>4. t = [k \in 1 .. l |-> <<r, m + k - 1>>]
      BY <2>2, <2>3
    <2> QED
      BY <2>1, <2>4 DEF Continues
  <1>12. ASSUME NEW r \in DOMAIN so
         PROVE  /\ g.num[r] = h.num[r] + len[r]
                /\ g.num[r] <= MaxLen /\ Holds(g, r, g.num[r])
    <2>1. g.num[r] = h.num[r] + len[r]
      <3>1. g.num = [q \in Req |-> IF q \in fitting
                       THEN h.num[q] + Len(tokens[q]) ELSE h.num[q]]
        BY <1>2 DEF WithTokens
      <3> QED
        BY <1>3, <1>7, <3>1
    <2>2. IsHost(h)
      BY <1>0, <1>2, EnteredFacts
    <2>3. PICK l \in Nat, m \in Nat : l = len[r] /\ m = h.num[r]
      BY <1>3, <1>7
    <2>4. /\ r \in fitting /\ IsSeq(tokens[r]) /\ Len(tokens[r]) = l
          /\ Continues(tokens[r], r, m) /\ h.num[r] = m
          /\ m = Prompt[r] + Len(h.output[r]) /\ m + l <= MaxLen
          /\ r \in Req /\ Holds(h, r, m)
      BY <1>3, <1>7, <1>11, <2>3
    <2>5. Holds(g, r, m + l)
      BY <1>0, <1>2, <2>2, <2>4, WithTokensHolds
    <2> QED
      BY <2>1, <2>3, <2>4, <2>5
  <1>13. /\ burst' # <<>> /\ burst'[1] = z
    BY <1>2, ShortQueues
  <1>14. RowsRight'
    <2>1. ASSUME NEW r \in ToSet(b)
          PROVE  num'[r] <= MaxLen /\ Holds(Host, r, Filled(r))'
      <3>1. r \in DOMAIN so
        BY <1>6
      <3>2. g.num[r] - 0 = g.num[r]
        <4>1. h.num[r] \in Nat /\ len[r] \in Nat
          BY <1>3, <1>7, <3>1
        <4>2. g.num[r] = h.num[r] + len[r]
          BY <1>12, <3>1
        <4> QED
          BY <4>1, <4>2
      <3>3. Filled(r)' = g.num[r]
        BY <1>2, <1>4, <1>5, <3>2 DEF Filled, Pending
      <3>4. num'[r] <= MaxLen /\ Holds(g, r, g.num[r])
        BY <1>2, <1>12, <3>1
      <3> QED
        BY <1>2, <3>3, <3>4 DEF Holds, Host
    <2> QED
      BY <1>2, <1>4, <2>1 DEF RowsRight, MaxLen
  <1>15. ReceivedRight' /\ QueueRight'
    BY <1>4 DEF VInv, ReceivedRight, QueueRight, Known
  <1>16. PreRight' /\ StateRight'
    BY <1>4, <1>5 DEF PreRight, StateRight
  <1>17. ASSUME NEW r \in DOMAIN so
         PROVE  /\ computed'[r] = h.num[r]
                /\ h.num[r] = num'[r] - Len(TokensFor(z, r))
    <2>1. computed'[r] = computed[r] + 1
      BY <1>4, <1>7 DEF Advanced
    <2>2. num'[r] = h.num[r] + len[r] /\ Len(TokensFor(z, r)) = len[r]
      BY <1>2, <1>3, <1>12
    <2> QED
      BY <1>3, <1>7, <2>1, <2>2
  <1>18. BurstRight'
    <2>1. ASSUME NEW r \in Req, TokensFor(z, r) # <<>>
          PROVE  /\ r \in ToSet(b)
                 /\ computed'[r] = num'[r] - Len(TokensFor(z, r))
      <3>1. r \in ToSet(b)
        BY <1>2, <2>1 DEF TokensFor
      <3> QED
        BY <1>6, <1>17, <3>1
    <2>2. ASSUME NEW r \in ToSet(b)
          PROVE  Continues(TokensFor(z, r), r,
                           num'[r] - Len(TokensFor(z, r)))
      <3>1. r \in DOMAIN so
        BY <1>6
      <3> QED
        BY <1>3, <1>11, <1>17, <3>1
    <2> QED
      BY <1>2, <1>4, <1>5, <1>13, <2>1, <2>2 DEF BurstRight, IsLast
  <1>19. StepsRight'
    <2>1. ASSUME NEW r \in Req PROVE computed'[r] \in 0 .. MaxLen - 1
      <3>1. computed[r] \in 0 .. MaxLen - 1
        BY DEF VInv, StepsRight
      <3>2. CASE r \in DOMAIN so
        <4>1. computed'[r] = h.num[r]
          BY <1>17, <3>2
        <4>2. /\ h.num[r] \in Nat /\ computed[r] + 1 = h.num[r]
              /\ computed[r] + 1 <= MaxLen - 1
          BY <1>7, <3>2
        <4>3. MaxLen \in Nat
          BY <1>0, ConfigFacts DEF MaxLen
        <4> QED
          BY <4>1, <4>2, <4>3
      <3>3. CASE r \notin DOMAIN so
        BY <1>4, <3>1, <3>3
      <3> QED
        BY <3>2, <3>3
    <2>2. \A r \in Req : inflight'[r] = 0
      BY <1>4, <1>5 DEF VInv, StepsRight
    <2> QED
      BY <1>4, <1>5, <2>1, <2>2 DEF StepsRight, MaxLen
  <1> QED
    BY <1>14, <1>15, <1>16, <1>18, <1>19 DEF VInv

\* Without drafts the result of a step that counts is the token after those
\* that its request has.
LEMMA ResultIs ==
  ASSUME LInv, VInv, pc = "sample", state # <<>>,
         NEW e, e = Sampled, NEW i \in DOMAIN batch, NEW r, r = batch[i]
  PROVE  /\ r \in Req /\ r \in ToSet(batch)
         /\ num[r] \in Nat /\ computed[r] \in 0 .. MaxLen - 1
         /\ num[r] = Prompt[r] + Len(output[r])
         /\ i \in e.counted => /\ computed[r] = num[r]
                               /\ num[r] + 1 <= MaxLen
                               /\ Extracted(e)[i] = <<<<r, num[r]>>>>
         /\ i \notin e.counted => Extracted(e)[i] = <<>>
  <1>0. Shape /\ Phases /\ Lengths
    BY DEF LInv
  <1>1. IsSampled(e)
    BY SampledIs
  <1>2. r \in Req /\ r \in ToSet(batch)
    BY <1>0, BatchFacts DEF Shape
  <1>3. num[r] = Prompt[r] + Len(output[r])
    BY <1>0, <1>2 DEF Lengths
  <1>4. num[r] \in Nat
    BY <1>0, <1>2, <1>3, ConfigFacts
  <1>5. computed[r] \in 0 .. MaxLen - 1
    BY <1>2 DEF VInv, StepsRight
  <1>6. ASSUME i \in e.counted
        PROVE  /\ computed[r] = num[r] /\ num[r] + 1 <= MaxLen
               /\ Extracted(e)[i] = <<<<r, num[r]>>>>
    <2>1. computed[r] >= num[r]
      BY <1>1, <1>6 DEF IsSampled
    <2>2. computed[r] <= num[r]
      BY <1>2 DEF VInv, StepsRight
    <2>3. Extracted(e)[i] = e.next[e.places[i]]
      BY <1>1, <1>6 DEF Extracted, IsSampled
    <2>4. e.next = state[1].next /\ e.places = state[1].places
      BY DEF Sampled
    <2>5. state[1].next[state[1].places[i]] = <<<<r, num[r]>>>>
      BY <2>1 DEF VInv, StateRight
    <2>6. MaxLen \in Nat
      BY <1>0, ConfigFacts DEF MaxLen
    <2>7. computed[r] = num[r] /\ num[r] + 1 <= MaxLen
      BY <1>4, <1>5, <2>1, <2>2, <2>6
    <2> QED
      BY <2>3, <2>4, <2>5, <2>7
  <1>7. i \notin e.counted => Extracted(e)[i] = <<>>
    BY <1>1 DEF IsSampled
  <1> QED
    BY <1>2, <1>3, <1>4, <1>5, <1>6, <1>7

\* Synchronous sampling appends the next token of each request.
LEMMA SampleSyncRight ==
  ASSUME LInv, VInv, SampleSync
  PROVE  VInv'
  <1>0. Shape /\ Outputs /\ Phases /\ Lengths
    BY DEF LInv
  <1>1. PICK e, g, z, tokens, hit : SyncOf(e, g, z, tokens, hit)
    BY SyncIs
  <1>2. /\ e = Sampled /\ IsSampled(e)
        /\ g = WithTokens(hit, tokens, Host)
        /\ row' = g.row /\ num' = g.num /\ output' = g.output
        /\ z = Output(e.batch, Extracted(e), {})
        /\ queue' = <<z>>
        /\ queue = <<>> /\ pre = <<>> /\ burst = <<>>
    BY <1>1 DEF SyncOf
  <1>3. /\ \A i \in e.counted : /\ batch[i] \in hit
                                /\ tokens[batch[i]] = Extracted(e)[i]
        /\ \A i \in DOMAIN batch : i \notin e.counted => batch[i] \notin hit
        /\ \A r \in hit : IsSeq(tokens[r])
    BY <1>1 DEF SyncOf
  <1>4. /\ pc = "sample" /\ pc' = "schedule" /\ ~ Async
        /\ state # <<>> /\ state' = <<>>
        /\ UNCHANGED <<config, status, received, computed, inflight, so,
                       drafted, batch, pre, burst>>
    BY DEF SampleSync, schedulerVars, stepVars
  <1>5. /\ IsOutput(config, z) /\ z.batch = batch
        /\ \A i \in DOMAIN batch : TokensFor(z, batch[i]) = Extracted(e)[i]
    BY <1>0, <1>2, SampledOutput
  <1>6. PICK h : h = Host
    OBVIOUS
  <1>7. IsHost(h) /\ h.num = num /\ h.output = output
    BY <1>0, <1>6, HostIs
  <1>8. ASSUME NEW i \in DOMAIN batch, NEW r, r = batch[i]
        PROVE  /\ r \in Req /\ r \in ToSet(batch) /\ num[r] \in Nat
               /\ TokensFor(z, r) = Extracted(e)[i]
               /\ Holds(g, r, g.num[r]) /\ g.num[r] <= MaxLen
               /\ i \in e.counted =>
                    /\ TokensFor(z, r) = <<<<r, num[r]>>>>
                    /\ computed[r] = num[r] /\ g.num[r] = num[r] + 1
               /\ i \notin e.counted => TokensFor(z, r) = <<>>
    <2>1. /\ r \in Req /\ r \in ToSet(batch)
          /\ num[r] \in Nat /\ computed[r] \in 0 .. MaxLen - 1
          /\ num[r] = Prompt[r] + Len(output[r])
          /\ i \in e.counted => /\ computed[r] = num[r]
                                /\ num[r] + 1 <= MaxLen
                                /\ Extracted(e)[i] = <<<<r, num[r]>>>>
          /\ i \notin e.counted => Extracted(e)[i] = <<>>
      BY <1>2, <1>4, <1>8, ResultIs
    <2>2. TokensFor(z, r) = Extracted(e)[i]
      BY <1>5, <1>8
    <2>3. PICK m \in Nat : m = num[r]
      BY <2>1
    <2>4. num[r] <= MaxLen /\ Holds(h, r, m)
      <3>1. Filled(r) = m
        BY <1>2, <2>3 DEF Filled, Pending
      <3> QED
        BY <1>6, <2>1, <3>1 DEF VInv, RowsRight
    <2>5. g.num = [q \in Req |-> IF q \in hit
                     THEN h.num[q] + Len(tokens[q]) ELSE h.num[q]]
      BY <1>2, <1>6 DEF WithTokens
    <2>6. CASE i \in e.counted
      <3>1. r \in hit /\ tokens[r] = <<<<r, m>>>>
        BY <1>3, <1>8, <2>1, <2>3, <2>6
      <3>2. /\ IsSeq(tokens[r]) /\ Len(tokens[r]) = 1
            /\ DOMAIN tokens[r] = 1 .. 1
        BY <3>1, ShortQueues, SeqFacts
      <3>3. Continues(tokens[r], r, m)
        BY <2>3, <3>1, <3>2 DEF Continues
      <3>4. g.num[r] = m + 1
        BY <1>7, <2>1, <2>3, <2>5, <3>1, <3>2
      <3>5. /\ h.num[r] = m /\ m = Prompt[r] + Len(h.output[r])
            /\ m + 1 <= MaxLen
        BY <1>7, <2>1, <2>3, <2>6
      <3>6. PICK l \in Nat : l = 1
        OBVIOUS
      <3>7. Holds(g, r, m + l)
        BY <1>0, <1>2, <1>6, <1>7, <2>1, <2>4, <3>1, <3>2, <3>3, <3>5, <3>6,
           WithTokensHolds
      <3> QED
        BY <2>1, <2>2, <2>3, <2>6, <3>4, <3>5, <3>6, <3>7
    <2>7. CASE i \notin e.counted
      <3>1. r \notin hit
        BY <1>3, <1>8, <2>7
      <3>2. g.num[r] = m
        BY <1>7, <2>1, <2>3, <2>5, <3>1
      <3>3. Holds(g, r, m)
        BY <1>0, <1>2, <1>6, <1>7, <2>1, <2>4, <3>1, WithTokensHolds
      <3> QED
        BY <2>1, <2>2, <2>3, <2>4, <2>7, <3>2, <3>3
    <2> QED
      BY <2>6, <2>7
  <1>9. ASSUME NEW r \in ToSet(batch)
        PROVE  /\ r \in Req /\ num[r] \in Nat
               /\ Holds(g, r, g.num[r]) /\ g.num[r] <= MaxLen
               /\ TokensFor(z, r) # <<>> =>
                    /\ TokensFor(z, r) = <<<<r, num[r]>>>>
                    /\ computed[r] = num[r] /\ g.num[r] = num[r] + 1
    <2>1. PICK i \in DOMAIN batch : r = batch[i]
      BY <1>0, BatchFacts DEF Shape
    <2> QED
      BY <1>8, <2>1
  <1>10. RowsRight'
    <2>1. ASSUME NEW r \in ToSet(batch)
          PROVE  num'[r] <= MaxLen /\ Holds(Host, r, Filled(r))'
      <3>1. g.num[r] \in Int
        <4>1. \A q \in hit : IsSeq(tokens[q])
          BY <1>3
        <4>2. IsHost(g)
          BY <1>2, <1>6, <1>7, <4>1, WithTokensFacts
        <4> QED
          BY <1>9, <2>1, <4>2 DEF IsHost
      <3>2. Filled(r)' = g.num[r]
        BY <1>2, <1>4, <3>1 DEF Filled, Pending
      <3>3. Holds(g, r, g.num[r]) /\ g.num[r] <= MaxLen
        BY <1>9, <2>1
      <3> QED
        BY <1>2, <3>2, <3>3 DEF Holds, Host
    <2> QED
      BY <1>4, <2>1 DEF RowsRight, MaxLen
  <1>11. ReceivedRight'
    BY <1>4 DEF VInv, ReceivedRight
  <1>12. queue' # <<>> /\ queue'[1] = z /\ Len(queue') = 1
    BY <1>2, ShortQueues
  <1>13. QueueRight'
    <2>1. ASSUME NEW r \in Req, status[r] # "finished"
          PROVE  Continues(TokensFor(z, r), r, Known(r))
      <3>1. CASE TokensFor(z, r) = <<>>
        BY <3>1, ShortQueues DEF Continues
      <3>2. CASE TokensFor(z, r) # <<>>
        <4>1. r \in ToSet(batch)
          BY <1>5, <3>2 DEF TokensFor
        <4>2. TokensFor(z, r) = <<<<r, num[r]>>>> /\ num[r] \in Nat
          BY <1>9, <3>2, <4>1
        <4>3. num[r] = Known(r)
          <5>1. Lag(config, queue, r) = 0 /\ InBurst(burst, r) = 0
            BY <1>2, LagIs DEF InBurst
          <5>2. num[r] = Known(r) + Lag(config, queue, r)
                           + InBurst(burst, r)
            BY <1>0, <2>1, <4>1 DEF Lengths
          <5>3. Known(r) \in Nat
            BY <1>0, ConfigFacts
          <5> QED
            BY <5>1, <5>2, <5>3
        <4>4. DOMAIN <<<<r, num[r]>>>> = 1 .. 1
          BY ShortQueues, SeqFacts
        <4> QED
          BY <4>2, <4>3, <4>4 DEF Continues
      <3> QED
        BY <3>1, <3>2
    <2> QED
      BY <1>4, <1>12, <2>1 DEF QueueRight, Known
  <1>14. PreRight' /\ StateRight'
    BY <1>2, <1>4 DEF PreRight, StateRight
  <1>15. BurstRight'
    <2>1. ASSUME NEW r \in Req, TokensFor(z, r) # <<>>
          PROVE  /\ r \in ToSet(batch)
                 /\ computed[r] = num'[r] - Len(TokensFor(z, r))
      <3>1. r \in ToSet(batch)
        BY <1>5, <2>1 DEF TokensFor
      <3>2. /\ TokensFor(z, r) = <<<<r, num[r]>>>> /\ num[r] \in Nat
            /\ computed[r] = num[r] /\ g.num[r] = num[r] + 1
        BY <1>9, <2>1, <3>1
      <3>3. Len(TokensFor(z, r)) = 1
        BY <3>2, ShortQueues
      <3>4. PICK m \in Nat : m = num[r]
        BY <3>2
      <3>5. computed[r] = m /\ num'[r] = m + 1
        BY <1>2, <3>2, <3>4
      <3> QED
        BY <3>1, <3>3, <3>5
    <2> QED
      BY <1>2, <1>4, <1>12, <2>1 DEF BurstRight, IsLast
  <1>16. StepsRight'
    BY <1>4 DEF VInv, StepsRight, Async, Mode, MaxLen
  <1> QED
    BY <1>10, <1>11, <1>13, <1>14, <1>15, <1>16 DEF VInv

\* Without drafts the results of the previous step make the host's copy
\* right to the end, and no longer or shorter.
LEMMA PreviousHolds ==
  ASSUME LInv, Plain, VInv, pc = "sample", Async,
         NEW h, h = IF pre = <<>> THEN Host ELSE Modified(pre[1], batch, Host),
         NEW r \in ToSet(batch)
  PROVE  Holds(h, r, num[r]) /\ Grows(Host, h, r, 0)
  <1>0. Shape /\ Previous /\ Lengths /\ config.drafts = 0
    BY DEF LInv, Plain, Drafts
  <1>1. PICK g : g = Host
    OBVIOUS
  <1>2. IsHost(g) /\ g.num = num /\ g.output = output
    BY <1>0, <1>1, HostIs
  <1>3. r \in Req
    BY <1>0, BatchFacts DEF Shape
  <1>4. num[r] = Prompt[r] + Len(output[r])
    BY <1>0 DEF Lengths
  <1>5. PICK n \in Nat : n = num[r] /\ n <= MaxLen
    BY <1>0, <1>3, <1>4, ConfigFacts DEF VInv, RowsRight
  <1>6. Holds(g, r, Filled(r))
    BY <1>1 DEF VInv, RowsRight
  <1>7. CASE pre = <<>>
    <2>1. h = g
      BY <1>1, <1>7
    <2>2. Filled(r) = n
      BY <1>5, <1>7 DEF Filled, Pending
    <2>3. Len(output[r]) \in Nat
      BY <1>0, <1>3, ConfigFacts
    <2>4. Grows(g, g, r, 0)
      BY <1>2, <1>5, <2>3 DEF Grows
    <2> QED
      BY <1>1, <1>5, <1>6, <2>1, <2>2, <2>4
  <1>8. CASE pre # <<>>
    <2>1. PICK p : p = pre[1]
      OBVIOUS
    <2>2. IsPrevious(p)
      BY <1>0, <1>8, <2>1 DEF Previous
    <2>3. /\ IsResult(config, p)
          /\ \A i \in p.counted : p.batch[i] \in ToSet(batch) =>
               Len(g.output[p.batch[i]]) >= PlaceholdersOf(p, p.batch[i])
      BY <1>2, <2>2 DEF IsPrevious
    <2>4. h = Modified(p, batch, g)
      BY <1>1, <1>8, <2>1
    <2>5. /\ \A i \in p.counted :
               /\ p.batch[i] = r /\ r \in ToSet(batch) /\ Holds(g, r, n - 1)
               /\ Extracted(p)[i] = <<<<r, n - 1>>>>
               => Holds(h, r, n)
          /\ /\ ~ (\E i \in p.counted : p.batch[i] = r /\ r \in ToSet(batch))
             /\ Holds(g, r, n)
             => Holds(h, r, n)
      <3>1. n = g.num[r] /\ n = Prompt[r] + Len(g.output[r])
        BY <1>2, <1>4, <1>5
      <3> QED
        BY <1>0, <1>2, <1>3, <1>5, <2>3, <2>4, <3>1, ModifiedHolds
    <2>6. /\ \A i \in p.counted : p.batch[i] \in ToSet(batch) =>
               Grows(g, h, p.batch[i],
                     Len(Extracted(p)[i]) - PlaceholdersOf(p, p.batch[i]))
          /\ ~ (\E i \in p.counted : p.batch[i] = r /\ r \in ToSet(batch))
                 => Grows(g, h, r, 0)
      BY <1>2, <1>3, <2>3, <2>4, ModifiedFacts
    <2>7. CASE Pending(r)
      <3>1. PICK i \in p.counted : p.batch[i] = r
        BY <2>1, <2>7 DEF Pending
      <3>2. Filled(r) = n - 1
        BY <1>5, <2>7 DEF Filled
      <3>3. Kept(p, i, r, num[r] - 1)
        BY <1>8, <2>1, <3>1 DEF VInv, PreRight
      <3>4. Extracted(p)[i] = <<<<r, n - 1>>>>
        <4>1. i \in DOMAIN p.batch
          BY <2>3 DEF IsResult
        <4>2. Extracted(p)[i] = p.next[p.places[i]]
          BY <4>1 DEF Extracted
        <4> QED
          BY <1>5, <3>3, <4>2 DEF Kept
      <3>5. Holds(h, r, n)
        BY <1>6, <2>5, <3>1, <3>2, <3>4
      <3>6. PICK l, m : /\ l = Len(Extracted(p)[i])
                        /\ m = PlaceholdersOf(p, r) /\ l = m /\ m \in Nat
        BY <1>0, <2>3, <3>1, ResultFacts
      <3>7. Grows(g, h, p.batch[i],
                  Len(Extracted(p)[i]) - PlaceholdersOf(p, p.batch[i]))
        BY <2>6, <3>1
      <3>8. Grows(g, h, r, l - m)
        BY Zenon, <3>1, <3>6, <3>7
      <3>9. l - m = 0
        BY <3>6
      <3> QED
        BY <1>1, <1>5, <3>5, <3>8, <3>9
    <2>8. CASE ~ Pending(r)
      <3>1. ~ (\E i \in p.counted : p.batch[i] = r /\ r \in ToSet(batch))
        BY <1>8, <2>1, <2>8 DEF Pending
      <3>2. Filled(r) = n
        BY <1>5, <2>8 DEF Filled
      <3> QED
        BY <1>1, <1>5, <1>6, <2>5, <2>6, <3>1, <3>2
    <2> QED
      BY <2>7, <2>8
  <1> QED
    BY <1>7, <1>8

\* Where the next step finds a result that counts: the token is kept there.
LEMMA KeptIs ==
  ASSUME LInv, Plain, VInv, pc = "sample", state # <<>>,
         NEW e, e = Sampled, NEW i \in e.counted, i \in DOMAIN batch,
         NEW r, r = batch[i], NEW p, p.next = e.next, p.places = e.places,
         p.placeholders = Placeholders(e),
         p.device = [s \in DOMAIN e.next |-> e.next[s][1]]
  PROVE  /\ DOMAIN p.placeholders = {e.batch[k] : k \in e.counted}
         /\ Kept(p, i, r, num[r])
  <1>0. Shape /\ Drafts = 0
    BY DEF LInv, Plain
  <1>1. IsSampled(e) /\ e.batch = batch /\ IsBatch(batch)
    BY SampledIs DEF IsSampled
  <1>2. Extracted(e)[i] = <<<<r, num[r]>>>>
    BY ResultIs
  <1>3. Extracted(e)[i] = e.next[e.places[i]]
    BY <1>1 DEF Extracted
  <1>4. e.next = state[1].next /\ e.places = state[1].places
    BY DEF Sampled
  <1>5. e.places[i] \in Nat \cap DOMAIN e.next
    BY <1>4 DEF VInv, StateRight
  <1>6. p.placeholders = [s \in {e.batch[k] : k \in e.counted} |->
          PlaceOf(e, CHOOSE k \in DOMAIN e.batch : e.batch[k] = s)]
    BY <1>0 DEF Placeholders
  <1>7. r \in {e.batch[k] : k \in e.counted}
    BY <1>1
  <1>8. (CHOOSE k \in DOMAIN e.batch : e.batch[k] = r) = i
    BY <1>1, BatchFacts
  <1>9. p.placeholders[r] = e.places[i]
    <2>1. p.placeholders[r]
            = PlaceOf(e, CHOOSE k \in DOMAIN e.batch : e.batch[k] = r)
      BY <1>6, <1>7
    <2>2. p.placeholders[r] = PlaceOf(e, i)
      BY Zenon, <1>8, <2>1
    <2> QED
      BY <1>0, <2>2 DEF PlaceOf
  <1>10. p.device[e.places[i]] = e.next[e.places[i]][1]
    BY <1>5
  <1>11. <<<<r, num[r]>>>>[1] = <<r, num[r]>>
    OBVIOUS
  <1>12. p.device[p.placeholders[r]] = <<r, num[r]>>
    BY <1>2, <1>3, <1>9, <1>10, <1>11
  <1>13. p.next[p.places[i]] = <<<<r, num[r]>>>>
    BY <1>2, <1>3
  <1>14. Kept(p, i, r, num[r])
    BY <1>5, <1>9, <1>12, <1>13 DEF Kept
  <1> QED
    BY <1>6, <1>14

\* Asynchronous sampling corrects the host's copy, and leaves a placeholder
\* for each result: the next token, which the device keeps.
LEMMA SampleAsyncRight ==
  ASSUME LInv, Plain, VInv, SampleAsync
  PROVE  VInv'
  <1>0. Shape /\ Outputs /\ Phases /\ Lengths /\ Drafts = 0
        /\ config.drafts = 0
    BY DEF LInv, Plain, Drafts
  <1>1. PICK e, h, g, z, p, hit : AsyncOf(e, h, g, z, p, hit)
    BY AsyncIs
  <1>2. /\ e = Sampled /\ IsSampled(e)
        /\ h = IF pre = <<>> THEN Host ELSE Modified(pre[1], batch, Host)
        /\ g = WithPlaceholders(hit, h)
        /\ row' = g.row /\ num' = g.num /\ output' = g.output
        /\ z = Output(e.batch, Extracted(e), {}) /\ queue' = Append(queue, z)
        /\ hit = {e.batch[i] : i \in e.counted}
        /\ pre' = <<p>> /\ p.batch = e.batch /\ p.counted = e.counted
    BY <1>1 DEF AsyncOf
  <1>3. /\ p.next = e.next /\ p.places = e.places
        /\ p.placeholders = Placeholders(e)
        /\ p.device = [s \in DOMAIN e.next |-> e.next[s][1]]
    BY <1>0, <1>1 DEF AsyncOf
  <1>4. /\ pc = "sample" /\ pc' = "schedule" /\ Async
        /\ state # <<>> /\ state' = <<>>
        /\ UNCHANGED <<config, status, received, computed, inflight, so,
                       drafted, batch, burst>>
    BY DEF SampleAsync, schedulerVars, stepVars
  <1>5. /\ e.batch = batch /\ IsBatch(batch)
        /\ e.counted \subseteq DOMAIN batch
        /\ DOMAIN so = ToSet(batch)
    BY <1>2 DEF IsSampled
  <1>6. /\ IsOutput(config, z) /\ z.batch = batch
        /\ \A i \in DOMAIN batch : TokensFor(z, batch[i]) = Extracted(e)[i]
    BY <1>0, <1>2, SampledOutput
  <1>7. IsHost(h) /\ \A r \in ToSet(batch) :
          status[r] # "finished" => h.num[r] = Known(r) + Got(queue, r)
    BY <1>2, <1>4, PreviousHost
  <1>8. Host.num = num /\ Host.output = output
    BY DEF Host
  <1>9. \A i \in DOMAIN batch : i \notin e.counted => batch[i] \notin hit
    BY <1>2, <1>5 DEF IsBatch
  <1>10. pre' # <<>> /\ pre'[1] = p
    BY <1>2, ShortQueues
  <1>11. ASSUME NEW r \in ToSet(batch)
         PROVE  /\ h.num[r] = num[r]
                /\ Len(h.output[r]) = Len(output[r])
                /\ Holds(h, r, num[r])
                /\ r \in Req /\ num[r] \in Nat /\ drafted[r] = 0
    <2>1. r \in Req
      BY <1>5, BatchFacts
    <2>2. num[r] = Prompt[r] + Len(output[r]) /\ num[r] \in Nat
          /\ Len(output[r]) \in Nat
      BY <1>0, <2>1, ConfigFacts DEF Lengths
    <2>3. Holds(h, r, num[r]) /\ Grows(Host, h, r, 0)
      BY <1>2, <1>4, PreviousHolds
    <2>4. drafted[r] = 0
      BY <1>0, <1>5 DEF Shape, IsDrafted
    <2> QED
      BY <1>8, <2>1, <2>2, <2>3, <2>4 DEF Grows
  <1>12. ASSUME NEW i \in DOMAIN batch, NEW r, r = batch[i]
         PROVE  /\ r \in ToSet(batch)
                /\ g.num[r] <= MaxLen /\ Holds(g, r, num[r])
                /\ i \in e.counted =>
                     /\ TokensFor(z, r) = <<<<r, num[r]>>>>
                     /\ computed[r] = num[r] /\ g.num[r] = num[r] + 1
                /\ i \notin e.counted => /\ TokensFor(z, r) = <<>>
                                         /\ g.num[r] = num[r]
    <2>1. /\ r \in Req /\ r \in ToSet(batch)
          /\ num[r] = Prompt[r] + Len(output[r])
          /\ i \in e.counted => /\ computed[r] = num[r]
                                /\ num[r] + 1 <= MaxLen
                                /\ Extracted(e)[i] = <<<<r, num[r]>>>>
          /\ i \notin e.counted => Extracted(e)[i] = <<>>
      BY <1>2, <1>4, <1>12, ResultIs
    <2>2. TokensFor(z, r) = Extracted(e)[i]
      BY <1>6, <1>12
    <2>3. PICK m \in Nat : /\ m = num[r] /\ m = h.num[r] /\ Holds(h, r, m)
                           /\ m = Prompt[r] + Len(h.output[r])
                           /\ drafted[r] = 0
      BY <1>11, <2>1
    <2>4. Holds(g, r, m)
      <3>1. /\ r \in hit => drafted[r] \in Nat
            /\ m <= Prompt[r] + Len(h.output[r])
        BY <2>3
      <3> QED
        BY <1>0, <1>2, <1>7, <2>1, <2>3, <3>1, WithPlaceholdersHolds
    <2>5. g.num[r] = IF r \in hit THEN m + 1 ELSE m
      <3>1. g.num = [q \in Req |-> IF q \in hit
                       THEN h.num[q] + 1 + drafted[q] ELSE h.num[q]]
        BY <1>2, <1>7 DEF WithPlaceholders, IsHost
      <3>2. g.num[r] = IF r \in hit THEN m + 1 + 0 ELSE m
        BY <2>1, <2>3, <3>1
      <3> QED
        BY <3>2
    <2>6. num[r] <= MaxLen
      BY <2>1 DEF VInv, RowsRight
    <2>7. CASE i \in e.counted
      <3>1. r \in hit
        BY <1>2, <1>5, <1>12, <2>7
      <3> QED
        BY <2>1, <2>2, <2>3, <2>4, <2>5, <2>7, <3>1
    <2>8. CASE i \notin e.counted
      <3>1. r \notin hit
        BY <1>9, <1>12, <2>8
      <3> QED
        BY <2>1, <2>2, <2>3, <2>4, <2>5, <2>6, <2>8, <3>1
    <2> QED
      BY <2>7, <2>8
  <1>13. RowsRight'
    <2>1. ASSUME NEW r \in ToSet(batch)
          PROVE  num'[r] <= MaxLen /\ Holds(Host, r, Filled(r))'
      <3>1. PICK i \in DOMAIN batch : r = batch[i]
        BY <1>5, BatchFacts
      <3>2. /\ g.num[r] <= MaxLen /\ Holds(g, r, num[r])
            /\ i \in e.counted => g.num[r] = num[r] + 1
            /\ i \notin e.counted => g.num[r] = num[r]
        BY <1>12, <3>1
      <3>3. Pending(r)' <=> i \in e.counted
        BY <1>2, <1>5, <1>10, <3>1 DEF Pending, IsBatch
      <3>4. num[r] \in Nat
        BY <1>11
      <3>5. Filled(r)' = num[r]
        BY <1>2, <3>2, <3>3, <3>4 DEF Filled
      <3> QED
        BY <1>2, <3>2, <3>5 DEF Holds, Host
    <2> QED
      BY <1>4, <2>1 DEF RowsRight, MaxLen
  <1>14. ReceivedRight'
    BY <1>4 DEF VInv, ReceivedRight
  <1>15. ASSUME NEW r \in Req, status[r] # "finished"
         PROVE  Continues(TokensFor(z, r), r, Known(r) + Got(queue, r))
    <2>1. CASE TokensFor(z, r) = <<>>
      BY <2>1, ShortQueues DEF Continues
    <2>2. CASE TokensFor(z, r) # <<>>
      <3>1. r \in ToSet(batch)
        BY <1>6, <2>2 DEF TokensFor
      <3>2. PICK i \in DOMAIN batch : r = batch[i]
        BY <1>5, <3>1, BatchFacts
      <3>3. TokensFor(z, r) = <<<<r, num[r]>>>> /\ num[r] \in Nat
        BY <1>11, <1>12, <2>2, <3>1, <3>2
      <3>4. num[r] = Known(r) + Got(queue, r)
        BY <1>7, <1>11, <1>15, <3>1
      <3>5. DOMAIN <<<<r, num[r]>>>> = 1 .. 1
        BY ShortQueues, SeqFacts
      <3> QED
        BY <3>3, <3>4, <3>5 DEF Continues
    <2> QED
      BY <2>1, <2>2
  <1>16. HasRoom(config, queue)
    BY <1>0, <1>4, RoomInQueue
  <1>17. QueueRight'
    <2>1. CASE queue = <<>>
      <3>1. queue' = <<z>> /\ queue'[1] = z /\ Len(queue') = 1
        BY <1>2, <2>1, ShortQueues
      <3>2. ASSUME NEW r \in Req, status[r] # "finished"
            PROVE  Continues(TokensFor(z, r), r, Known(r))
        <4>1. Known(r) + Got(queue, r) = Known(r)
          BY <1>0, <2>1, ConfigFacts DEF Got
        <4> QED
          BY <1>15, <3>2, <4>1
      <3> QED
        BY <1>4, <3>1, <3>2 DEF QueueRight, Known
    <2>2. CASE queue # <<>>
      <3>1. PICK x : queue = <<x>>
        BY <1>16, <2>2, QueueIs, ShortQueues DEF HasRoom
      <3>2. queue' = <<x, z>> /\ queue[1] = x
        BY <1>2, <3>1, ShortQueues
      <3>3. queue'[1] = x /\ queue'[2] = z
        BY <3>2, ShortQueues
      <3>4. ASSUME NEW r \in Req, status[r] # "finished"
            PROVE  /\ Continues(TokensFor(x, r), r, Known(r))
                   /\ Continues(TokensFor(z, r), r,
                                Known(r) + Len(TokensFor(x, r)))
        <4>1. Got(queue, r) = Len(TokensFor(x, r))
          BY <2>2, <3>2 DEF Got
        <4> QED
          BY <1>15, <2>2, <3>2, <3>4, <4>1 DEF VInv, QueueRight
      <3> QED
        BY <1>4, <3>3, <3>4 DEF QueueRight, Known
    <2> QED
      BY <2>1, <2>2
  <1>18. PreRight'
    <2>1. ASSUME NEW i \in p.counted, NEW r \in ToSet(batch), p.batch[i] = r
          PROVE  Kept(p, i, r, num'[r] - 1) /\ computed[r] >= num'[r] - 1
      <3>1. i \in e.counted /\ i \in DOMAIN batch /\ r = batch[i]
        BY <1>2, <1>5, <2>1
      <3>2. Kept(p, i, r, num[r])
        BY <1>2, <1>3, <1>4, <3>1, KeptIs
      <3>3. computed[r] = num[r] /\ g.num[r] = num[r] + 1 /\ num[r] \in Nat
        BY <1>11, <1>12, <3>1
      <3>4. PICK m \in Nat : m = num[r] /\ num'[r] = m + 1
        BY <1>2, <3>3
      <3>5. num'[r] - 1 = num[r]
        BY <3>4
      <3> QED
        BY <3>2, <3>3, <3>5
    <2>2. DOMAIN p.placeholders = {p.batch[i] : i \in p.counted}
      BY <1>0, <1>2, <1>3 DEF Placeholders
    <2> QED
      BY <1>4, <1>10, <2>1, <2>2 DEF PreRight
  <1>19. StateRight'
    BY <1>4 DEF StateRight
  <1>20. BurstRight'
    BY <1>0, <1>4 DEF BurstRight, Phases, Async, Mode
  <1>21. StepsRight'
    BY <1>4 DEF VInv, StepsRight, Async, Mode, MaxLen
  <1> QED
    BY <1>13, <1>14, <1>17, <1>18, <1>19, <1>20, <1>21 DEF VInv

\* Without drafts the tokens are right in every mode: all that the scheduler
\* has received, what is on its way to it, what the host's copies have and
\* what the device keeps in place of a placeholder.
THEOREM ValuesInvariant == Spec => [](LInv /\ (Plain => VInv))
  <1>1. Init => LInv /\ (Plain => VInv)
    BY InitLInv, InitRight
  <1>2. ASSUME LInv, Plain => VInv, [Next]_vars, LInv', Plain'
        PROVE  VInv'
    <2>1. config' = config
      BY <1>2 DEF Next, vars, Schedule, Abort, Deliver, ExecuteEmpty,
                  ExecuteModel, ExecuteContinueDecode, SampleBurst,
                  SampleSync, SampleAsync
    <2>2. Plain /\ VInv
      BY <1>2, <2>1 DEF Plain, Drafts, Mode, Chunk
    <2>3. CASE Schedule
      BY <1>2, <2>2, <2>3, ScheduleRight
    <2>4. CASE \E r \in Req : Abort(r)
      BY <1>2, <2>2, <2>4, AbortRight
    <2>5. CASE Deliver
      BY <1>2, <2>2, <2>5, DeliverRight
    <2>6. CASE ExecuteEmpty
      BY <1>2, <2>2, <2>6, ExecuteEmptyRight
    <2>7. CASE ExecuteModel
      BY <1>2, <2>2, <2>7, ExecuteModelRight
    <2>8. CASE ExecuteContinueDecode
      BY <1>2, <2>2, <2>8, ExecuteContinueDecodeRight
    <2>9. CASE SampleBurst
      BY <1>2, <2>2, <2>9, SampleBurstRight
    <2>10. CASE SampleSync
      BY <1>2, <2>2, <2>10, SampleSyncRight
    <2>11. CASE SampleAsync
      BY <1>2, <2>2, <2>11, SampleAsyncRight
    <2>12. CASE UNCHANGED vars
      BY <1>2, <2>2, <2>12, StutterRight
    <2> QED
      BY <1>2, <2>3, <2>4, <2>5, <2>6, <2>7, <2>8, <2>9, <2>10, <2>11, <2>12
         DEF Next
  <1>3. LInv /\ (Plain => VInv) /\ [Next]_vars /\ LInv' => (Plain => VInv)'
    BY <1>2
  <1> QED
    BY <1>1, <1>3, LengthsInvariant, PTL DEF Spec

\* While a step samples, all tokens that the runner has of an unfinished
\* request are received or on their way.
LEMMA QueuedInStep ==
  ASSUME LInv, config.drafts = 0, pc = "sample", state # <<>>,
         NEW r \in ToSet(batch), status[r] # "finished"
  PROVE  num[r] = Known(r) + Len(Queued(r)) /\ Len(Queued(r)) \in Nat
  <1>0. Shape /\ Outputs /\ Phases /\ Lengths
    BY DEF LInv
  <1>1. r \in Req /\ Known(r) \in Nat
    BY <1>0, BatchFacts, ConfigFacts DEF Shape
  <1>2. InBurst(burst, r) = 0
    BY <1>0 DEF Phases, InBurst
  <1>3. num[r] = Known(r) + Lag(config, queue, r) + InBurst(burst, r)
    BY <1>0 DEF Lengths
  <1>4. HasRoom(config, queue)
    BY <1>0, RoomInQueue
  <1>5. CASE queue = <<>>
    <2>1. Queued(r) = <<>>
      BY <1>5, QueuedIs
    <2>2. Lag(config, queue, r) = 0 /\ Len(Queued(r)) = 0
      BY <1>5, <2>1, EmptyIsSeq, LagIs
    <2> QED
      BY <1>1, <1>2, <1>3, <2>2
  <1>6. CASE queue # <<>>
    <2>1. PICK x : queue = <<x>>
      <3>1. IsSeq(queue) /\ Len(queue) <= 1
        BY <1>4 DEF HasRoom
      <3>2. (\E x : queue = <<x>>) \/ (\E x, y : queue = <<x, y>>)
        BY <1>6, <3>1, QueueIs
      <3>3. ~ (\E x, y : queue = <<x, y>>)
        BY <3>1, ShortQueues
      <3> QED
        BY <3>2, <3>3
    <2>2. IsOutput(config, x) /\ config.mode = "async" /\ queue[1] = x
      BY <1>4, <1>6, <2>1, ShortQueues DEF HasRoom
    <2>3. Queued(r) = TokensFor(x, r)
      BY <1>6, <2>1, <2>2, QueuedIs
    <2>4. Lag(config, queue, r) = Owed(x, r)
      BY <2>1, <2>2, LagIs
    <2>5. /\ Owed(x, r) = Len(TokensFor(x, r))
          /\ Len(TokensFor(x, r)) \in Nat
      BY <2>2, OutputFacts
    <2> QED
      BY <1>1, <1>2, <1>3, <2>3, <2>4, <2>5
  <1> QED
    BY <1>5, <1>6

\* Without drafts, every token that counts was computed from that request's
\* own tokens and is the next one.
THEOREM NextIsSampled == Spec => [](Plain => SampledIsNext)
  <1>1. LInv /\ (Plain => VInv) => (Plain => SampledIsNext)
    <2> SUFFICES ASSUME LInv, Plain, VInv, state # <<>>,
                        NEW i \in Counted(state[1].batch),
                        status[state[1].batch[i]] = "running"
                 PROVE  state[1].next[state[1].places[i]]
                   = [k \in 1 .. Len(state[1].next[state[1].places[i]]) |->
                       <<state[1].batch[i],
                         Known(state[1].batch[i])
                           + Len(Queued(state[1].batch[i])) + k - 1>>]
      BY DEF SampledIsNext
    <2>0. Phases /\ config.drafts = 0
      BY DEF LInv, Plain, Drafts
    <2>1. pc = "sample" /\ state[1].batch = batch
      BY <2>0 DEF Phases
    <2>2. PICK e : e = Sampled
      OBVIOUS
    <2>3. IsSampled(e) /\ i \in e.counted
      BY <2>1, <2>2, SampledIs DEF Sampled
    <2>4. i \in DOMAIN batch /\ e.batch = batch
      BY <2>3 DEF IsSampled
    <2>5. PICK r : r = batch[i]
      OBVIOUS
    <2>6. /\ r \in ToSet(batch)
          /\ Extracted(e)[i] = <<<<r, num[r]>>>> /\ num[r] \in Nat
      BY <2>1, <2>2, <2>3, <2>4, <2>5, ResultIs
    <2>7. Extracted(e)[i] = state[1].next[state[1].places[i]]
      BY <2>2, <2>3, <2>4 DEF Extracted, Sampled
    <2>8. PICK t : t = state[1].next[state[1].places[i]]
      OBVIOUS
    <2>9. PICK n : n = Known(r) + Len(Queued(r)) /\ n \in Nat /\ n = num[r]
      <3>1. status[r] # "finished"
        BY <2>1, <2>5
      <3> QED
        BY <2>0, <2>1, <2>6, <3>1, QueuedInStep
    <2>10. t = <<<<r, n>>>> /\ Len(t) = 1
      <3>1. t = <<<<r, n>>>>
        BY <2>6, <2>7, <2>8, <2>9, Zenon
      <3>2. PICK x : x = <<r, n>>
        OBVIOUS
      <3>3. Len(<<x>>) = 1
        BY ShortQueues
      <3> QED
        BY <3>1, <3>2, <3>3
    <2>11. t = [k \in 1 .. 1 |-> <<r, n + k - 1>>]
      <3>1. <<<<r, n>>>> = [k \in 1 .. 1 |-> <<r, n>>]
        OBVIOUS
      <3>2. \A k \in 1 .. 1 : n + k - 1 = n
        BY <2>9
      <3> QED
        BY <2>10, <3>1, <3>2
    <2>12. t = [k \in 1 .. Len(t) |-> <<r, n + k - 1>>]
      BY <2>10, <2>11
    <2>13. t = [k \in 1 .. Len(t) |->
                 <<r, Known(r) + Len(Queued(r)) + k - 1>>]
      BY <2>9, <2>12
    <2>14. state[1].batch[i] = r
      BY <2>1, <2>5
    <2> QED
      BY <2>8, <2>13, <2>14, Zenon
  <1> QED
    BY <1>1, ValuesInvariant, PTL

\* Without drafts, the scheduler receives each request's tokens in order,
\* each once.
THEOREM OrderKept == Spec => [](Plain => ReceivedInOrder)
  <1>1. LInv /\ (Plain => VInv) => (Plain => ReceivedInOrder)
    BY DEF VInv, ReceivedRight, Continues, ReceivedInOrder
  <1> QED
    BY <1>1, ValuesInvariant, PTL

\* Without drafts, the host's copies are right between steps, but for the
\* placeholders of the step before.
THEOREM HostRight == Spec => [](Plain => HostCatchesUp)
  <1>1. LInv /\ (Plain => VInv) => (Plain => HostCatchesUp)
    <2> SUFFICES ASSUME LInv, Plain, VInv, pc = "schedule",
                        NEW r \in ToSet(batch)
                 PROVE
          LET pending ==
                IF pre # <<>> /\ r \in {pre[1].batch[i] : i \in pre[1].counted}
                THEN 1 + pre[1].drafted[r] ELSE 0
          IN /\ num[r] = Prompt[r] + Len(output[r])
             /\ \A p \in 0 .. num[r] - 1 - pending : row[r][p] = <<r, p>>
             /\ \A k \in 1 .. Len(output[r]) - pending :
                  output[r][k] = <<r, Prompt[r] + k - 1>>
      BY Zenon DEF HostCatchesUp
    <2>0. Shape /\ Previous /\ Lengths /\ config.drafts = 0
      BY DEF LInv, Plain, Drafts
    <2>1. PICK n : n = IF pre # <<>>
                          /\ r \in {pre[1].batch[i] : i \in pre[1].counted}
                       THEN 1 + pre[1].drafted[r] ELSE 0
      OBVIOUS
    <2>2. n = IF Pending(r) THEN 1 ELSE 0
      <3>1. Pending(r) => pre[1].drafted[r] = 0
        <4> SUFFICES ASSUME Pending(r) PROVE pre[1].drafted[r] = 0
          OBVIOUS
        <4>1. IsResult(config, pre[1]) /\ batch = pre[1].batch
          BY <2>0 DEF Pending, Previous, IsPrevious
        <4> QED
          BY <2>0, <4>1 DEF IsResult, IsDrafted
      <3>2. Pending(r) <=>
              pre # <<>> /\ r \in {pre[1].batch[i] : i \in pre[1].counted}
        BY DEF Pending
      <3> QED
        BY <2>1, <3>1, <3>2
    <2>3. num[r] = Prompt[r] + Len(output[r])
      BY <2>0 DEF Lengths
    <2>4. PICK a \in Nat, l \in Nat : a = Prompt[r] /\ l = Len(output[r])
      BY <2>0, BatchFacts, ConfigFacts DEF Shape
    <2>5. PICK c \in Nat : c = num[r] /\ c = a + l
      BY <2>3, <2>4
    <2>6. PICK d \in Nat : d = n
      BY <2>2
    <2>7. PICK m \in Int : m = Filled(r) /\ m = c - d
      <3>1. Filled(r) = c - d
        BY <2>2, <2>5, <2>6 DEF Filled
      <3> QED
        BY <3>1
    <2>8. Holds(Host, r, m)
      BY <2>7 DEF VInv, RowsRight
    <2>9. num[r] - 1 - n = m - 1 /\ Len(output[r]) - n = m - Prompt[r]
      <3>1. c - 1 - d = (c - d) - 1 /\ l - d = (c - d) - a
        BY <2>5
      <3> QED
        BY <2>4, <2>7, <2>5, <2>6, <3>1
    <2>10. /\ \A p \in 0 .. num[r] - 1 - n : row[r][p] = <<r, p>>
           /\ \A k \in 1 .. Len(output[r]) - n :
                output[r][k] = <<r, Prompt[r] + k - 1>>
      BY <2>8, <2>9 DEF Holds, Host
    <2> QED
      BY <2>1, <2>3, <2>10, Zenon
  <1> QED
    BY <1>1, ValuesInvariant, PTL

(***************************************************************************)
(* Where a step finds the routed experts of its tokens, without drafts.    *)
(***************************************************************************)

\* The first k of n rows have S[k] elements.
RowSums(s, n, S) ==
  /\ S[0] = 0 /\ \A k \in 0 .. n : S[k] \in Nat
  /\ \A k \in 1 .. n : IsSeq(s[k]) /\ S[k] = S[k - 1] + Len(s[k])

\* Where an element of a row is among all.
LEMMA RowPlaces ==
  ASSUME NEW n \in Nat, NEW s, NEW S, RowSums(s, n, S)
  PROVE  /\ \A i \in 1 .. n : \A j \in 1 .. Len(s[i]) :
              S[i - 1] + j \in 1 .. S[n] /\ S[i - 1] + j <= S[i]
         /\ \A x \in 1 .. S[n] : \E i \in 1 .. n : \E j \in 1 .. Len(s[i]) :
              x = S[i - 1] + j
         /\ \A x \in 1 .. S[n] : \A i, k \in 1 .. n :
              S[i - 1] < x /\ x <= S[i] /\ S[k - 1] < x /\ x <= S[k] => i = k
  <1>1. \A k \in 0 .. n : S[k] \in Int
    BY DEF RowSums
  <1>2. ASSUME NEW k \in 1 .. n
        PROVE  /\ Len(s[k]) \in Nat /\ S[k] = S[k - 1] + Len(s[k])
               /\ S[k] \in Nat /\ S[k - 1] \in Nat /\ S[k - 1] <= S[k]
    <2>1. k \in 0 .. n /\ k - 1 \in 0 .. n
      OBVIOUS
    <2>2. Len(s[k]) \in Nat /\ S[k] = S[k - 1] + Len(s[k])
      BY SeqFacts DEF RowSums
    <2>3. S[k] \in Nat /\ S[k - 1] \in Nat
      BY <2>1 DEF RowSums
    <2> QED
      BY <2>2, <2>3
  <1>3. \A k, l \in 0 .. n : k <= l => S[k] <= S[l]
    BY <1>1, <1>2, GrowsUp
  <1>4. ASSUME NEW i \in 1 .. n, NEW j \in 1 .. Len(s[i])
        PROVE  S[i - 1] + j \in 1 .. S[n] /\ S[i - 1] + j <= S[i]
    <2>1. S[i] <= S[n] /\ S[n] \in Nat
      <3>1. i \in 0 .. n /\ n \in 0 .. n /\ i <= n
        OBVIOUS
      <3> QED
        BY <1>3, <3>1 DEF RowSums
    <2>2. /\ Len(s[i]) \in Nat /\ S[i] = S[i - 1] + Len(s[i])
          /\ S[i - 1] \in Nat
      BY <1>2
    <2> QED
      BY <2>1, <2>2
  <1>5. ASSUME NEW x \in 1 .. S[n]
        PROVE  \E i \in 1 .. n : \E j \in 1 .. Len(s[i]) : x = S[i - 1] + j
    <2>1. PICK T : T = {k \in 0 .. n : x <= S[k]}
      OBVIOUS
    <2>2. n \in T /\ T \in SUBSET Nat
      <3>1. S[n] \in Nat /\ n \in 0 .. n
        BY DEF RowSums
      <3> QED
        BY <2>1, <3>1
    <2>3. PICK i \in T : \A k \in T : i <= k
      BY <2>2, NatLeast
    <2>4. i \in 0 .. n /\ x <= S[i]
      BY <2>1, <2>3
    <2>5. i \in 1 .. n
      <3>1. ~ (x <= 0)
        OBVIOUS
      <3>2. S[0] = 0
        BY DEF RowSums
      <3> QED
        BY <2>4, <3>1, <3>2
    <2>6. i - 1 \in 0 .. n /\ i - 1 \notin T
      BY <2>2, <2>3, <2>5
    <2>7. ~ (x <= S[i - 1])
      BY <2>1, <2>6
    <2>8. /\ Len(s[i]) \in Nat /\ S[i] = S[i - 1] + Len(s[i])
          /\ S[i - 1] \in Nat
      BY <1>2, <2>5
    <2>9. PICK j \in 1 .. Len(s[i]) : x = S[i - 1] + j
      <3>1. x - S[i - 1] \in 1 .. Len(s[i])
        BY <2>4, <2>7, <2>8
      <3>2. x = S[i - 1] + (x - S[i - 1])
        BY <2>8
      <3> QED
        BY <3>1, <3>2
    <2> QED
      BY <2>5, <2>9
  <1>6. ASSUME NEW x \in 1 .. S[n], NEW i \in 1 .. n, NEW k \in 1 .. n,
               S[i - 1] < x, x <= S[i], S[k - 1] < x, x <= S[k]
        PROVE  i = k
    <2>1. \A a, b \in 1 .. n :
            a < b => S[a] <= S[b - 1] /\ S[a] \in Int /\ S[b - 1] \in Int
      <3> SUFFICES ASSUME NEW a \in 1 .. n, NEW b \in 1 .. n, a < b
                   PROVE  S[a] <= S[b - 1] /\ S[a] \in Int /\ S[b - 1] \in Int
        OBVIOUS
      <3>1. a \in 0 .. n /\ b - 1 \in 0 .. n /\ a <= b - 1
        OBVIOUS
      <3> QED
        BY <1>1, <1>3, <3>1
    <2>2. ~ (i < k)
      <3> SUFFICES ASSUME i < k PROVE FALSE
        OBVIOUS
      <3>1. S[i] <= S[k - 1] /\ S[i] \in Int /\ S[k - 1] \in Int
        BY <2>1
      <3> QED
        BY <1>6, <3>1
    <2>3. ~ (k < i)
      <3> SUFFICES ASSUME k < i PROVE FALSE
        OBVIOUS
      <3>1. S[k] <= S[i - 1] /\ S[k] \in Int /\ S[i - 1] \in Int
        BY <2>1
      <3> QED
        BY <1>6, <3>1
    <2> QED
      BY <2>2, <2>3
  <1> QED
    BY <1>4, <1>5, <1>6

\* A list is the function of its elements.
LEMMA SeqIs ==
  ASSUME NEW s, IsSeq(s)
  PROVE  s = [k \in 1 .. Len(s) |-> s[k]]
  BY DEF IsSeq

\* The list u has the rows one after the other.
InRows(u, s, n, S) ==
  /\ IsSeq(u) /\ Len(u) = S[n]
  /\ \A i \in 1 .. n : \A j \in 1 .. Len(s[i]) : u[S[i - 1] + j] = s[i][j]

\* FlattenSeq does that.
LEMMA FlattenAt ==
  ASSUME NEW n \in Nat, NEW s, s = [k \in 1 .. n |-> s[k]],
         NEW S, RowSums(s, n, S)
  PROVE  InRows(FlattenSeq(s), s, n, S)
  <1>1. CASE n = 0
    <2>1. IsSeq(s) /\ Len(s) = 0
      BY <1>1, FunctionIsSeq
    <2>2. FlattenSeq(s) = s
      BY <2>1 DEF FlattenSeq
    <2> QED
      BY <1>1, <2>1, <2>2 DEF RowSums, InRows
  <1>2. CASE n # 0
    <2>1. PICK own : own = [x \in 1 .. S[n] |-> CHOOSE i \in 1 .. n :
                              S[i - 1] < x /\ x <= S[i]]
      OBVIOUS
    <2>2. PICK v : v = [x \in 1 .. S[n] |-> s[own[x]][x - S[own[x] - 1]]]
      OBVIOUS
    <2>3. ASSUME NEW k \in 1 .. n
          PROVE  /\ IsSeq(s[k]) /\ Len(s[k]) \in Nat
                 /\ S[k] = S[k - 1] + Len(s[k])
                 /\ S[k] \in Nat /\ S[k - 1] \in Nat
      <3>1. k \in 0 .. n /\ k - 1 \in 0 .. n
        OBVIOUS
      <3> QED
        BY <3>1, SeqFacts DEF RowSums
    <2>4. ASSUME NEW i \in 1 .. n, NEW j \in 1 .. Len(s[i])
          PROVE  v[S[i - 1] + j] = s[i][j]
      <3>1. PICK x \in 1 .. S[n] : x = S[i - 1] + j /\ x <= S[i]
        BY RowPlaces
      <3>2. S[i - 1] < x /\ x - S[i - 1] = j
        BY <2>3, <3>1
      <3>3. \A k \in 1 .. n : S[k - 1] < x /\ x <= S[k] => k = i
        BY <3>1, <3>2, RowPlaces
      <3>4. (CHOOSE k \in 1 .. n : S[k - 1] < x /\ x <= S[k]) = i
        BY <3>1, <3>2, <3>3
      <3>5. own[x] = i
        BY <2>1, <3>4
      <3>6. v[x] = s[own[x]][x - S[own[x] - 1]]
        BY <2>2
      <3> QED
        BY <3>1, <3>2, <3>5, <3>6
    <2>5. PICK w : w = [k \in 1 .. n |-> [x \in 1 .. S[k] |-> v[x]]]
      OBVIOUS
    <2>6. ASSUME NEW k \in 1 .. n
          PROVE  IsSeq(w[k]) /\ Len(w[k]) = S[k]
                 /\ \A x \in 1 .. S[k] : w[k][x] = v[x]
      <3>1. w[k] = [x \in 1 .. S[k] |-> v[x]]
        BY <2>5
      <3>2. PICK m \in Nat : m = S[k]
        BY <2>3
      <3>3. PICK u : u = w[k]
        OBVIOUS
      <3>4. u = [x \in 1 .. m |-> u[x]]
        BY <3>1, <3>2, <3>3
      <3> QED
        BY <3>1, <3>2, <3>3, <3>4, FunctionIsSeq
    <2>7. ASSUME NEW k \in 1 .. n, k = 1 PROVE w[k] = s[k]
      <3>1. S[k - 1] = 0 /\ S[k] = Len(s[k])
        <4>1. k - 1 = 0
          BY <2>7
        <4> QED
          BY <2>3, <4>1 DEF RowSums
      <3>2. \A x \in 1 .. Len(s[k]) : w[k][x] = s[k][x]
        <4> SUFFICES ASSUME NEW x \in 1 .. Len(s[k])
                     PROVE  w[k][x] = s[k][x]
          OBVIOUS
        <4>1. S[k - 1] + x = x
          BY <2>3, <3>1
        <4> QED
          BY <2>4, <2>6, <3>1, <4>1
      <3>3. /\ w[k] = [x \in 1 .. Len(w[k]) |-> w[k][x]]
            /\ s[k] = [x \in 1 .. Len(s[k]) |-> s[k][x]]
        BY <2>3, <2>6, SeqIs
      <3>4. Len(w[k]) = Len(s[k])
        BY <2>6, <3>1
      <3> QED
        BY <3>2, <3>3, <3>4
    <2>8. ASSUME NEW k \in 1 .. n, k # 1 PROVE w[k] = w[k - 1] \o s[k]
      <3>1. k - 1 \in 1 .. n
        BY <2>8
      <3>2. PICK a, c, u : a = w[k - 1] /\ c = s[k] /\ u = a \o c
        OBVIOUS
      <3>3. PICK l \in Nat, m \in Nat : l = S[k - 1] /\ m = Len(s[k])
        BY <2>3
      <3>4. IsSeq(a) /\ Len(a) = l /\ IsSeq(c) /\ Len(c) = m
        BY <2>3, <2>6, <3>1, <3>2, <3>3
      <3>5. IsSeq(u) /\ Len(u) = l + m
        BY <3>2, <3>4, ConcatIsSeq
      <3>6. Len(w[k]) = l + m /\ S[k] = l + m
        BY <2>3, <2>6, <3>3
      <3>7. ASSUME NEW x \in 1 .. l + m PROVE w[k][x] = u[x]
        <4>1. w[k][x] = v[x]
          BY <2>6, <3>6
        <4>2. CASE x <= l
          <5>1. x \in 1 .. l
            BY <4>2
          <5>2. a[x] = v[x]
            BY <2>6, <3>1, <3>2, <3>3, <5>1
          <5>3. u[x] = a[x]
            BY <3>2, <3>4, <5>1, ConcatAt
          <5> QED
            BY <4>1, <5>2, <5>3
        <4>3. CASE ~ (x <= l)
          <5>1. PICK j \in 1 .. m : x = l + j
            <6>1. x - l \in 1 .. m /\ x = l + (x - l)
              BY <4>3
            <6> QED
              BY <6>1
          <5>2. v[x] = c[j]
            BY <2>4, <3>2, <3>3, <5>1
          <5>3. u[x] = c[j]
            <6>1. \A i \in 1 .. Len(c) : (a \o c)[Len(a) + i] = c[i]
              BY <3>4, ConcatAt
            <6>2. (a \o c)[l + j] = c[j]
              BY <3>4, <6>1
            <6> QED
              BY <3>2, <5>1, <6>2
          <5> QED
            BY <4>1, <5>2, <5>3
        <4> QED
          BY <4>2, <4>3
      <3>8. /\ w[k] = [x \in 1 .. Len(w[k]) |-> w[k][x]]
            /\ u = [x \in 1 .. Len(u) |-> u[x]]
        BY <2>6, <3>5, SeqIs
      <3> QED
        BY <3>2, <3>5, <3>6, <3>7, <3>8
    <2>9. FlattenSeq(s) = w[n]
      <3>1. w = [k \in 1 .. n |-> w[k]]
        BY <2>5
      <3>2. \A k \in 1 .. n :
              w[k] = IF k = 1 THEN s[k] ELSE w[k - 1] \o s[k]
        BY <2>7, <2>8
      <3>3. Flattens(w, s, n)
        BY <1>2, <3>1, <3>2 DEF Flattens
      <3> QED
        BY <3>3, FlattenIs
    <2>10. n \in 1 .. n
      BY <1>2
    <2>11. ASSUME NEW i \in 1 .. n, NEW j \in 1 .. Len(s[i])
           PROVE  w[n][S[i - 1] + j] = s[i][j]
      <3>1. S[i - 1] + j \in 1 .. S[n]
        BY RowPlaces
      <3> QED
        BY <2>4, <2>6, <2>10, <3>1
    <2> QED
      BY <2>6, <2>9, <2>10, <2>11 DEF InRows
  <1> QED
    BY <1>1, <1>2

\* Two lists of n rows whose lengths are the same.
SameRows(s, t, n) ==
  /\ s = [k \in 1 .. n |-> s[k]] /\ t = [k \in 1 .. n |-> t[k]]
  /\ \A k \in 1 .. n : IsSeq(s[k]) /\ IsSeq(t[k]) /\ Len(s[k]) = Len(t[k])

\* At every place, the lists u and v have elements of one place of the rows.
Alike(u, v, s, t, n) ==
  /\ IsSeq(u) /\ IsSeq(v) /\ Len(u) = Len(v)
  /\ \A x \in 1 .. Len(u) : \E i \in 1 .. n : \E j \in 1 .. Len(s[i]) :
       u[x] = s[i][j] /\ v[x] = t[i][j]

\* Two lists of rows of the same lengths are flattened alike.
LEMMA FlattenAlike ==
  ASSUME NEW n \in Nat, NEW s, NEW t, SameRows(s, t, n)
  PROVE  Alike(FlattenSeq(s), FlattenSeq(t), s, t, n)
  <1>1. PICK f : f = [k \in 1 .. n |-> Len(s[k])]
    OBVIOUS
  <1>2. \A k \in 1 .. n : f[k] = Len(s[k]) /\ f[k] \in Nat
    BY <1>1, SeqFacts DEF SameRows
  <1>3. PICK S : S = [k \in 0 .. n |-> Total(f, 1 .. k)]
    OBVIOUS
  <1>4. /\ S[0] = 0 /\ \A k \in 0 .. n : S[k] \in Int
        /\ \A k \in 1 .. n : S[k] = S[k - 1] + f[k]
    <2>1. /\ Total(f, {}) = 0
          /\ \A k \in 0 .. n : Total(f, 1 .. k) \in Int
          /\ \A k \in 1 .. n : Total(f, 1 .. k) = f[k] + Total(f, 1 .. k - 1)
      <3>1. \A k \in 1 .. n : f[k] \in Int
        BY <1>2
      <3> QED
        BY <3>1, TotalNext
    <2>2. 1 .. 0 = {} /\ 0 \in 0 .. n
      OBVIOUS
    <2>3. ASSUME NEW k \in 1 .. n PROVE S[k] = S[k - 1] + f[k]
      <3>1. k \in 0 .. n /\ k - 1 \in 0 .. n
        OBVIOUS
      <3>2. /\ S[k] = Total(f, 1 .. k) /\ S[k - 1] = Total(f, 1 .. k - 1)
            /\ Total(f, 1 .. k - 1) \in Int /\ f[k] \in Int
        BY <1>2, <1>3, <2>1, <3>1
      <3> QED
        BY <2>1, <3>2
    <2> QED
      BY <1>3, <2>1, <2>2, <2>3
  <1>5. \A k \in 0 .. n : S[k] \in Nat
    <2>1. \A k \in 1 .. n : S[k - 1] <= S[k]
      <3> SUFFICES ASSUME NEW k \in 1 .. n PROVE S[k - 1] <= S[k]
        OBVIOUS
      <3>1. k - 1 \in 0 .. n
        OBVIOUS
      <3> QED
        BY <1>2, <1>4, <3>1
    <2>2. \A k, l \in 0 .. n : k <= l => S[k] <= S[l]
      BY <1>4, <2>1, GrowsUp
    <2>3. \A k \in 0 .. n : 0 \in 0 .. n /\ 0 <= k
      OBVIOUS
    <2> QED
      BY <1>4, <2>2, <2>3
  <1>6. RowSums(s, n, S) /\ RowSums(t, n, S)
    BY <1>2, <1>4, <1>5 DEF RowSums, SameRows
  <1>7. InRows(FlattenSeq(s), s, n, S)
    BY <1>6, FlattenAt DEF SameRows
  <1>8. InRows(FlattenSeq(t), t, n, S)
    BY <1>6, FlattenAt DEF SameRows
  <1>9. ASSUME NEW x \in 1 .. S[n]
        PROVE  \E i \in 1 .. n : \E j \in 1 .. Len(s[i]) :
                 FlattenSeq(s)[x] = s[i][j] /\ FlattenSeq(t)[x] = t[i][j]
    <2>1. PICK i \in 1 .. n : \E j \in 1 .. Len(s[i]) : x = S[i - 1] + j
      BY <1>6, RowPlaces
    <2>2. PICK j \in 1 .. Len(s[i]) : x = S[i - 1] + j
      BY <2>1
    <2>3. FlattenSeq(s)[x] = s[i][j] /\ FlattenSeq(t)[x] = t[i][j]
      BY <1>7, <1>8, <2>2 DEF InRows, SameRows
    <2> QED
      BY <2>3
  <1> QED
    BY <1>7, <1>8, <1>9 DEF InRows, Alike

\* A dispatched step finds the routed experts of a request where it feeds the
\* request's tokens.
LEMMA ExecuteModelExperts ==
  ASSUME LInv, Plain, VInv, ExecuteModel
  PROVE  ExpertsFollowTokens'
  <1>0. Shape
    BY DEF LInv
  <1>1. PICK b \in Batches :
          LET host  == Entered(b)
              width == PaddedTokens(b, so, FALSE)
          IN /\ batch' = b
             /\ SetHost(host)
             /\ state' = <<[batch |-> b,
                            next |-> NextOf(b, host, width),
                            places |-> Places(b, PaddedReqs(b)),
                            ids |-> PreparedIds(b, host, width),
                            first |-> [r \in DOMAIN so |->
                                         computed[r] - Rejected(r)],
                            experts |-> ExpertIndices(b, so, width)]>>
    BY Zenon DEF ExecuteModel
  <1>2. PICK h : h = Entered(b)
    OBVIOUS
  <1>3. PICK w : w = PaddedTokens(b, so, FALSE)
    OBVIOUS
  <1>4. PICK e : e = state'[1]
    OBVIOUS
  <1>5. /\ e.batch = b /\ e.ids = PreparedIds(b, h, w)
        /\ e.first = [r \in DOMAIN so |-> computed[r] - Rejected(r)]
        /\ e.experts = ExpertIndices(b, so, w)
    BY <1>1, <1>2, <1>3, <1>4
  <1>6. pc = "execute" /\ so' = so
    BY DEF ExecuteModel, ScheduleAhead, stepVars
  <1>7. b \in SetToSeqs(DOMAIN so)
    BY DEF Batches
  <1>8. IsBatch(b) /\ ToSet(b) = DOMAIN so
    BY <1>0, <1>7, BatchesFacts DEF Shape
  <1>9. ASSUME NEW r \in ToSet(b)
        PROVE  /\ r \in DOMAIN so /\ so[r] \in 1 .. Chunk /\ so[r] \in Nat
               /\ computed[r] \in Nat
    <2>1. r \in DOMAIN so /\ so[r] \in 1 .. Chunk /\ computed[r] \in Nat
      BY <1>2, <1>6, <1>7, EnteredRequest
    <2>2. Chunk \in Nat
      BY <1>0, ConfigFacts DEF Chunk
    <2> QED
      BY <2>1, <2>2
  <1>10. IsCount(b, so) /\ Fits(b, so, w)
    <2>1. PICK c \in Nat : c = config.chunk /\ c = Chunk
      BY <1>0, ConfigFacts DEF Chunk
    <2>2. \E p \in Paddings : p >= Cardinality(Req) * c
      BY <1>0, <2>1, RunnerAssumption DEF Shape
    <2>3. \A r \in ToSet(b) : so[r] \in 0 .. c
      BY <1>9, <2>1
    <2>4. Fits(b, so, PaddedTokens(b, so, FALSE))
      BY <1>8, <2>2, <2>3, TokensFit
    <2>5. IsCount(b, so)
      BY <1>8, <2>3, TokensBound
    <2> QED
      BY <1>3, <2>4, <2>5
  <1>11. PICK n \in Nat : n = Len(b) /\ DOMAIN b = 1 .. n
    BY <1>8 DEF IsBatch
  <1>12. PICK f : f = [r \in ToSet(b) |-> FirstPlace(b, so, r, w)]
    OBVIOUS
  <1>13. PICK s : s = [i \in 1 .. n |->
                         [j \in 1 .. so[b[i]] |-> f[b[i]] + j - 1]]
    OBVIOUS
  <1>14. PICK t : t = [i \in 1 .. n |->
                  [j \in 1 .. so[b[i]] |-> <<b[i], e.first[b[i]] + j - 1>>]]
    OBVIOUS
  <1>15. \A i \in 1 .. n : b[i] \in ToSet(b)
    BY <1>8, <1>11, BatchFacts
  <1>16. e.experts = FlattenSeq(s)
    <2>1. s = [i \in 1 .. n |-> [j \in 1 .. so[b[i]] |->
                 FirstPlace(b, so, b[i], w) + j - 1]]
      BY <1>12, <1>13, <1>15
    <2> QED
      BY <1>5, <1>11, <2>1 DEF ExpertIndices
  <1>17. ASSUME NEW i \in 1 .. n
         PROVE  /\ IsSeq(s[i]) /\ IsSeq(t[i])
                /\ Len(s[i]) = so[b[i]] /\ Len(t[i]) = so[b[i]]
    <2>1. PICK m \in Nat : m = so[b[i]]
      BY <1>9, <1>15
    <2>2. PICK u, v : u = s[i] /\ v = t[i]
      OBVIOUS
    <2>3. u = [j \in 1 .. m |-> u[j]] /\ v = [j \in 1 .. m |-> v[j]]
      BY <1>13, <1>14, <2>1, <2>2
    <2> QED
      BY <2>1, <2>2, <2>3, FunctionIsSeq
  <1>18. /\ IsSeq(FlattenSeq(s)) /\ IsSeq(FlattenSeq(t))
         /\ Len(FlattenSeq(s)) = Len(FlattenSeq(t))
         /\ \A x \in 1 .. Len(FlattenSeq(s)) :
              \E i \in 1 .. n : \E j \in 1 .. Len(s[i]) :
                FlattenSeq(s)[x] = s[i][j] /\ FlattenSeq(t)[x] = t[i][j]
    <2>1. s = [i \in 1 .. n |-> s[i]] /\ t = [i \in 1 .. n |-> t[i]]
      BY <1>13, <1>14
    <2>2. \A i \in 1 .. n :
            IsSeq(s[i]) /\ IsSeq(t[i]) /\ Len(s[i]) = Len(t[i])
      BY <1>17
    <2>3. SameRows(s, t, n)
      BY <2>1, <2>2 DEF SameRows
    <2>4. Alike(FlattenSeq(s), FlattenSeq(t), s, t, n)
      BY <2>3, FlattenAlike
    <2> QED
      BY <2>4 DEF Alike
  <1>19. ASSUME NEW i \in 1 .. n, NEW j \in 1 .. Len(s[i])
         PROVE  e.ids[s[i][j]] = t[i][j]
    <2>1. PICK r \in ToSet(b) : r = b[i]
      BY <1>15
    <2>2. j \in 1 .. so[r] /\ so[r] \in Nat /\ computed[r] \in Nat
      BY <1>9, <1>17, <2>1
    <2>3. PICK k \in 0 .. so[r] - 1 : k = j - 1
      BY <2>2
    <2>4. FirstPlace(b, so, r, w) \in Nat
      BY <1>8, <1>10, <2>3, FirstPlaceFacts
    <2>5. s[i][j] = FirstPlace(b, so, r, w) + k
      <3>1. s[i][j] = f[r] + j - 1 /\ f[r] = FirstPlace(b, so, r, w)
        BY <1>12, <1>13, <2>1, <2>2
      <3> QED
        BY <2>2, <2>3, <2>4, <3>1
    <2>6. t[i][j] = <<r, computed[r] + k>>
      <3>1. e.first[r] = computed[r] - Rejected(r)
        BY <1>5, <1>9
      <3>2. Rejected(r) = 0
        BY DEF Rejected, Plain
      <3>3. e.first[r] + j - 1 = computed[r] + k
        BY <2>2, <2>3, <3>1, <3>2
      <3>4. t[i][j] = <<r, e.first[r] + j - 1>>
        BY <1>14, <2>1, <2>2
      <3> QED
        BY <3>3, <3>4
    <2>7. PreparedIds(b, h, w)[FirstPlace(b, so, r, w) + k]
            = <<r, computed[r] + k>>
      BY <1>2, <1>6, <1>7, <1>10, FedIs
    <2> QED
      BY <1>5, <2>5, <2>6, <2>7
  <1>20. PICK fed : fed = [k \in DOMAIN e.experts |-> e.ids[e.experts[k]]]
    OBVIOUS
  <1>21. PICK l \in Nat : /\ l = Len(FlattenSeq(s))
                          /\ DOMAIN FlattenSeq(s) = 1 .. l
    BY <1>18, SeqFacts
  <1>22. fed = [k \in 1 .. l |-> e.ids[FlattenSeq(s)[k]]]
    BY <1>16, <1>20, <1>21
  <1>23. Len(fed) = Len(FlattenSeq(t)) /\ DOMAIN fed = 1 .. l
    <2>1. fed = [k \in 1 .. l |-> fed[k]]
      BY <1>22
    <2> QED
      BY <1>18, <1>21, <1>22, <2>1, FunctionIsSeq
  <1>24. ASSUME NEW k \in 1 .. l PROVE fed[k] = FlattenSeq(t)[k]
    <2>1. PICK i \in 1 .. n : \E j \in 1 .. Len(s[i]) :
            FlattenSeq(s)[k] = s[i][j] /\ FlattenSeq(t)[k] = t[i][j]
      BY <1>18, <1>21
    <2>2. PICK j \in 1 .. Len(s[i]) :
            FlattenSeq(s)[k] = s[i][j] /\ FlattenSeq(t)[k] = t[i][j]
      BY <2>1
    <2> QED
      BY <1>19, <1>22, <2>2
  <1>25. PICK expected : expected = FlattenSeq(t)
    OBVIOUS
  <1>26. expected = FlattenSeq([i \in DOMAIN e.batch |->
            LET r == e.batch[i]
            IN [j \in 1 .. so'[r] |-> <<r, e.first[r] + j - 1>>]])
    <2>1. t = [i \in DOMAIN e.batch |->
            LET r == e.batch[i]
            IN [j \in 1 .. so'[r] |-> <<r, e.first[r] + j - 1>>]]
      BY <1>5, <1>6, <1>11, <1>14
    <2> QED
      BY <1>25, <2>1, Zenon
  <1>27. /\ Len(fed) = Len(expected)
         /\ \A k \in DOMAIN fed :
              fed[k] \in {expected[k], <<expected[k][1], - expected[k][2]>>}
    BY <1>23, <1>24, <1>25
  <1> QED
    <2>1. fed = [k \in DOMAIN state'[1].experts |->
                  state'[1].ids[state'[1].experts[k]]]
      BY <1>4, <1>20
    <2>2. expected = FlattenSeq([i \in DOMAIN state'[1].batch |->
            LET r == state'[1].batch[i]
            IN [j \in 1 .. so'[r] |-> <<r, state'[1].first[r] + j - 1>>]])
      BY <1>4, <1>26
    <2> QED
      BY <1>27, <2>1, <2>2, Zenon DEF ExpertsFollowTokens

\* Without drafts, the routed experts of a step are those of its tokens.
THEOREM ExpertsRight == Spec => [](Plain => ExpertsFollowTokens)
  <1>1. Init => (Plain => ExpertsFollowTokens)
    BY DEF Init, ExpertsFollowTokens
  <1>2. ASSUME LInv, Plain => VInv, Plain => ExpertsFollowTokens,
               [Next]_vars, Plain'
        PROVE  ExpertsFollowTokens'
    <2>1. config' = config
      BY <1>2 DEF Next, vars, Schedule, Abort, Deliver, ExecuteEmpty,
                  ExecuteModel, ExecuteContinueDecode, SampleBurst,
                  SampleSync, SampleAsync
    <2>2. Plain /\ VInv /\ ExpertsFollowTokens
      BY <1>2, <2>1 DEF Plain, Drafts, Mode, Chunk
    <2>3. CASE ExecuteModel
      BY <1>2, <2>2, <2>3, ExecuteModelExperts
    <2>4. CASE ~ ExecuteModel
      <3>1. (state' = state /\ so' = so) \/ state' = <<>>
        <4>1. Phases
          BY <1>2 DEF LInv
        <4> QED
          BY <1>2, <2>4, <4>1
             DEF Next, vars, Schedule, Abort, Deliver, ExecuteEmpty,
                 ExecuteContinueDecode, SampleBurst, SampleSync, SampleAsync,
                 stepVars, schedulerVars, hostVars, Phases
      <3> QED
        BY <2>2, <3>1 DEF ExpertsFollowTokens
    <2> QED
      BY <2>3, <2>4
  <1>3. /\ LInv /\ (Plain => VInv) /\ (Plain => ExpertsFollowTokens)
        /\ [Next]_vars
        => (Plain => ExpertsFollowTokens)'
    BY <1>2
  <1> QED
    BY <1>1, <1>3, ValuesInvariant, PTL DEF Spec

=============================================================================
