------------------------------- MODULE Router -------------------------------
(***************************************************************************)
(* The prefill/decode router, src/pd_disagg/router.py: one asyncio task    *)
(* per request, interleaved at its awaits.  A task picks a (prefill,       *)
(* decode) pair, prefills, decodes with the kv_transfer_params it was      *)
(* given, retries a failed remote decode once as a local one, and relays   *)
(* or returns the answer.  The tasks share the pair iterator, the record   *)
(* file and the connection pool of the decode client.                      *)
(***************************************************************************)
EXTENDS Naturals, Sequences, FiniteSets, Functions

CONSTANTS
  Request,
  NumPairs,   \* len(prefill_urls) = len(decode_urls)
  PoolSize    \* max_connections of the decode client

ASSUME RouterAssumption ==
  /\ IsFiniteSet(Request)
  /\ NumPairs \in Nat \ {0}
  /\ PoolSize \in Nat \ {0}

VARIABLES
  pc,         \* request -> where its task is
  stream,     \* request -> whether the client asked for a stream
  pairOf,     \* request -> its pair_index, NumPairs before it has one
  nextPair,   \* what pair_iterator yields next
  kvParams,   \* requests whose prefill returned kv_transfer_params
  attempts,   \* request -> record["decode_attempts"]
  transfer,   \* request -> record["kv_transfer"]
  status,     \* request -> record["status"]
  written,    \* request -> the statuses written to the record file
  reply,      \* request -> what the client got
  conns,      \* request -> connections to D that it holds
  paramsSent  \* request -> how often its params were sent to D

vars == <<pc, stream, pairOf, nextPair, kvParams, attempts, transfer, status,
          written, reply, conns, paramsSent>>

Code == {"2xx", "4xx", "5xx"}

\* What a payload that is not accepted gets: 400 when it is no JSON or
\* validate_request() raises what completions() expects of it, and 500 when it
\* is JSON but no object, where payload.get raises AttributeError.
Refusals == {"400", "500"}

TypeOK ==
  /\ pc \in [Request -> {"new", "prefill", "connect", "decode", "write",
                         "body", "relay", "close", "except", "ended"}]
  /\ stream \in [Request -> BOOLEAN]
  /\ pairOf \in [Request -> 0..NumPairs]
  /\ nextPair \in 0..(NumPairs - 1)
  /\ kvParams \subseteq Request
  /\ attempts \in [Request -> 0..2]
  /\ transfer \in [Request -> {"none", "remote", "local_fallback",
                               "local_retry"}]
  /\ status \in [Request -> {"started", "ok", "error"}]
  /\ written \in [Request -> Seq({"started", "ok", "error"})]
  /\ reply \in [Request -> {"none", "2xx", "502", "broken"} \cup Refusals]
  /\ conns \in [Request -> Nat]
  /\ paramsSent \in [Request -> Nat]

Init ==
  /\ pc = [q \in Request |-> "new"]
  /\ stream \in [Request -> BOOLEAN]
  /\ pairOf = [q \in Request |-> NumPairs]
  /\ nextPair = 0
  /\ kvParams = {}
  /\ attempts = [q \in Request |-> 0]
  /\ transfer = [q \in Request |-> "none"]
  /\ status = [q \in Request |-> "started"]
  /\ written = [q \in Request |-> <<>>]
  /\ reply = [q \in Request |-> "none"]
  /\ conns = [q \in Request |-> 0]
  /\ paramsSent = [q \in Request |-> 0]

Goto(q, l) == pc' = [pc EXCEPT ![q] = l]

recordVars == <<attempts, transfer, status, written>>

-----------------------------------------------------------------------------
(* Admission and prefill.                                                  *)

\* The payload is not accepted, and nothing is recorded.
Reject(q) ==
  /\ pc[q] = "new"
  /\ Goto(q, "ended")
  /\ \E code \in Refusals : reply' = [reply EXCEPT ![q] = code]
  /\ UNCHANGED <<stream, pairOf, nextPair, kvParams, recordVars, conns,
                 paramsSent>>

\* itertools.cycle(range(len(prefill_urls)))
Cycle == (nextPair + 1) % NumPairs

\* next(pair_iterator), under pair_lock; then the prefill is posted.
TakePair(q) ==
  /\ pc[q] = "new"
  /\ Goto(q, "prefill")
  /\ pairOf' = [pairOf EXCEPT ![q] = nextPair]
  /\ nextPair' = Cycle
  /\ UNCHANGED <<stream, kvParams, recordVars, reply, conns, paramsSent>>

\* The prefill answers, with params or without (no full block to transfer).
PrefillAnswers(q, hasParams) ==
  /\ pc[q] = "prefill"
  /\ Goto(q, "connect")
  /\ kvParams' = IF hasParams THEN kvParams \cup {q} ELSE kvParams
  /\ transfer' = [transfer EXCEPT ![q] = IF hasParams THEN "remote"
                                                      ELSE "local_fallback"]
  /\ UNCHANGED <<stream, pairOf, nextPair, attempts, status, written, reply,
                 conns, paramsSent>>

\* An error status, a transport error, or a body that is no valid answer.
PrefillFails(q) ==
  /\ pc[q] = "prefill"
  /\ Goto(q, "except")
  /\ UNCHANGED <<stream, pairOf, nextPair, kvParams, recordVars, reply, conns,
                 paramsSent>>

-----------------------------------------------------------------------------
(* Decode, remote or local.                                                *)

\* The connections in use, whoever holds them.
Open == FoldFunction(LAMBDA n, m : n + m, 0, conns)

\* Mutant: the retry sends the params again.
RemoteAlways(q) == q \in kvParams

\* make_decode_payload(): the retry is given no params.
IsRemote(q) == q \in kvParams /\ transfer[q] # "local_retry"

\* The decode client takes a connection from its pool and sends the request.
Connect(q) ==
  /\ pc[q] = "connect"
  /\ Open < PoolSize
  /\ Goto(q, "decode")
  /\ conns' = [conns EXCEPT ![q] = @ + 1]
  /\ paramsSent' = [paramsSent EXCEPT ![q] = IF IsRemote(q) THEN @ + 1 ELSE @]
  /\ UNCHANGED <<stream, pairOf, nextPair, kvParams, recordVars, reply>>

\* No connection comes free in time (httpx.PoolTimeout).
ConnectTimeout(q) ==
  /\ pc[q] = "connect"
  /\ Open >= PoolSize
  /\ Goto(q, "except")
  /\ UNCHANGED <<stream, pairOf, nextPair, kvParams, recordVars, reply, conns,
                 paramsSent>>

\* The request to D fails without an answer; httpx closes the connection.
TransportError(q) ==
  /\ pc[q] = "decode"
  /\ Goto(q, "except")
  /\ conns' = [conns EXCEPT ![q] = @ - 1]
  /\ UNCHANGED <<stream, pairOf, nextPair, kvParams, recordVars, reply,
                 paramsSent>>

\* Mutant: every failed answer is retried, that of the retry too.
RetryForEver(q, code) == q \in kvParams /\ code = "5xx"

\* should_retry_decode_locally(), asked of the first answer only.
RetryLocally(q, code) ==
  q \in kvParams /\ code = "5xx" /\ transfer[q] # "local_retry"

Attempted(q) ==
  attempts' = [attempts EXCEPT ![q] = IF transfer[q] = "local_retry" THEN 2
                                                                     ELSE 1]

\* Before a retry a streamed answer is closed; a posted one has been read.
ClosedForRetry(q) == [conns EXCEPT ![q] = @ - 1]

\* D's answer to a remote attempt calls for the local retry.
DecodeFailsRemotely(q, code) ==
  /\ pc[q] = "decode"
  /\ RetryLocally(q, code)
  /\ Attempted(q)
  /\ transfer' = [transfer EXCEPT ![q] = "local_retry"]
  /\ conns' = ClosedForRetry(q)
  /\ Goto(q, "connect")
  /\ UNCHANGED <<stream, pairOf, nextPair, kvParams, status, written, reply,
                 paramsSent>>

\* Any other answer: raise_for_status() lets a 2xx pass.  A posted answer has
\* been read and its connection returned; a stream keeps its connection, also
\* when raise_for_status() raises.
DecodeAnswers(q, code) ==
  /\ pc[q] = "decode"
  /\ ~ RetryLocally(q, code)
  /\ Attempted(q)
  /\ conns' = IF stream[q] THEN conns ELSE [conns EXCEPT ![q] = @ - 1]
  /\ Goto(q, IF code # "2xx" THEN "except"
             ELSE IF stream[q] THEN "relay" ELSE "write")
  /\ reply' = IF code = "2xx" /\ stream[q] THEN [reply EXCEPT ![q] = "2xx"]
                                           ELSE reply
  /\ UNCHANGED <<stream, pairOf, nextPair, kvParams, transfer, status,
                 written, paramsSent>>

-----------------------------------------------------------------------------
(* Answers and records.                                                    *)

Record(q, s) ==
  /\ status' = [status EXCEPT ![q] = s]
  /\ written' = [written EXCEPT ![q] = Append(@, s)]

\* Not streamed: the record is written before the body is decoded.
WriteRecord(q) ==
  /\ pc[q] = "write"
  /\ Record(q, "ok")
  /\ Goto(q, "body")
  /\ UNCHANGED <<stream, pairOf, nextPair, kvParams, attempts, transfer, reply,
                 conns, paramsSent>>

AnswerClient(q) ==
  /\ pc[q] = "body"
  /\ Goto(q, "ended")
  /\ reply' = [reply EXCEPT ![q] = "2xx"]
  /\ UNCHANGED <<stream, pairOf, nextPair, kvParams, recordVars, conns,
                 paramsSent>>

\* decode_response.json() raises on a 2xx answer that is not JSON.
BodyIsNotJson(q) ==
  /\ pc[q] = "body"
  /\ Goto(q, "except")
  /\ UNCHANGED <<stream, pairOf, nextPair, kvParams, recordVars, reply, conns,
                 paramsSent>>

\* Mutant: the handler answers without writing the error.
Unrecorded(q) == UNCHANGED <<status, written>>

RecordError(q) == Record(q, "error")

\* except Exception: record the error and answer 502.
Fail(q) ==
  /\ pc[q] = "except"
  /\ RecordError(q)
  /\ Goto(q, "ended")
  /\ reply' = [reply EXCEPT ![q] = "502"]
  /\ UNCHANGED <<stream, pairOf, nextPair, kvParams, attempts, transfer, conns,
                 paramsSent>>

\* Mutant: the error is recorded but not raised again.
ErrorSwallowed(s) == IF s = "started" THEN "broken" ELSE "2xx"

\* What the client sees of a relay that ended with status s.
RelayedAs(s) == IF s = "ok" THEN "2xx" ELSE "broken"

\* relay() reads the stream to its end, or D breaks it, or the client leaves
\* (then the generator is closed with the status still "started").
RelayEnds(q, s) ==
  /\ pc[q] = "relay"
  /\ s \in {"ok", "error", "started"}
  /\ status' = [status EXCEPT ![q] = s]
  /\ reply' = [reply EXCEPT ![q] = RelayedAs(s)]
  /\ Goto(q, "close")
  /\ UNCHANGED <<stream, pairOf, nextPair, kvParams, attempts, transfer,
                 written, conns, paramsSent>>

\* Mutant: the finally clause records but does not close.
NotClosed(q) == conns

RelayClosed(q) == [conns EXCEPT ![q] = @ - 1]

\* The finally clause of relay(): aclose() and the record.
CloseRelay(q) ==
  /\ pc[q] = "close"
  /\ conns' = RelayClosed(q)
  /\ Record(q, status[q])
  /\ Goto(q, "ended")
  /\ UNCHANGED <<stream, pairOf, nextPair, kvParams, attempts, transfer, reply,
                 paramsSent>>

-----------------------------------------------------------------------------

Step(q) ==
  \/ Reject(q)
  \/ TakePair(q)
  \/ \E hasParams \in BOOLEAN : PrefillAnswers(q, hasParams)
  \/ PrefillFails(q)
  \/ Connect(q)
  \/ ConnectTimeout(q)
  \/ TransportError(q)
  \/ \E code \in Code : DecodeFailsRemotely(q, code) \/ DecodeAnswers(q, code)
  \/ WriteRecord(q)
  \/ AnswerClient(q)
  \/ BodyIsNotJson(q)
  \/ Fail(q)
  \/ \E s \in {"ok", "error", "started"} : RelayEnds(q, s)
  \/ CloseRelay(q)

Next == \E q \in Request : Step(q)

Spec == Init /\ [][Next]_vars

\* The event loop runs every ready task, and the HTTP timeouts (600 s) end
\* every wait for a worker.
FairSpec == Spec /\ \A q \in Request : WF_vars(Step(q))

-----------------------------------------------------------------------------
(* Properties.                                                             *)

\* The params of a prefill are sent to D at most once: the lease they name
\* is gone once D has failed to use it, so the retry must do without.
ParamsSentOnce == \A q \in Request : paramsSent[q] <= 1

\* A request that was accepted and has ended left a record, and the last one
\* agrees with what the client was told (completions(), its except clause, and
\* relay()).
RecordMatchesReply ==
  \A q \in Request :
    pc[q] = "ended" /\ reply[q] \notin Refusals =>
      /\ written[q] # <<>>
      /\ LET last == written[q][Len(written[q])] IN
           /\ last = "ok" <=> reply[q] = "2xx"
           /\ reply[q] = "502" => last = "error"

\* A request that has ended holds no connection of the decode client, but for
\* a stream whose status line was an error: that answer is never closed.
EndedHoldsNoConnection ==
  \A q \in Request :
    pc[q] = "ended" =>
      \/ conns[q] = 0
      \/ conns[q] = 1 /\ stream[q] /\ reply[q] = "502"

\* Every request gets an answer or a broken stream, and its task ends.
EveryRequestEnds == \A q \in Request : pc[q] = "new" ~> pc[q] = "ended"

=============================================================================
