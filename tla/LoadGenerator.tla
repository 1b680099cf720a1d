---------------------------- MODULE LoadGenerator ----------------------------
(***************************************************************************)
(* A measurement run: src/pd_disagg/loadgen.py against the router, and the *)
(* validation of its records in aggregate.py.  Warm-ups are sent one after *)
(* the other, measured requests as they are scheduled, at most             *)
(* MaxConcurrency at a time.  The requests are streamed: the decode worker *)
(* (outside the repository) emits server-sent events, the router relays    *)
(* them, and the client counts those that carry text.                      *)
(*                                                                         *)
(* The router's variables are Router's; a request of the client is a task  *)
(* of the router once its connection has been accepted.                    *)
(***************************************************************************)
EXTENDS Router, Integers

CONSTANTS
  Position,        \* request -> its place in the sequence of request_index
  MaxWarmups,      \* a bound for RunConfig.warmup_requests
  MaxConcurrency,  \* RunConfig.max_concurrency
  OutLen,          \* the output length that is asked for
  Window           \* how many events may wait to be read: a bound

ASSUME RunConfigAssumption ==
  /\ Position \in [Request -> 1 .. Cardinality(Request)]
  /\ \A q, s \in Request : Position[q] = Position[s] => q = s
  /\ MaxWarmups \in 0 .. Cardinality(Request) - 1
  /\ MaxConcurrency \in Nat \ {0}
  /\ OutLen \in Nat \ {0}
  /\ Window \in Nat \ {0}

VARIABLES
  warmups,  \* RunConfig.warmup_requests
  task,     \* request -> where execute_request() is
  slots,    \* the semaphore's value
  heard,    \* request -> text chunks counted, and usage (None if not seen)
  result,   \* request -> record["status"]
  saved,    \* whether the record file has been written
  events,   \* request -> events relayed to the client and not yet read
  emitted   \* request -> D's side of the stream: tokens, text events, ended

clientVars == <<warmups, task, slots, heard, result, saved>>
streamVars == <<events, emitted>>
runVars == <<vars, clientVars, streamVars>>

None == -1

\* The requests with a negative request_index.
Warmups == {q \in Request : Position[q] <= warmups}

Event == [kind : {"text", "blank"}, tokens : 1 .. 2]
           \cup [kind : {"usage"}, tokens : 0 .. OutLen]
           \cup {[kind |-> "error", tokens |-> 0]}

RunTypeOK ==
  /\ TypeOK
  /\ warmups \in 0 .. MaxWarmups
  /\ task \in [Request -> {"sleep", "queue", "open", "read", "done"}]
  /\ slots \in 0 .. MaxConcurrency
  /\ heard \in [Request -> [texts : 0 .. OutLen, usage : None .. OutLen]]
  /\ result \in [Request -> {"started", "ok", "error"}]
  /\ saved \in BOOLEAN
  /\ events \in [Request -> Seq(Event)]
  /\ emitted \in [Request -> [tokens : 0 .. OutLen, texts : 0 .. OutLen,
                              ended : BOOLEAN]]

RunInit ==
  /\ Init
  /\ stream = [q \in Request |-> TRUE]
  /\ warmups \in 0 .. MaxWarmups
  /\ task = [q \in Request |-> "sleep"]
  /\ slots = MaxConcurrency
  /\ heard = [q \in Request |-> [texts |-> 0, usage |-> None]]
  /\ result = [q \in Request |-> "started"]
  /\ saved = FALSE
  /\ events = [q \in Request |-> <<>>]
  /\ emitted = [q \in Request |-> [tokens |-> 0, texts |-> 0, ended |-> FALSE]]

-----------------------------------------------------------------------------
(* The decode worker's stream, relayed by the router as it comes.          *)

\* D has more to send; what it sends to a client that has left is dropped.
Streaming(q) ==
  /\ pc[q] = "relay"
  /\ ~ emitted[q].ended
  /\ task[q] # "done"
  /\ Len(events[q]) < Window

\* Some tokens in one event, with text or without (an incomplete character).
EmitTokens(q) ==
  /\ Streaming(q)
  /\ \E e \in [kind : {"text", "blank"}, tokens : 1 .. 2] :
       /\ emitted[q].tokens + e.tokens <= OutLen
       /\ events' = [events EXCEPT ![q] = Append(@, e)]
       /\ emitted' = [emitted EXCEPT ![q] =
            [tokens |-> @.tokens + e.tokens,
             texts  |-> IF e.kind = "text" THEN @.texts + 1 ELSE @.texts,
             ended  |-> FALSE]]
  /\ UNCHANGED <<vars, clientVars>>

\* The last event: the usage, when all tokens were generated or the engine
\* ended the request early, or an error in place of the rest.
EmitLast(q) ==
  /\ Streaming(q)
  /\ \E e \in {[kind |-> "usage", tokens |-> emitted[q].tokens],
               [kind |-> "error", tokens |-> 0]} :
       events' = [events EXCEPT ![q] = Append(@, e)]
  /\ emitted' = [emitted EXCEPT ![q].ended = TRUE]
  /\ UNCHANGED <<vars, clientVars>>

\* A task of the router, which is there once the client's request has been
\* accepted.  The relay ends well when D's stream has, and by the client's
\* leaving when the client has left; the client's payload is never rejected.
Serve(q) ==
  /\ pc[q] = "new" => task[q] = "open"
  /\ Step(q)
  /\ reply'[q] \notin Refusals
  /\ pc[q] = "relay" => CASE status'[q] = "ok" -> emitted[q].ended
                          [] status'[q] = "started" -> task[q] = "done"
                          [] OTHER -> TRUE
  /\ UNCHANGED <<clientVars, streamVars>>

-----------------------------------------------------------------------------
(* execute_request().                                                      *)

\* run(): a warm-up follows the one before it, a measured request all warm-ups.
Released(q) == \A s \in Warmups : Position[s] < Position[q] => task[s] = "done"

\* The sleep ends at the scheduled offset; offsets grow with the index.
Wake(q) ==
  /\ task[q] = "sleep"
  /\ Released(q)
  /\ \A s \in Request : Position[s] < Position[q] => task[s] # "sleep"
  /\ task' = [task EXCEPT ![q] = "queue"]
  /\ UNCHANGED <<vars, warmups, slots, heard, result, saved, streamVars>>

\* async with semaphore: first come, first served; then the POST.
Send(q) ==
  /\ task[q] = "queue"
  /\ slots > 0
  /\ \A s \in Request : Position[s] < Position[q] => task[s] # "queue"
  /\ slots' = slots - 1
  /\ task' = [task EXCEPT ![q] = "open"]
  /\ UNCHANGED <<vars, warmups, heard, result, saved, streamVars>>

\* The router's answer begins: raise_for_status() lets a 2xx pass.
Headers(q) ==
  /\ task[q] = "open"
  /\ reply[q] \in {"2xx", "broken"}
  /\ task' = [task EXCEPT ![q] = "read"]
  /\ UNCHANGED <<vars, warmups, slots, heard, result, saved, streamVars>>

\* Mutant: every event with choices counts, text or not.
CountsChoices(e) == e.kind \in {"text", "blank"}

\* An event counts as a token event if its first choice has text.
CountsAsToken(e) == e.kind = "text"

\* One line of the stream.  An event without choices that is no usage either,
\* an error for one, is skipped.
ReadEvent(q) ==
  /\ task[q] = "read"
  /\ events[q] # <<>>
  /\ LET e == Head(events[q]) IN
       heard' = [heard EXCEPT ![q] =
         [texts |-> IF CountsAsToken(e) THEN @.texts + 1 ELSE @.texts,
          usage |-> IF e.kind = "usage" THEN e.tokens ELSE @.usage]]
  /\ events' = [events EXCEPT ![q] = Tail(@)]
  /\ UNCHANGED <<vars, warmups, task, slots, result, saved, emitted>>

\* Mutant: an error leaves execute_request() without giving the slot back.
ReleasedOnSuccess(s) == IF s = "ok" THEN slots + 1 ELSE slots

\* Leaving the async with, however the request ended.
SlotsAfter(s) == slots + 1

\* Counts and usage reach the record only when the stream was read to its end.
Finish(q, s) ==
  /\ task' = [task EXCEPT ![q] = "done"]
  /\ result' = [result EXCEPT ![q] = s]
  /\ slots' = SlotsAfter(s)
  /\ heard' = IF s = "ok" THEN heard
              ELSE [heard EXCEPT ![q] = [texts |-> 0, usage |-> None]]
  /\ UNCHANGED <<vars, warmups, saved, streamVars>>

\* The stream ended as HTTP says it must.
Complete(q) ==
  /\ task[q] = "read"
  /\ events[q] = <<>>
  /\ pc[q] = "ended" /\ reply[q] = "2xx"
  /\ Finish(q, "ok")

\* An error status, or a stream that breaks off.
AnswerFails(q) ==
  /\ \/ task[q] = "open" /\ reply[q] = "502"
     \/ task[q] = "read" /\ events[q] = <<>> /\ reply[q] = "broken"
  /\ Finish(q, "error")

\* No connection in time, or nothing to read for timeout_s.
ClientTimeout(q) ==
  /\ task[q] \in {"open", "read"}
  /\ events[q] = <<>>
  /\ Finish(q, "error")

-----------------------------------------------------------------------------
(* Records.                                                                *)

\* record["itl_valid"]
ItlValid(q) == heard[q].usage # None /\ heard[q].usage = heard[q].texts

\* records that are included in the summary, and those of them that are ok
Included == Request \ Warmups
Successful == {q \in Included : result[q] = "ok"}

AllOutputLengthsExact == \A q \in Successful : heard[q].usage = OutLen

AllItlCountsValid == \A q \in Successful : ItlValid(q)

\* gather() has returned: the records are sorted and written.
Save ==
  /\ ~ saved
  /\ \A q \in Request : task[q] = "done"
  /\ saved' = TRUE
  /\ UNCHANGED <<vars, warmups, task, slots, heard, result, streamVars>>

-----------------------------------------------------------------------------

ClientStep(q) ==
  \/ Wake(q)
  \/ Send(q)
  \/ Headers(q)
  \/ ReadEvent(q)
  \/ Complete(q)
  \/ AnswerFails(q)

RunNext ==
  \/ \E q \in Request :
       \/ EmitTokens(q)
       \/ EmitLast(q)
       \/ Serve(q)
       \/ ClientStep(q)
       \/ ClientTimeout(q)
  \/ Save

RunSpec == RunInit /\ [][RunNext]_runVars

\* The event loops of the client and of the router run every ready task, and
\* D ends every stream.
RunFairSpec ==
  /\ RunSpec
  /\ \A q \in Request :
       /\ WF_runVars(ClientStep(q))
       /\ WF_runVars(Serve(q))
       /\ WF_runVars(EmitLast(q))
  /\ WF_runVars(Save)

-----------------------------------------------------------------------------
(* Properties.                                                             *)

\* The client and the router keep a record each of a request, under the same
\* id, and they agree: what the client counts as ok the router has finished,
\* recorded as ok and closed; what the router failed the client counts as an
\* error, although it reads the stream's end from the connection alone.
RecordsAgree ==
  \A q \in Request :
    /\ result[q] = "ok" =>
         /\ pc[q] = "ended"
         /\ written[q][Len(written[q])] = "ok"
         /\ conns[q] = 0
    /\ task[q] = "done" /\ reply[q] \in {"502", "broken"} =>
         result[q] = "error"

\* When aggregate() reports exact output lengths and valid ITL counts, every
\* successful measured answer really came whole and token by token: blank,
\* merged and missing events, errors inside a stream and early ends included.
ValidatedIsComplete ==
  saved /\ AllOutputLengthsExact /\ AllItlCountsValid =>
    \A q \in Successful :
      emitted[q] = [tokens |-> OutLen, texts |-> OutLen, ended |-> TRUE]

\* The run ends and writes its records, whatever fails on the way.
RunEnds == <>saved

=============================================================================
